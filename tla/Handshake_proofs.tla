------------------------- MODULE Handshake_proofs ---------------------------
(***************************************************************************)
(* Proofs about Handshake, for any URLs and headers, request stream, limit *)
(* of the buffer and datagrams, and any answers that are whole frames, cut *)
(* into pieces in any way.  First what a callback has still to do after    *)
(* each step, and the inductive invariant Inv, which ties what a client    *)
(* knows to the part of the answer it has seen.  Then what the client      *)
(* sends: a request is read, as RFC 9204 says, as the URL and the headers  *)
(* it was made of, and SentInv says whose URL and authority they are.      *)
(*                                                                         *)
(* Codec_proofs says what the readers and writers of Codec do.             *)
(***************************************************************************)
EXTENDS Handshake, Codec_proofs

-----------------------------------------------------------------------------
(* What a callback has still to do *)

\* What a callback may still have to do, but for a piece or a datagram.
Plans ==
  {<<>>, <<Do("settings"), Do("request")>>, <<Do("greet"), Do("request")>>,
   <<Do("error"), Do("request")>>, <<Do("request")>>, <<Do("send")>>, <<Do("error")>>,
   <<Do("ready"), Do("emit")>>, <<Do("emit")>>, <<Do("emit"), Do("error")>>, <<Do("push")>>}

\* What a callback still has to do is one of the plans of the code, or a piece or a datagram
\* to take.
Planned ==
  \A c \in Attempts :
    \/ callback[c] \in Plans
    \/ \E p : callback[c] = <<DoWith("receive", p)>>
    \/ \E d \in Datagrams : callback[c] = <<DoWith("datagram", d)>>

\* What comes next.
LEMMA NextOf ==
  ASSUME Planned, NEW c \in Attempts
  PROVE  /\ At(c, "settings") => callback[c] = <<Do("settings"), Do("request")>>
         /\ At(c, "greet") => callback[c] = <<Do("greet"), Do("request")>>
         /\ At(c, "push") => callback[c] = <<Do("push")>>
         /\ At(c, "request") => callback[c] = <<Do("request")>>
         /\ At(c, "send") => callback[c] = <<Do("send")>>
         /\ At(c, "error") => callback[c] \in {<<Do("error")>>, <<Do("error"), Do("request")>>}
         /\ At(c, "ready") => callback[c] = <<Do("ready"), Do("emit")>>
         /\ At(c, "emit") => callback[c] \in {<<Do("emit")>>, <<Do("emit"), Do("error")>>}
         /\ At(c, "receive") => callback[c] = <<DoWith("receive", Piece(c))>>
         /\ At(c, "datagram") => \E d \in Datagrams : callback[c] = <<DoWith("datagram", d)>> /\ Piece(c) = d
<1>1. CASE callback[c] \in Plans
  BY <1>1 DEF Plans, At, Do, Piece
<1>2. ASSUME NEW p, callback[c] = <<DoWith("receive", p)>>
      PROVE  ~\E w \in {"settings", "greet", "push", "request", "send", "error", "ready", "emit", "datagram"} :
                At(c, w)
  BY <1>2 DEF At, DoWith
<1>3. ASSUME NEW p, callback[c] = <<DoWith("receive", p)>>
      PROVE  Piece(c) = p
  BY <1>3 DEF Piece, DoWith
<1>4. ASSUME NEW d \in Datagrams, callback[c] = <<DoWith("datagram", d)>>
      PROVE  /\ Piece(c) = d
             /\ ~\E w \in {"settings", "greet", "push", "request", "send", "error", "ready", "emit", "receive"} :
                   At(c, w)
  BY <1>4 DEF Piece, At, DoWith
<1>5. CASE \E p : callback[c] = <<DoWith("receive", p)>>
  BY <1>2, <1>3, <1>5
<1>6. CASE \E d \in Datagrams : callback[c] = <<DoWith("datagram", d)>>
  BY <1>4, <1>6
<1> QED BY <1>1, <1>5, <1>6 DEF Planned

-----------------------------------------------------------------------------
(* What the frames of an answer say *)

SaidIn(a, n, verdict) == \E i \in WholeIn(a, n) : Says(a[i], verdict)

\* A frame says a verdict that is among its own.
LEMMA SaysIs ==
  ASSUME NEW frame, NEW v \in BOOLEAN
  PROVE  Says(frame, v) <=> v \in Verdicts(FrameAt(frame, 0).value)
BY Zenon DEF Says, Verdicts

\* Nothing was read and nothing was said at the beginning.
LEMMA ReadNothing ==
  ASSUME NEW a \in Frames
  PROVE  /\ LeftIn(a, 0) = <<>>
         /\ \A v : ~SaidIn(a, 0, v)
<1>0. /\ a \in Seq(Seq(Bytes)) /\ Len(a) \in Nat /\ DOMAIN a = 1..Len(a)
      /\ FlattenSeq(a) \in Seq(Bytes) /\ EndIn(a, 0) = 0
      /\ \A i \in 0..Len(a) : EndIn(a, i) \in Nat
  <2>1. a \in Seq(Seq(Bytes))
    BY DEF Frames
  <2> QED BY <2>1, EndSteps
<1>1. WholeIn(a, 0) = {}
  <2> SUFFICES ASSUME NEW i \in 1..Len(a), EndIn(a, i) <= 0
               PROVE  FALSE
    BY <1>0 DEF WholeIn
  <2>1. 0 \in 0..Len(a) /\ i \in 0..Len(a) /\ 0 # i
    BY <1>0
  <2>2. EndIn(a, 0) < EndIn(a, i)
    BY <2>1, EndsGrow
  <2> QED BY <1>0, <2>1, <2>2
<1>2. Cardinality(WholeIn(a, 0)) = 0
  BY <1>1, FS_EmptySet
<1>3. LeftIn(a, 0) = SubSeq(FlattenSeq(a), 1, 0)
  BY <1>0, <1>2 DEF LeftIn
<1>4. SubSeq(FlattenSeq(a), 1, 0) = <<>>
  BY <1>0
<1> QED BY <1>1, <1>3, <1>4 DEF SaidIn

\* What was said stays said.
LEMMA WholeGrows ==
  ASSUME NEW a \in Frames, NEW n \in Nat, NEW m \in Nat, n <= m
  PROVE  \A v : SaidIn(a, n, v) => SaidIn(a, m, v)
<1>1. ASSUME NEW i \in WholeIn(a, n)
      PROVE  i \in WholeIn(a, m)
  <2>1. i \in DOMAIN a /\ EndIn(a, i) <= n
    BY DEF WholeIn
  <2>2. a \in Seq(Seq(Bytes)) /\ i \in 0..Len(a)
    BY <2>1 DEF Frames
  <2>3. EndIn(a, i) \in Nat
    BY <2>2, EndSteps
  <2>4. EndIn(a, i) <= m
    BY <2>1, <2>3
  <2> QED BY <2>1, <2>4 DEF WholeIn
<1> QED BY <1>1 DEF SaidIn

\* The frames of a buffer, read after n bytes of an answer, are those that end in the next.
Continues(a, n, m, data) ==
  /\ SubSeq(data, Scan(data).end + 1, Len(data)) = LeftIn(a, m)
  /\ SaidIn(a, m, TRUE) <=> (SaidIn(a, n, TRUE) \/ TRUE \in Scan(data).verdicts)
  /\ SaidIn(a, m, FALSE) <=> (SaidIn(a, n, FALSE) \/ FALSE \in Scan(data).verdicts)

\* What is left of what was read, and the next piece: all that matters.
LEMMA ReadOn ==
  ASSUME NEW a \in Frames, NEW n \in Nat, NEW m \in Nat, n <= m, m <= Len(FlattenSeq(a)),
         NEW data, data = LeftIn(a, n) \o SubSeq(FlattenSeq(a), n + 1, m)
  PROVE  Continues(a, n, m, data)
<1> DEFINE A == FlattenSeq(a)
           k == Cardinality(WholeIn(a, n))
           j == Cardinality(WholeIn(a, m))
<1>0. a \in Seq(Seq(Bytes)) /\ A \in Seq(Bytes) /\ Len(A) \in Nat /\ Len(a) \in Nat
  BY EndSteps DEF Frames
<1>1. n \in 0..Len(A) /\ m \in 0..Len(A)
  BY <1>0
<1>2. /\ WholeIn(a, n) = 1..k /\ Reaches(a, k, k, n)
      /\ WholeIn(a, m) = 1..j /\ Reaches(a, j, j, m)
  BY <1>1, WholeIs
<1> HIDE DEF k, j
<1>3. k \in Nat /\ j \in Nat /\ k \in 0..Len(a) /\ j \in 0..Len(a)
  BY <1>0, <1>2 DEF Reaches
<1>4. k <= j
  <2> SUFFICES ASSUME ~(k <= j)
               PROVE  FALSE
    OBVIOUS
  <2>1. k \in (j + 1)..Len(a) /\ j + 1 \in 0..Len(a) /\ j < Len(a)
    BY <1>0, <1>3
  <2>2. EndIn(a, j + 1) <= EndIn(a, k)
    BY <2>1, EndsGrow
  <2>3. m < EndIn(a, j + 1) /\ EndIn(a, k) <= n
    BY <1>2, <2>1 DEF Reaches
  <2>4. EndIn(a, j + 1) \in Nat /\ EndIn(a, k) \in Nat
    BY <1>0, <1>3, <2>1, EndSteps
  <2> QED BY <2>2, <2>3, <2>4
<1>5. Reaches(a, k, j, m)
  BY <1>2, <1>3, <1>4 DEF Reaches
<1> DEFINE p == EndIn(a, k)
           q == EndIn(a, j)
<1>6. p \in Nat /\ q \in Nat /\ p <= n /\ q <= m /\ p <= q
  <2>1. p \in Nat /\ q \in Nat
    BY <1>0, <1>3, EndSteps
  <2>2. p <= n /\ q <= m
    BY <1>2 DEF Reaches
  <2>3. j \in k..Len(a)
    BY <1>3, <1>4
  <2>4. p <= q
    BY <1>3, <2>3, EndsGrow
  <2> QED BY <2>1, <2>2, <2>4
<1> DEFINE D == SubSeq(A, p + 1, m)
<1>7. Scan(D) = [verdicts |-> TellsIn(a, k, j), end |-> q - p]
  BY <1>5, ScanOfFrames
<1> HIDE DEF D
<1>s. Scan(D).verdicts = TellsIn(a, k, j) /\ Scan(D).end = q - p
  BY <1>7
<1>8. LeftIn(a, n) = SubSeq(A, p + 1, n) /\ LeftIn(a, m) = SubSeq(A, q + 1, m)
  <2>1. p \in Nat /\ q \in Nat /\ 1 + p = p + 1 /\ 1 + q = q + 1
    BY <1>6
  <2>2. LeftIn(a, n) = SubSeq(A, 1 + p, n) /\ LeftIn(a, m) = SubSeq(A, 1 + q, m)
    BY DEF LeftIn, k, j
  <2> QED BY <2>1, <2>2
<1> HIDE DEF A, p, q
<1>9. data = D
  <2>1. data = SubSeq(A, p + 1, n) \o SubSeq(A, n + 1, m)
    BY <1>8 DEF A
  <2>2. /\ SubSeq(A, p + 1, n) \in Seq(Bytes) /\ Len(SubSeq(A, p + 1, n)) = n - p
        /\ \A i \in 1..(n - p) : SubSeq(A, p + 1, n)[i] = A[p + i]
    BY <1>0, <1>1, <1>6, Part DEF D
  <2>3. /\ SubSeq(A, n + 1, m) \in Seq(Bytes) /\ Len(SubSeq(A, n + 1, m)) = m - n
        /\ \A i \in 1..(m - n) : SubSeq(A, n + 1, m)[i] = A[n + i]
    BY <1>0, <1>1, <1>6, Part DEF D
  <2>4. /\ D \in Seq(Bytes) /\ Len(D) = m - p
        /\ \A i \in 1..(m - p) : D[i] = A[p + i]
    BY <1>0, <1>1, <1>6, Part DEF D
  <2> DEFINE s == SubSeq(A, p + 1, n)
             t == SubSeq(A, n + 1, m)
  <2> HIDE DEF s, t
  <2>5. s \in Seq(Bytes) /\ Len(s) = n - p /\ t \in Seq(Bytes) /\ Len(t) = m - n
    BY <2>2, <2>3 DEF s, t
  <2>6. s \o t \in Seq(Bytes) /\ Len(s \o t) = m - p
    <3>1. s \o t \in Seq(Bytes) /\ Len(s \o t) = Len(s) + Len(t)
      <4>1. s \in Seq(Bytes) /\ t \in Seq(Bytes)
        BY <2>5
      <4> QED BY <4>1, ConcatProperties
    <3>2. (n - p) + (m - n) = m - p
      BY <1>6
    <3> QED BY <2>5, <3>1, <3>2
  <2>7. \A i \in 1..(m - p) : (s \o t)[i] = D[i]
    <3> SUFFICES ASSUME NEW i \in 1..(m - p)
                 PROVE  (s \o t)[i] = D[i]
      OBVIOUS
    <3>1. CASE i <= n - p
      <4>1. i \in 1..(n - p)
        BY <1>1, <1>6, <3>1
      <4>2. (s \o t)[i] = s[i]
        BY <2>5, <4>1
      <4> QED BY <2>2, <2>4, <4>1, <4>2 DEF s
    <3>2. CASE ~(i <= n - p)
      <4>1. i - (n - p) \in 1..(m - n) /\ n + (i - (n - p)) = p + i
        BY <1>1, <1>6, <3>2
      <4>2. (s \o t)[i] = t[i - (n - p)]
        BY <1>1, <1>6, <2>5, <3>2
      <4> QED BY <2>3, <2>4, <4>1, <4>2 DEF t
    <3> QED BY <3>1, <3>2
  <2>8. s \o t = D
    BY <1>1, <1>6, <2>4, <2>6, <2>7, SeqEqual
  <2> QED BY <2>1, <2>8 DEF s, t
<1>10. SubSeq(data, Scan(data).end + 1, Len(data)) = LeftIn(a, m)
  <2>1. /\ D \in Seq(Bytes) /\ Len(D) = m - p
        /\ \A i \in 1..(m - p) : D[i] = A[p + i]
    BY <1>0, <1>1, <1>6, Part DEF D
  <2>2. Scan(data).end = q - p
    BY <1>9, <1>s
  <2> DEFINE s == SubSeq(D, (q - p) + 1, m - p)
             t == SubSeq(A, q + 1, m)
  <2>3. s \in Seq(Bytes) /\ Len(s) = m - q /\ \A i \in 1..(m - q) : s[i] = D[(q - p) + i]
    <3>1. q - p \in Nat /\ m - p \in Nat /\ q - p <= m - p /\ m - p <= Len(D) /\ (m - p) - (q - p) = m - q
      BY <1>1, <1>6, <2>1
    <3>2. s \in Seq(Bytes) /\ Len(s) = (m - p) - (q - p) /\ \A i \in 1..((m - p) - (q - p)) : s[i] = D[(q - p) + i]
      <4> HIDE DEF D
      <4> QED BY <2>1, <3>1, Part
    <3> QED BY <3>1, <3>2
  <2>4. t \in Seq(Bytes) /\ Len(t) = m - q /\ \A i \in 1..(m - q) : t[i] = A[q + i]
    BY <1>0, <1>1, <1>6, Part DEF D
  <2> HIDE DEF s, t
  <2>5. \A i \in 1..(m - q) : s[i] = t[i]
    <3> SUFFICES ASSUME NEW i \in 1..(m - q)
                 PROVE  s[i] = t[i]
      OBVIOUS
    <3>1. (q - p) + i \in 1..(m - p) /\ p + ((q - p) + i) = q + i
      BY <1>1, <1>6
    <3> QED BY <2>1, <2>3, <2>4, <3>1
  <2>6. s = t
    BY <1>1, <1>6, <2>3, <2>4, <2>5, SeqEqual
  <2> QED BY <1>8, <1>9, <2>1, <2>2, <2>6 DEF s, t
<1>11. ASSUME NEW v \in BOOLEAN
       PROVE  SaidIn(a, m, v) <=> SaidIn(a, n, v) \/ v \in TellsIn(a, k, j)
  <2>2. \A i : Says(a[i], v) <=> v \in Verdicts(FrameAt(a[i], 0).value)
    BY SaysIs
  <2>3. v \in TellsIn(a, k, j) <=> \E i \in (k + 1)..j : Says(a[i], v)
    BY <2>2 DEF TellsIn
  <2>4. 1..j = 1..k \union (k + 1)..j
    BY <1>3, <1>4
  <2> QED BY <1>2, <2>3, <2>4 DEF SaidIn
<1>12. Scan(data).verdicts = TellsIn(a, k, j)
  BY <1>9, <1>s
<1>13. SaidIn(a, m, TRUE) <=> SaidIn(a, n, TRUE) \/ TRUE \in TellsIn(a, k, j)
  BY <1>11
<1>14. SaidIn(a, m, FALSE) <=> SaidIn(a, n, FALSE) \/ FALSE \in TellsIn(a, k, j)
  BY <1>11
<1> QED BY <1>10, <1>12, <1>13, <1>14 DEF Continues

-----------------------------------------------------------------------------
(* What a datagram begins with *)

\* What is read as a flow is written in one of the widths that hold it.
LEMMA FlowIsLegal ==
  ASSUME NEW d \in Seq(Bytes), wt_http3_decode_varint(d, 0).ok,
         NEW v, IsFlow(v), v = wt_http3_decode_varint(d, 0).value
  PROVE  \E flow \in Legal(v) : flow \o SubSeq(d, wt_http3_decode_varint(d, 0).end + 1, Len(d)) = d
<1> DEFINE b == d[1]
           w == 2 ^ (b \div 64)
<1>0. Len(d) \in Nat
  OBVIOUS
<1>1. Len(d) # 0 /\ 1 \in 1..Len(d) /\ b \in Bytes
  <2>1. ~(0 >= Len(d))
    BY SMT DEF wt_http3_decode_varint, Unreadable
  <2> QED BY <1>0, <2>1, SMT
<1>2. b = 64 * (b \div 64) + (b % 64) /\ b % 64 \in 0..63 /\ b \div 64 \in {0, 1, 2, 3} /\ b \in Nat
  BY <1>1, FirstByte
<1>3. /\ w \in {1, 2, 4, 8}
      /\ \/ b \div 64 = 0 /\ w = 1
         \/ b \div 64 = 1 /\ w = 2
         \/ b \div 64 = 2 /\ w = 4
         \/ b \div 64 = 3 /\ w = 8
  BY <1>2, Powers
<1>4. w <= Len(d) /\ wt_http3_decode_varint(d, 0).end = w /\ v = Sofar(d, w)
  <2>1. 0 + 1 = 1 /\ 0 + 2 = 2 /\ ~(0 >= Len(d))
    BY <1>0, <1>1, SMT
  <2>2. wt_http3_decode_varint(d, 0) =
          IF 0 + w > Len(d) THEN Unreadable ELSE Read(Shifts(b % 64, SubSeq(d, 2, 0 + w)), 0 + w)
    BY <2>1, SMT DEF wt_http3_decode_varint
  <2>3. 0 + w = w /\ w \in Nat
    BY <1>3, SMT
  <2> HIDE DEF w, b
  <2>4. ~(w > Len(d))
    BY <2>2, <2>3, SMT DEF Unreadable
  <2>5. wt_http3_decode_varint(d, 0) = Read(Shifts(b % 64, SubSeq(d, 2, w)), w)
    BY <2>2, <2>3, <2>4, SMT
  <2> QED BY <1>0, <2>3, <2>4, <2>5, SMT DEF Read, Sofar, b
<1> HIDE DEF w
<1>r. Unread(d, v, w)
  BY <1>3, <1>4, BytesRead
<1>5. /\ w = 1 => Sofar(d, 1) = v
      /\ w = 2 => Sofar(d, 1) = v \div 256
      /\ w = 4 => Sofar(d, 1) = v \div 16777216
      /\ w = 8 => Sofar(d, 1) = 0
      /\ \A i \in 2..w : d[i] = ByteOf(v, w - i)
  BY <1>r, SMT DEF Unread
<1>6. Sofar(d, 1) = b % 64
  BY <1>1, SofarIs, SMT
<1> HIDE DEF b
<1>7. Width(v) <= w /\ Width(v) \in Nat
  <2>1. v \in Nat /\ v <= 536870911
    BY SMT DEF IsFlow
  <2>2. CASE w = 1
    <3>1. v <= 63
      BY <1>2, <1>5, <1>6, <2>2, SMT
    <3> QED BY <2>1, <2>2, <3>1, SMT DEF Width
  <2>3. CASE w = 2
    <3>1. v \div 256 <= 63
      BY <1>2, <1>5, <1>6, <2>3, SMT
    <3>2. v <= 16383
      BY <2>1, <3>1, SMT
    <3> QED BY <2>1, <2>3, <3>2, SMT DEF Width
  <2>4. CASE w = 4
    BY <2>1, <2>4, SMT DEF Width
  <2>5. CASE w = 8
    BY <2>1, <2>5, SMT DEF Width
  <2> QED BY <1>3, <2>2, <2>3, <2>4, <2>5, SMT
<1>8. InWidth(v, w) \in Legal(v)
  <2>1. w \in {1, 2, 4, 8} \ 0..(Width(v) - 1)
    BY <1>3, <1>7, SMT
  <2> QED BY <2>1, SMT DEF Legal
<1>9. b = ByteOf(v, w - 1) + Mark(w)
  <2>1. v \in Nat /\ v <= 536870911
    BY SMT DEF IsFlow
  <2>2. /\ ByteOf(v, 0) = v % 256 /\ ByteOf(v, 1) = (v \div 256) % 256
        /\ ByteOf(v, 3) = (v \div 16777216) % 256 /\ ByteOf(v, 7) = 0
    BY <2>1, SMT DEF ByteOf
  <2>3. CASE w = 1
    <3>1. b = 0 + (b % 64) /\ w - 1 = 0
      BY <1>2, <1>3, <2>3, SMT
    <3>2. b % 64 = v % 256
      BY <1>2, <1>5, <1>6, <2>1, <2>3, SMT
    <3> QED BY <1>2, <2>2, <2>3, <3>1, <3>2, Marks, SMT
  <2>4. CASE w = 2
    <3>1. b = 64 + (b % 64) /\ w - 1 = 1
      BY <1>2, <1>3, <2>4, SMT
    <3>2. b % 64 = (v \div 256) % 256
      BY <1>2, <1>5, <1>6, <2>1, <2>4, SMT
    <3> QED BY <1>2, <2>2, <2>4, <3>1, <3>2, Marks, SMT
  <2>5. CASE w = 4
    <3>1. b = 128 + (b % 64) /\ w - 1 = 3
      BY <1>2, <1>3, <2>5, SMT
    <3>2. b % 64 = (v \div 16777216) % 256
      BY <1>2, <1>5, <1>6, <2>1, <2>5, SMT
    <3> QED BY <1>2, <2>2, <2>5, <3>1, <3>2, Marks, SMT
  <2>6. CASE w = 8
    <3>1. b = 192 + (b % 64) /\ w - 1 = 7
      BY <1>2, <1>3, <2>6, SMT
    <3>2. b % 64 = 0
      BY <1>2, <1>5, <1>6, <2>1, <2>6, SMT
    <3> QED BY <1>2, <2>2, <2>6, <3>1, <3>2, Marks, SMT
  <2> QED BY <1>3, <2>3, <2>4, <2>5, <2>6, SMT
<1>10. \A i \in 1..w : InWidth(v, w)[i] = d[i]
  <2> SUFFICES ASSUME NEW i \in 1..w
               PROVE  InWidth(v, w)[i] = d[i]
    OBVIOUS
  <2>1. InWidth(v, w)[i] = ByteOf(v, w - i) + (IF i = 1 THEN Mark(w) ELSE 0)
    BY DEF InWidth
  <2>2. CASE i = 1
    BY <1>9, <2>1, <2>2 DEF b
  <2>3. CASE i # 1
    <3>1. i \in 2..w
      BY <1>3, <2>3
    <3>2. d[i] = ByteOf(v, w - i)
      BY <1>5, <3>1
    <3>3. d[i] \in Nat
      <4>1. i \in 1..Len(d)
        BY <1>0, <1>3, <1>4
      <4>2. d[i] \in Bytes
        BY <4>1
      <4> QED BY <4>2, FirstByte
    <3>4. InWidth(v, w)[i] = ByteOf(v, w - i) + 0
      BY <2>1, <2>3
    <3> QED BY <3>2, <3>3, <3>4
  <2> QED BY <2>2, <2>3
<1>11. InWidth(v, w) \o SubSeq(d, w + 1, Len(d)) = d
  <2> DEFINE s == InWidth(v, w)
             t == SubSeq(d, w + 1, Len(d))
  <2>1. w \in Nat /\ Len(d) <= Len(d)
    BY <1>0, <1>3
  <2>2. s \in Seq(Bytes) /\ Len(s) = w
    <3>1. \A i \in 1..w : s[i] \in Bytes
      <4> SUFFICES ASSUME NEW i \in 1..w
                   PROVE  s[i] \in Bytes
        OBVIOUS
      <4>1. i \in 1..Len(d)
        BY <1>0, <1>4, <2>1
      <4>2. s[i] = d[i]
        BY <1>10
      <4> HIDE DEF s
      <4> QED BY <4>1, <4>2
    <3>2. s = [i \in 1..w |-> s[i]]
      BY DEF InWidth
    <3> HIDE DEF s
    <3> QED BY <2>1, <3>1, <3>2
  <2>3. t \in Seq(Bytes) /\ Len(t) = Len(d) - w /\ \A i \in 1..(Len(d) - w) : t[i] = d[w + i]
    BY <1>0, <1>4, <2>1, Part
  <2>4. \A i \in 1..w : s[i] = d[i]
    BY <1>10
  <2> HIDE DEF s, t
  <2>5. s \o t \in Seq(Bytes) /\ Len(s \o t) = Len(d)
    <3>1. s \o t \in Seq(Bytes) /\ Len(s \o t) = Len(s) + Len(t)
      <4>1. s \in Seq(Bytes) /\ t \in Seq(Bytes)
        BY <2>2, <2>3
      <4> QED BY <4>1, ConcatProperties
    <3>2. w + (Len(d) - w) = Len(d)
      BY <1>0, <2>1
    <3> QED BY <2>2, <2>3, <3>1, <3>2
  <2>6. \A i \in 1..Len(d) : (s \o t)[i] = d[i]
    <3> SUFFICES ASSUME NEW i \in 1..Len(d)
                 PROVE  (s \o t)[i] = d[i]
      OBVIOUS
    <3>1. CASE i <= w
      <4>1. i \in 1..w
        BY <2>1, <3>1, SMT
      <4>2. (s \o t)[i] = s[i]
        BY <2>2, <2>3, <4>1
      <4> QED BY <2>4, <4>1, <4>2
    <3>2. CASE ~(i <= w)
      <4>1. i - w \in 1..(Len(d) - w) /\ w + (i - w) = i
        BY <1>0, <2>1, <3>2
      <4>2. (s \o t)[i] = t[i - w]
        BY <1>0, <2>1, <2>2, <2>3, <3>2
      <4> QED BY <2>3, <4>1, <4>2
    <3> QED BY <3>1, <3>2
  <2>7. s \o t = d
    BY <2>5, <2>6, SeqEqual
  <2> QED BY <2>7 DEF s, t
<1> QED BY <1>4, <1>8, <1>11

-----------------------------------------------------------------------------
(* Steps that are still to do *)

\* A step that a callback still has to do.
Step == [do : What, piece : Seq(Bytes)]

\* What is still to be done, in whatever order.
Dos(steps) == {steps[i].do : i \in DOMAIN steps}

\* ... for the plans the code makes.
LEMMA DosOf ==
  /\ Dos(<<>>) = {}
  /\ \A x : Dos(<<Do(x)>>) = {x}
  /\ \A x, y : Dos(<<Do(x), Do(y)>>) = {x, y}
  /\ \A x, p : Dos(<<DoWith(x, p)>>) = {x}
<1>1. Dos(<<>>) = {}
  BY DEF Dos
<1>2. ASSUME NEW x PROVE Dos(<<Do(x)>>) = {x}
  <2>1. Do(x).do = x
    BY DEF Do
  <2> HIDE DEF Do
  <2>2. DOMAIN <<Do(x)>> = {1} /\ <<Do(x)>>[1] = Do(x)
    OBVIOUS
  <2> QED BY <2>1, <2>2 DEF Dos
<1>3. ASSUME NEW x, NEW y PROVE Dos(<<Do(x), Do(y)>>) = {x, y}
  <2>1. Do(x).do = x /\ Do(y).do = y
    BY DEF Do
  <2> HIDE DEF Do
  <2>2. DOMAIN <<Do(x), Do(y)>> = {1, 2} /\ <<Do(x), Do(y)>>[1] = Do(x) /\ <<Do(x), Do(y)>>[2] = Do(y)
    OBVIOUS
  <2> QED BY <2>1, <2>2 DEF Dos
<1>4. ASSUME NEW x, NEW p PROVE Dos(<<DoWith(x, p)>>) = {x}
  <2>1. DoWith(x, p).do = x
    BY DEF DoWith
  <2> HIDE DEF DoWith
  <2>2. DOMAIN <<DoWith(x, p)>> = {1} /\ <<DoWith(x, p)>>[1] = DoWith(x, p)
    OBVIOUS
  <2> QED BY <2>1, <2>2 DEF Dos
<1> QED BY <1>1, <1>2, <1>3, <1>4

\* The steps are steps.
LEMMA StepsTyped ==
  ASSUME NEW x \in What
  PROVE  /\ Do(x) \in Step
         /\ \A p \in Seq(Bytes) : DoWith(x, p) \in Step
<1>1. <<>> \in Seq(Bytes)
  OBVIOUS
<1> QED BY <1>1 DEF Do, DoWith, Step

-----------------------------------------------------------------------------
(* Types *)

\* The number of a connect, or none.
Numbers == 0..Len(Urls)

\* The fields of a context.
Context ==
  [session : Numbers, connection : Numbers, control : Numbers, request : Numbers,
   url : Numbers, authority : Numbers, flow : Nat, ready : BOOLEAN,
   accepted : BOOLEAN, emitted : BOOLEAN, closing : BOOLEAN, buffer : Seq(Bytes)]

\* The types of all the variables but delivered and the wire.
Typed ==
  /\ context \in Context /\ Len(context.buffer) <= Limit
  /\ caller \in [pc : {"idle", "reset", "name", "close", "open", "start"}, attempt : Numbers, replaced : Numbers]
  /\ caller.pc = "close" => caller.replaced # 0
  /\ callback \in [Attempts -> Seq(Step)]
  /\ link \in [Attempts -> {"none", "starting", "up", "ending", "over", "closed"}]
  /\ started \in SUBSET Attempts /\ greeted \in SUBSET Attempts
  /\ answer \in [Attempts -> Answers \union {<<>>}]
  /\ arrived \in [Attempts -> Nat]
  /\ connected \in [Attempts -> Nat]
  /\ failed \in BOOLEAN /\ hole \in BOOLEAN
  /\ crossed \in SUBSET Attempts

\* What the assumptions on the constants come to.
LEMMA Constants ==
  /\ Len(Urls) \in Nat /\ 0 \in Numbers /\ Numbers \subseteq Nat
  /\ Attempts \subseteq Numbers /\ \A n \in Numbers : n # 0 => n \in Attempts
  /\ Answers \union {<<>>} \subseteq Frames /\ Limit \in Nat
  /\ RequestStreamId \div 4 \in Nat /\ IsFlow(RequestStreamId \div 4)
<1>1. Len(Urls) \in Nat
  BY HandshakeAssumption
<1>2. Answers \union {<<>>} \subseteq Frames
  <2>1. <<>> \in Seq(Seq(Bytes)) /\ DOMAIN <<>> = {}
    OBVIOUS
  <2>2. <<>> \in Frames
    BY <2>1 DEF Frames
  <2>3. \A a \in Answers : a \in Frames
    BY HandshakeAssumption DEF Frames
  <2> QED BY <2>2, <2>3
<1>3. RequestStreamId \in Nat /\ RequestStreamId <= 2147483647
  BY HandshakeAssumption, SMT DEF Huge
<1>4. RequestStreamId \div 4 \in Nat /\ IsFlow(RequestStreamId \div 4)
  BY <1>3, SMT DEF IsFlow
<1>5. Limit \in Nat
  BY HandshakeAssumption
<1>6. 0 \in Numbers /\ Numbers \subseteq Nat /\ Attempts \subseteq Numbers /\ \A n \in Numbers : n # 0 => n \in Attempts
  BY <1>1 DEF Numbers, Attempts
<1> QED BY <1>1, <1>2, <1>4, <1>5, <1>6

\* After a step is done.
LEMMA ThenTyped ==
  ASSUME callback \in [Attempts -> Seq(Step)], NEW c \in Attempts, callback[c] # <<>>,
         NEW further \in Seq(Step), Then(c, further)
  PROVE  callback' \in [Attempts -> Seq(Step)]
<1>1. Tail(callback[c]) \in Seq(Step)
  OBVIOUS
<1>2. further \o Tail(callback[c]) \in Seq(Step)
  BY <1>1, ConcatProperties
<1> QED BY <1>2 DEF Then

\* A callback that moves on keeps its type.
LEMMA Furthers ==
  /\ <<>> \in Seq(Step) /\ \A x \in What : <<Do(x)>> \in Seq(Step)
  /\ \A x, y \in What : <<Do(x), Do(y)>> \in Seq(Step)
  /\ \A x \in What, p \in Seq(Bytes) : <<DoWith(x, p)>> \in Seq(Step)
<1>1. \A s : s \in Step => <<s>> \in Seq(Step)
  OBVIOUS
<1>2. \A s, t : s \in Step /\ t \in Step => <<s, t>> \in Seq(Step)
  OBVIOUS
<1>3. \A x \in What : Do(x) \in Step
  BY StepsTyped
<1>4. \A x \in What, p \in Seq(Bytes) : DoWith(x, p) \in Step
  BY StepsTyped
<1>5. <<>> \in Seq(Step)
  OBVIOUS
<1> QED BY <1>1, <1>2, <1>3, <1>4, <1>5

\* The types hold at the beginning.
LEMMA TypedInit == Init => Typed
<1> SUFFICES ASSUME Init PROVE Typed
  OBVIOUS
<1>1. context \in Context /\ Len(context.buffer) <= Limit
  BY Constants DEF Init, NoContext, Context
<1>2. callback \in [Attempts -> Seq(Step)]
  BY Furthers DEF Init
<1> QED BY <1>1, <1>2, Constants DEF Init, Typed

\* The callback a step belongs to.
LEMMA PieceTyped ==
  ASSUME Typed, NEW c \in Attempts, callback[c] # <<>>
  PROVE  Piece(c) \in Seq(Bytes)
<1>1. callback[c] \in Seq(Step)
  BY DEF Typed
<1>2. Head(callback[c]) \in Step
  BY <1>1
<1> QED BY <1>2 DEF Piece, Step

\* An answer, joined, is bytes.
LEMMA AnswerBytes ==
  ASSUME Typed, NEW c \in Attempts
  PROVE  answer[c] \in Frames /\ FlattenSeq(answer[c]) \in Seq(Bytes) /\ Len(FlattenSeq(answer[c])) \in Nat
<1>1. answer[c] \in Frames
  BY Constants DEF Typed
<1>2. answer[c] \in Seq(Seq(Bytes))
  BY <1>1 DEF Frames
<1>3. FlattenSeq(answer[c]) \in Seq(Bytes)
  BY <1>2, EndSteps
<1> QED BY <1>1, <1>3

\* ... and every step keeps them: one step of the proof for each action.
LEMMA TypedNext == Typed /\ [Next]_vars => Typed'
<1> SUFFICES ASSUME Typed, [Next]_vars PROVE Typed'
  OBVIOUS
<1> USE Constants
<1>a. attempt \in Numbers /\ caller.attempt \in Numbers /\ context.connection \in Numbers /\ context \in Context
  BY DEF Typed, attempt, Context
<1>1. CASE UNCHANGED vars
  BY <1>1 DEF Typed, vars, peer, history
<1>2. CASE wt_client_connect
  <2>1. attempt + 1 \in Numbers /\ attempt + 1 \in Attempts
    BY <1>2, <1>a DEF wt_client_connect, Numbers, Attempts
  <2>2. context' \in Context /\ context'.buffer = context.buffer
    BY <1>2, <1>a, <2>1 DEF wt_client_connect, Context
  <2>3. crossed' \in SUBSET Attempts
    BY <1>2, <2>1 DEF wt_client_connect, Typed
  <2> QED BY <1>2, <2>1, <2>2, <2>3 DEF wt_client_connect, Typed, peer
<1>3. CASE ConnectRefused
  BY <1>3 DEF ConnectRefused, Goto, Typed, handshake, peer, history
<1>4. CASE ConnectResets
  <2>1. Cleared \in Context /\ Cleared.buffer = <<>> /\ [Cleared EXCEPT !.connection = 0] \in Context
        /\ [Cleared EXCEPT !.connection = 0].buffer = <<>>
    <3>1. Cleared \in Context
      <4>1. <<>> \in Seq(Bytes)
        OBVIOUS
      <4> QED BY <1>a, <4>1 DEF Cleared, Context
    <3>2. Cleared.buffer = <<>>
      BY <1>a DEF Cleared, Context
    <3> QED BY <3>1, <3>2 DEF Context
  <2>2. context' \in Context /\ context'.buffer = <<>>
    BY <1>4, <2>1 DEF ConnectResets
  <2>3. Len(context'.buffer) <= Limit
    BY <2>2
  <2>4. /\ caller' \in [pc : {"idle", "reset", "name", "close", "open", "start"}, attempt : Numbers, replaced : Numbers]
        /\ caller'.pc # "close"
    BY <1>4, <1>a DEF ConnectResets, Goto, Typed
  <2> QED BY <1>4, <2>2, <2>3, <2>4 DEF ConnectResets, Typed, peer, history
<1>5. CASE ConnectNames
  <2>1. context' \in Context /\ context'.buffer = context.buffer
    BY <1>5, <1>a DEF ConnectNames, Context
  <2> QED BY <1>5, <2>1 DEF ConnectNames, Goto, Typed, peer, history
<1>6. CASE ConnectReplaces
  BY <1>6 DEF ConnectReplaces, Goto, Typed, handshake, history
<1>7. CASE ConnectOpens
  <2>1. context' \in Context /\ context'.buffer = context.buffer
    BY <1>7, <1>a DEF ConnectOpens, Context
  <2> QED BY <1>7, <2>1 DEF ConnectOpens, Goto, Typed, peer, history
<1>8. CASE ConnectStarts
  <2>1. context' \in Context /\ context'.buffer = context.buffer
    BY <1>8, <1>a DEF ConnectStarts, Context
  <2>2. link' \in [Attempts -> {"none", "starting", "up", "ending", "over", "closed"}]
    BY <1>8 DEF ConnectStarts, Typed
  <2> QED BY <1>8, <2>1, <2>2 DEF ConnectStarts, Goto, Typed, history
<1>9. CASE wt_msquic_shutdown
  <2>1. context' \in Context /\ context'.buffer = context.buffer
    BY <1>9, <1>a DEF wt_msquic_shutdown, Context
  <2> QED BY <1>9, <2>1 DEF wt_msquic_shutdown, Typed, peer, history
<1>10. ASSUME NEW c \in Attempts, Callbacks(c)
       PROVE  Typed'
  <2>1. CASE Connected(c)
    <3>1. <<Do("settings"), Do("request")>> \in Seq(Step)
      BY Furthers DEF What
    <3>2. callback' \in [Attempts -> Seq(Step)]
      BY <2>1, <3>1 DEF Connected, Callback, Typed
    <3> QED BY <2>1, <3>2 DEF Connected, Typed, history
  <2>2. CASE ConnectionEnds(c)
    <3>1. <<Do("push")>> \in Seq(Step)
      BY Furthers DEF What
    <3>2. callback' \in [Attempts -> Seq(Step)]
      BY <2>2, <3>1 DEF ConnectionEnds, Callback, Typed
    <3> QED BY <2>2, <3>2 DEF ConnectionEnds, Typed, history
  <2>3. CASE StreamStarted(c)
    <3>1. StartSteps \in Seq(Step)
      BY Furthers DEF What, StartSteps
    <3>2. callback' \in [Attempts -> Seq(Step)]
      BY <2>3, <3>1 DEF StreamStarted, Callback, Typed
    <3> QED BY <2>3, <3>2 DEF StreamStarted, Typed, history
  <2>4. CASE ServerAnswers(c)
    <3>1. PICK a \in Answers : answer' = [answer EXCEPT ![c] = a]
      BY <2>4 DEF ServerAnswers
    <3>2. answer' \in [Attempts -> Answers \union {<<>>}]
      BY <3>1 DEF Typed
    <3> QED BY <2>4, <3>2 DEF ServerAnswers, Typed, handshake, history
  <2>5. CASE Received(c)
    <3> DEFINE bytes == FlattenSeq(answer[c])
    <3>1. bytes \in Seq(Bytes) /\ Len(bytes) \in Nat /\ arrived[c] \in Nat
      BY AnswerBytes DEF Typed
    <3>2. PICK end \in (arrived[c] + 1)..Len(bytes) :
            /\ Callback(c, <<DoWith("receive", SubSeq(bytes, arrived[c] + 1, end))>>)
            /\ arrived' = [arrived EXCEPT ![c] = end]
      BY <2>5 DEF Received
    <3> HIDE DEF bytes
    <3>3. arrived[c] <= end /\ end <= Len(bytes) /\ end \in Nat
      BY <3>1
    <3>4. SubSeq(bytes, arrived[c] + 1, end) \in Seq(Bytes)
      BY <3>1, <3>3, Part
    <3>5. <<DoWith("receive", SubSeq(bytes, arrived[c] + 1, end))>> \in Seq(Step)
      BY <3>4, Furthers DEF What
    <3>6. callback' \in [Attempts -> Seq(Step)] /\ arrived' \in [Attempts -> Nat]
      BY <3>2, <3>3, <3>5 DEF Callback, Typed
    <3> QED BY <2>5, <3>6 DEF Received, Typed, history
  <2>6. CASE DatagramReceived(c)
    <3>1. PICK d \in Datagrams : Callback(c, <<DoWith("datagram", d)>>)
      BY <2>6 DEF DatagramReceived
    <3>2. d \in Seq(Bytes)
      BY HandshakeAssumption
    <3>3. <<DoWith("datagram", d)>> \in Seq(Step)
      BY <3>2, Furthers DEF What
    <3>4. callback' \in [Attempts -> Seq(Step)]
      BY <3>1, <3>3 DEF Callback, Typed
    <3> QED BY <2>6, <3>4 DEF DatagramReceived, Typed, history
  <2> QED BY <1>10, <2>1, <2>2, <2>3, <2>4, <2>5, <2>6 DEF Callbacks
<1>11. ASSUME NEW c \in Attempts, Steps(c)
       PROVE  Typed'
  <2>0. callback \in [Attempts -> Seq(Step)]
    BY DEF Typed
  <2>f. <<>> \in Seq(Step) /\ <<Do("error")>> \in Seq(Step) /\ <<Do("send")>> \in Seq(Step)
        /\ <<Do("emit")>> \in Seq(Step) /\ <<Do("greet")>> \in Seq(Step)
    BY Furthers DEF What
  <2>t. \A further \in Seq(Step) : callback[c] # <<>> /\ Then(c, further) => callback' \in [Attempts -> Seq(Step)]
    BY <2>0, ThenTyped
  <2>0a. CASE OpenControl(c)
    <3>1. callback' \in [Attempts -> Seq(Step)]
      BY <2>0a, <2>f, <2>t DEF OpenControl, At
    <3>2. context' \in Context /\ context'.buffer = context.buffer
      BY <2>0a, <1>a DEF OpenControl, Context
    <3> QED BY <2>0a, <3>1, <3>2 DEF OpenControl, Typed, peer, history
  <2>1. CASE SendSettings(c)
    <3>1. callback' \in [Attempts -> Seq(Step)]
      BY <2>1, <2>f, <2>t DEF SendSettings, At
    <3> QED BY <2>1, <3>1 DEF SendSettings, Typed, history
  <2>2. CASE OpenRequest(c)
    <3>1. callback' \in [Attempts -> Seq(Step)]
      BY <2>2, <2>f, <2>t DEF OpenRequest, At
    <3>2. context' \in Context /\ context'.buffer = context.buffer
      BY <2>2, <1>a DEF OpenRequest, Context
    <3> QED BY <2>2, <3>1, <3>2 DEF OpenRequest, Typed, peer, history
  <2>3. CASE SendRequest(c)
    <3>1. callback' \in [Attempts -> Seq(Step)]
      BY <2>3, <2>f, <2>t DEF SendRequest, At
    <3> QED BY <2>3, <3>1 DEF SendRequest, Typed, history
  <2>4. CASE MarkReady(c)
    <3>1. callback' \in [Attempts -> Seq(Step)]
      BY <2>4, <2>f, <2>t DEF MarkReady, At
    <3>2. context' \in Context /\ context'.buffer = context.buffer
      BY <2>4, <1>a DEF MarkReady, Context
    <3> QED BY <2>4, <3>1, <3>2 DEF MarkReady, Typed, peer, history
  <2>5. CASE TryEmit(c)
    <3>1. callback' \in [Attempts -> Seq(Step)]
      BY <2>5, <2>f, <2>t DEF TryEmit, At
    <3>2. context' \in Context /\ context'.buffer = context.buffer
      BY <2>5, <1>a DEF TryEmit, Context
    <3>3. connected' \in [Attempts -> Nat]
      <4>1. connected \in [Attempts -> Nat]
        BY DEF Typed
      <4>2. connected' = connected \/ connected' = [connected EXCEPT ![context.session] = @ + 1]
        BY <2>5 DEF TryEmit
      <4>3. ASSUME NEW s PROVE [connected EXCEPT ![s] = @ + 1] \in [Attempts -> Nat]
        <5>1. CASE s \in Attempts
          BY <4>1, <5>1
        <5>2. CASE s \notin Attempts
          <6>1. [connected EXCEPT ![s] = @ + 1] = connected
            BY <4>1, <5>2
          <6> QED BY <4>1, <6>1
        <5> QED BY <5>1, <5>2
      <4> QED BY <4>1, <4>2, <4>3
    <3> QED BY <2>5, <3>1, <3>2, <3>3 DEF TryEmit, Typed, peer
  <2>6. CASE ProcessRequestStream(c)
    <3> DEFINE data == context.buffer \o Piece(c)
               scan == Scan(data)
               further == (IF TRUE \in scan.verdicts THEN <<Do("emit")>> ELSE <<>>)
                          \o (IF FALSE \in scan.verdicts THEN <<Do("error")>> ELSE <<>>)
               left == SubSeq(data, scan.end + 1, Len(data))
    <3>0. callback[c] # <<>>
      BY <2>6 DEF ProcessRequestStream, At
    <3>1. Piece(c) \in Seq(Bytes) /\ context.buffer \in Seq(Bytes)
      BY <1>a, <3>0, PieceTyped DEF Context
    <3>2. data \in Seq(Bytes) /\ Len(data) = Len(context.buffer) + Len(Piece(c))
      BY <3>1, ConcatProperties
    <3> HIDE DEF data
    <3>3. left \in Seq(Bytes) /\ Len(left) <= Len(data) /\ Len(left) \in Nat
      <4>1. left \in Seq(Bytes) /\ Len(left) <= Len(data)
        BY <3>2, ScanRest
      <4> HIDE DEF left
      <4> QED BY <4>1
    <3>4. further \in Seq(Step)
      <4> HIDE DEF scan
      <4>1. \A s, t \in {<<>>, <<Do("emit")>>, <<Do("error")>>} : s \o t \in Seq(Step)
        BY <2>f, ConcatProperties
      <4> QED BY <4>1
    <3> HIDE DEF further
    <3>5. CASE Then(c, <<Do("error")>>) /\ hole' = TRUE /\ UNCHANGED context
      <4>1. callback' \in [Attempts -> Seq(Step)]
        BY <2>f, <2>t, <3>0, <3>5
      <4> QED BY <2>6, <3>5, <4>1 DEF ProcessRequestStream, Typed, peer
    <3>6. CASE /\ Fits(Piece(c))
               /\ context' = [context EXCEPT !.buffer = left, !.accepted = @ \/ TRUE \in scan.verdicts]
               /\ Then(c, further) /\ UNCHANGED hole
      <4>1. callback' \in [Attempts -> Seq(Step)]
        BY <2>t, <3>0, <3>4, <3>6
      <4>2. Len(left) <= Limit
        <5> HIDE DEF left
        <5> QED BY <3>1, <3>2, <3>3, <3>6 DEF Fits
      <4>3. (context.accepted \/ TRUE \in scan.verdicts) \in BOOLEAN
        BY Zenon
      <4> HIDE DEF left, scan
      <4>4. context' \in Context /\ context'.buffer = left
        BY <1>a, <3>3, <3>6, <4>3 DEF Context
      <4> QED BY <2>6, <3>6, <4>1, <4>2, <4>4 DEF ProcessRequestStream, Typed, peer
    <3> QED BY <2>6, <3>5, <3>6 DEF ProcessRequestStream, data, further
  <2>7. CASE DeliverDatagram(c)
    <3>1. callback' \in [Attempts -> Seq(Step)]
      BY <2>7, <2>f, <2>t DEF DeliverDatagram, At
    <3> QED BY <2>7, <3>1 DEF DeliverDatagram, Typed, peer
  <2>8. CASE EmitError(c)
    <3>1. callback' \in [Attempts -> Seq(Step)]
      BY <2>8, <2>f, <2>t DEF EmitError, At
    <3> QED BY <2>8, <3>1 DEF EmitError, Typed, peer
  <2>9. CASE PushEvent(c)
    <3>1. callback' \in [Attempts -> Seq(Step)]
      BY <2>9, <2>f, <2>t DEF PushEvent, At
    <3> QED BY <2>9, <3>1 DEF PushEvent, Typed, peer
  <2> QED BY <1>11, <2>0a, <2>1, <2>2, <2>3, <2>4, <2>5, <2>6, <2>7, <2>8, <2>9 DEF Steps
<1> QED BY <1>1, <1>2, <1>3, <1>4, <1>5, <1>6, <1>7, <1>8, <1>9, <1>10, <1>11 DEF Next, Connecting

-----------------------------------------------------------------------------
(* What a step does to the callbacks *)

\* A callback that had old to do has new to do.
Goes(c, old, new) == callback[c] = old /\ callback' = [callback EXCEPT ![c] = new]

\* The same, as sets: no other callback moves.
Moves(c, from, to) ==
  /\ Dos(callback[c]) = from /\ Dos(callback'[c]) = to
  /\ \A d \in Attempts \ {c} : callback'[d] = callback[d]

\* How the actions say it.
LEMMA GoesIs ==
  ASSUME Typed, NEW c \in Attempts, NEW old, NEW new, Goes(c, old, new)
  PROVE  /\ callback'[c] = new /\ Moves(c, Dos(old), Dos(new))
         /\ \A d \in Attempts \ {c} : callback'[d] = callback[d]
BY DEF Typed, Goes, Moves

\* The first step of a callback is done.
LEMMA ThenIs ==
  ASSUME NEW c, NEW further, Then(c, further)
  PROVE  /\ \A u : callback[c] = <<u>> => callback' = [callback EXCEPT ![c] = further \o <<>>]
         /\ \A u, v : callback[c] = <<u, v>> => callback' = [callback EXCEPT ![c] = further \o <<v>>]
<1>1. \A u : Tail(<<u>>) = <<>>
  OBVIOUS
<1>2. \A u, v : Tail(<<u, v>>) = <<v>>
  OBVIOUS
<1> QED BY <1>1, <1>2 DEF Then

\* What is put nowhere.
LEMMA ThenSkips ==
  ASSUME NEW c, NEW u, NEW v, callback[c] = <<u, v>>
  PROVE  /\ Then(c, <<>>) => Goes(c, <<u, v>>, <<v>>)
         /\ \A x : Then(c, <<x>>) => Goes(c, <<u, v>>, <<x, v>>)
<1>1. ASSUME Then(c, <<>>)
      PROVE  Goes(c, <<u, v>>, <<v>>)
  <2>1. callback' = [callback EXCEPT ![c] = <<>> \o <<v>>]
    <3>1. callback' = [callback EXCEPT ![c] = <<>> \o Tail(<<u, v>>)]
      BY <1>1, Zenon DEF Then
    <3>2. Tail(<<u, v>>) = <<v>>
      OBVIOUS
    <3> QED BY <3>1, <3>2, Zenon
  <2>2. <<>> \o <<v>> = <<v>>
    BY Joined
  <2> QED BY <2>1, <2>2 DEF Goes
<1>2. ASSUME NEW x, Then(c, <<x>>)
      PROVE  Goes(c, <<u, v>>, <<x, v>>)
  <2>1. callback' = [callback EXCEPT ![c] = <<x>> \o <<v>>]
    BY <1>2, ThenIs
  <2>2. <<x>> \o <<v>> = <<x, v>>
    BY Joined
  <2> QED BY <2>1, <2>2 DEF Goes
<1> QED BY <1>1, <1>2

\* The callback after its control stream was opened.
LEMMA ControlSteps ==
  ASSUME Planned, NEW c \in Attempts, OpenControl(c)
  PROVE  \/ Goes(c, <<Do("settings"), Do("request")>>, <<Do("error"), Do("request")>>) /\ UNCHANGED context
         \/ Goes(c, <<Do("settings"), Do("request")>>, <<Do("request")>>) /\ UNCHANGED context
         \/ /\ Goes(c, <<Do("settings"), Do("request")>>, <<Do("greet"), Do("request")>>)
            /\ context.connection # 0
            /\ context' = [context EXCEPT !.control = context.connection]
<1>1. callback[c] = <<Do("settings"), Do("request")>>
  BY NextOf DEF OpenControl
<1>2. ASSUME Then(c, <<>>) PROVE Goes(c, <<Do("settings"), Do("request")>>, <<Do("request")>>)
  BY <1>1, <1>2, ThenSkips
<1>3. ASSUME NEW x, Then(c, <<x>>)
      PROVE  Goes(c, <<Do("settings"), Do("request")>>, <<x, Do("request")>>)
  BY <1>1, <1>3, ThenSkips
<1> QED BY <1>2, <1>3 DEF OpenControl

\* The callback after its SETTINGS.
LEMMA SettingsSteps ==
  ASSUME Planned, NEW c \in Attempts, SendSettings(c)
  PROVE  \E new \in {<<Do("request")>>, <<Do("error"), Do("request")>>} :
            Goes(c, <<Do("greet"), Do("request")>>, new)
<1>1. callback[c] = <<Do("greet"), Do("request")>>
  BY NextOf DEF SendSettings
<1>2. Then(c, <<>>) \/ Then(c, <<Do("error")>>)
  BY DEF SendSettings
<1>3. ASSUME Then(c, <<>>) PROVE Goes(c, <<Do("greet"), Do("request")>>, <<Do("request")>>)
  BY <1>1, <1>3, ThenSkips
<1>4. ASSUME Then(c, <<Do("error")>>)
      PROVE  Goes(c, <<Do("greet"), Do("request")>>, <<Do("error"), Do("request")>>)
  BY <1>1, <1>4, ThenSkips
<1> QED BY <1>2, <1>3, <1>4

\* The callback after it handed over the event of its connection.
LEMMA PushSteps ==
  ASSUME Planned, NEW c \in Attempts, PushEvent(c)
  PROVE  Goes(c, <<Do("push")>>, <<>>)
<1>1. callback[c] = <<Do("push")>> /\ Then(c, <<>>)
  BY NextOf DEF PushEvent
<1> QED BY <1>1, ThenIs, Joined DEF Goes

\* The callback after the request stream was opened.
LEMMA RequestSteps ==
  ASSUME Planned, NEW c \in Attempts, OpenRequest(c)
  PROVE  \/ Goes(c, <<Do("request")>>, <<Do("error")>>) /\ UNCHANGED context
         \/ Goes(c, <<Do("request")>>, <<>>) /\ UNCHANGED context
         \/ /\ Goes(c, <<Do("request")>>, <<Do("send")>>)
            /\ context.connection # 0 /\ context.request = 0
            /\ context' = [context EXCEPT !.request = context.connection]
<1>1. callback[c] = <<Do("request")>>
  BY NextOf DEF OpenRequest
<1>2. ASSUME NEW new \in {<<>>, <<Do("error")>>, <<Do("send")>>}, Then(c, new)
      PROVE  Goes(c, <<Do("request")>>, new)
  BY <1>1, <1>2, ThenIs, Joined DEF Goes
<1> QED BY <1>2 DEF OpenRequest

\* The callback after the request was sent.
LEMMA SendSteps ==
  ASSUME Planned, NEW c \in Attempts, SendRequest(c)
  PROVE  \E new \in {<<>>, <<Do("error")>>} : Goes(c, <<Do("send")>>, new)
<1>1. callback[c] = <<Do("send")>>
  BY NextOf DEF SendRequest
<1>2. ASSUME NEW new \in {<<>>, <<Do("error")>>}, Then(c, new)
      PROVE  Goes(c, <<Do("send")>>, new)
  BY <1>1, <1>2, ThenIs, Joined DEF Goes
<1>3. Then(c, <<>>) \/ Then(c, <<Do("error")>>)
  BY DEF SendRequest
<1> QED BY <1>2, <1>3

\* The callback after the session was marked ready.
LEMMA ReadySteps ==
  ASSUME Planned, NEW c \in Attempts, MarkReady(c)
  PROVE  Goes(c, <<Do("ready"), Do("emit")>>, <<Do("emit")>>)
<1>1. callback[c] = <<Do("ready"), Do("emit")>> /\ Then(c, <<>>)
  BY NextOf DEF MarkReady
<1> QED BY <1>1, ThenSkips

\* The callback after it tried to announce the connect.
LEMMA EmitSteps ==
  ASSUME Planned, NEW c \in Attempts, TryEmit(c)
  PROVE  Goes(c, <<Do("emit")>>, <<>>) \/ Goes(c, <<Do("emit"), Do("error")>>, <<Do("error")>>)
<1>1. callback[c] \in {<<Do("emit")>>, <<Do("emit"), Do("error")>>} /\ Then(c, <<>>)
  BY NextOf DEF TryEmit
<1>2. CASE callback[c] = <<Do("emit")>>
  BY <1>1, <1>2, ThenIs, Joined DEF Goes
<1>3. CASE callback[c] = <<Do("emit"), Do("error")>>
  BY <1>1, <1>3, ThenSkips
<1> QED BY <1>1, <1>2, <1>3

\* The callback after it reported an error.
LEMMA ErrorSteps ==
  ASSUME Planned, NEW c \in Attempts, EmitError(c)
  PROVE  Goes(c, <<Do("error")>>, <<>>) \/ Goes(c, <<Do("error"), Do("request")>>, <<Do("request")>>)
<1>1. callback[c] \in {<<Do("error")>>, <<Do("error"), Do("request")>>} /\ Then(c, <<>>)
  BY NextOf DEF EmitError
<1>2. CASE callback[c] = <<Do("error")>>
  BY <1>1, <1>2, ThenIs, Joined DEF Goes
<1>3. CASE callback[c] = <<Do("error"), Do("request")>>
  BY <1>1, <1>3, ThenSkips
<1> QED BY <1>1, <1>2, <1>3

\* The callback after it took a datagram.
LEMMA DatagramSteps ==
  ASSUME Planned, NEW c \in Attempts, DeliverDatagram(c)
  PROVE  /\ Piece(c) \in Datagrams
         /\ \E new \in {<<>>, <<Do("error")>>} : Goes(c, <<DoWith("datagram", Piece(c))>>, new)
<1>1. callback[c] = <<DoWith("datagram", Piece(c))>> /\ Piece(c) \in Datagrams
  BY NextOf DEF DeliverDatagram
<1>2. ASSUME NEW new \in {<<>>, <<Do("error")>>}, Then(c, new)
      PROVE  Goes(c, <<DoWith("datagram", Piece(c))>>, new)
  BY <1>1, <1>2, ThenIs, Joined DEF Goes
<1>3. Then(c, <<>>) \/ Then(c, <<Do("error")>>)
  BY DEF DeliverDatagram
<1> QED BY <1>1, <1>2, <1>3

\* What a piece of the answer leads to: the announcement, the report, both or neither.
After(verdicts) ==
  (IF TRUE \in verdicts THEN <<Do("emit")>> ELSE <<>>) \o (IF FALSE \in verdicts THEN <<Do("error")>> ELSE <<>>)

\* ... as a sequence of steps.
LEMMA AfterIs ==
  ASSUME NEW verdicts
  PROVE  /\ After(verdicts) \in {<<>>, <<Do("emit")>>, <<Do("error")>>, <<Do("emit"), Do("error")>>}
         /\ After(verdicts) \o <<>> = After(verdicts)
         /\ TRUE \in verdicts => "emit" \in Dos(After(verdicts))
         /\ FALSE \in verdicts => "error" \in Dos(After(verdicts))
         /\ Dos(After(verdicts)) \subseteq {"emit", "error"}
<1>1. CASE TRUE \in verdicts /\ FALSE \in verdicts
  <2>1. After(verdicts) = <<Do("emit"), Do("error")>>
    BY <1>1, Joined DEF After
  <2>2. Dos(After(verdicts)) = {"emit", "error"}
    BY <2>1, DosOf
  <2> QED BY <2>1, <2>2, Joined
<1>2. CASE TRUE \in verdicts /\ FALSE \notin verdicts
  <2>1. After(verdicts) = <<Do("emit")>>
    BY <1>2, Joined DEF After
  <2>2. Dos(After(verdicts)) = {"emit"}
    BY <2>1, DosOf
  <2> QED BY <1>2, <2>1, <2>2, Joined
<1>3. CASE TRUE \notin verdicts /\ FALSE \in verdicts
  <2>1. After(verdicts) = <<Do("error")>>
    BY <1>3, Joined DEF After
  <2>2. Dos(After(verdicts)) = {"error"}
    BY <2>1, DosOf
  <2> QED BY <1>3, <2>1, <2>2, Joined
<1>4. CASE TRUE \notin verdicts /\ FALSE \notin verdicts
  <2>1. After(verdicts) = <<>>
    BY <1>4, Joined DEF After
  <2>2. Dos(After(verdicts)) = {}
    BY <2>1, DosOf
  <2> QED BY <1>4, <2>1, <2>2, Joined
<1> QED BY <1>1, <1>2, <1>3, <1>4

\* The piece is refused, or read with what the buffer held.
Refuses(c) ==
  /\ Goes(c, <<DoWith("receive", Piece(c))>>, <<Do("error")>>)
  /\ hole' = TRUE /\ UNCHANGED context

\* The piece is read.
Takes(c) ==
  LET data == context.buffer \o Piece(c) IN
  /\ Goes(c, <<DoWith("receive", Piece(c))>>, After(Scan(data).verdicts))
  /\ context' = [context EXCEPT !.buffer = SubSeq(data, Scan(data).end + 1, Len(data)),
                                !.accepted = @ \/ TRUE \in Scan(data).verdicts]
  /\ UNCHANGED hole

\* The callback after it took a piece.
LEMMA ReceiveSteps ==
  ASSUME Planned, NEW c \in Attempts, ProcessRequestStream(c)
  PROVE  /\ Refuses(c) \/ Takes(c)
         /\ At(c, "receive")
<1> DEFINE data == context.buffer \o Piece(c)
<1>1. callback[c] = <<DoWith("receive", Piece(c))>> /\ At(c, "receive")
  BY NextOf DEF ProcessRequestStream
<1>2. CASE Then(c, <<Do("error")>>) /\ hole' = TRUE /\ UNCHANGED context
  <2>1. callback' = [callback EXCEPT ![c] = <<Do("error")>> \o <<>>]
    BY <1>1, <1>2, ThenIs
  <2> QED BY <1>1, <1>2, <2>1, Joined DEF Goes, Refuses
<1>3. CASE /\ context' = [context EXCEPT !.buffer = SubSeq(data, Scan(data).end + 1, Len(data)),
                                         !.accepted = @ \/ TRUE \in Scan(data).verdicts]
           /\ Then(c, After(Scan(data).verdicts)) /\ UNCHANGED hole
  <2>1. callback' = [callback EXCEPT ![c] = After(Scan(data).verdicts) \o <<>>]
    BY <1>1, <1>3, ThenIs
  <2>2. callback' = [callback EXCEPT ![c] = After(Scan(data).verdicts)]
    BY <2>1, AfterIs
  <2> QED BY <1>1, <1>3, <2>2 DEF Goes, Takes
<1> QED BY <1>1, <1>2, <1>3 DEF ProcessRequestStream, After

\* What a callback may have to do.
Plan(steps) ==
  \/ steps \in Plans
  \/ \E p : steps = <<DoWith("receive", p)>>
  \/ \E d \in Datagrams : steps = <<DoWith("datagram", d)>>

\* A planned callback, as one plan.
LEMMA CallbackIs ==
  ASSUME NEW c, NEW steps, Callback(c, steps)
  PROVE  Goes(c, <<>>, steps) /\ ~context.closing
BY DEF Callback, Goes

\* Nothing is planned at the beginning.
LEMMA PlannedInit == Init => Planned
BY DEF Init, Planned, Plans

\* The plans that steps lead to.
LEMMA PlansAre ==
  /\ Plan(<<>>) /\ Plan(<<Do("settings"), Do("request")>>) /\ Plan(<<Do("error"), Do("request")>>)
  /\ Plan(<<Do("request")>>) /\ Plan(<<Do("send")>>) /\ Plan(<<Do("error")>>)
  /\ Plan(<<Do("ready"), Do("emit")>>) /\ Plan(<<Do("emit")>>) /\ Plan(<<Do("emit"), Do("error")>>)
  /\ Plan(<<Do("greet"), Do("request")>>) /\ Plan(<<Do("push")>>)
  /\ \A p : Plan(<<DoWith("receive", p)>>)
  /\ \A d \in Datagrams : Plan(<<DoWith("datagram", d)>>)
<1>1. \A p : Plan(<<DoWith("receive", p)>>)
  BY DEF Plan
<1>2. \A d \in Datagrams : Plan(<<DoWith("datagram", d)>>)
  BY DEF Plan
<1> QED BY <1>1, <1>2 DEF Plan, Plans

\* One callback goes on with a plan and the others stay.
LEMMA PlannedGoes ==
  ASSUME Typed, Planned, NEW c \in Attempts, NEW old, NEW new, Goes(c, old, new), Plan(new)
  PROVE  Planned'
<1>1. callback'[c] = new /\ \A d \in Attempts \ {c} : callback'[d] = callback[d]
  BY GoesIs
<1>2. \A d \in Attempts \ {c} : Plan(callback[d])
  BY DEF Planned, Plan
<1>3. \A d \in Attempts : Plan(callback'[d])
  BY <1>1, <1>2
<1> QED BY <1>3 DEF Planned, Plan

\* Every step leaves plans.
LEMMA PlannedNext ==
  ASSUME Typed, Planned, [Next]_vars
  PROVE  Planned'
<1> USE PlansAre
<1>q. ASSUME UNCHANGED callback PROVE Planned'
  BY <1>q DEF Planned
<1>g. \A c \in Attempts : \A old, new : Goes(c, old, new) /\ Plan(new) => Planned'
  BY PlannedGoes
<1>1. CASE UNCHANGED vars
  BY <1>1, <1>q DEF vars
<1>2. CASE Connecting \/ wt_msquic_shutdown
  <2>1. UNCHANGED callback
    BY <1>2 DEF Connecting, wt_client_connect, ConnectRefused, ConnectResets, ConnectNames, ConnectReplaces,
       ConnectOpens, ConnectStarts, wt_msquic_shutdown, handshake
  <2> QED BY <2>1, <1>q
<1>3. ASSUME NEW c \in Attempts, Callbacks(c)
      PROVE  Planned'
  <2>1. CASE ServerAnswers(c)
    BY <2>1, <1>q DEF ServerAnswers, handshake
  <2>2. CASE Connected(c)
    <3>1. Goes(c, <<>>, <<Do("settings"), Do("request")>>)
      BY <2>2, CallbackIs DEF Connected
    <3> QED BY <3>1, <1>g
  <2>3. CASE ConnectionEnds(c)
    <3>1. Goes(c, <<>>, <<Do("push")>>)
      BY <2>3, CallbackIs DEF ConnectionEnds
    <3> QED BY <3>1, <1>g
  <2>4. CASE StreamStarted(c)
    <3>1. Goes(c, <<>>, <<Do("ready"), Do("emit")>>)
      BY <2>4, CallbackIs DEF StreamStarted, StartSteps
    <3> QED BY <3>1, <1>g
  <2>5. CASE Received(c)
    <3>1. PICK p : Callback(c, <<DoWith("receive", p)>>)
      BY <2>5 DEF Received
    <3>2. Goes(c, <<>>, <<DoWith("receive", p)>>)
      BY <3>1, CallbackIs
    <3> QED BY <3>2, <1>g
  <2>6. CASE DatagramReceived(c)
    <3>1. PICK d \in Datagrams : Callback(c, <<DoWith("datagram", d)>>)
      BY <2>6 DEF DatagramReceived
    <3>2. Goes(c, <<>>, <<DoWith("datagram", d)>>)
      BY <3>1, CallbackIs
    <3> QED BY <3>2, <1>g
  <2> QED BY <1>3, <2>1, <2>2, <2>3, <2>4, <2>5, <2>6 DEF Callbacks
<1>4. ASSUME NEW c \in Attempts, Steps(c)
      PROVE  Planned'
  <2>0. CASE OpenControl(c)
    BY <2>0, ControlSteps, <1>g
  <2>1. CASE SendSettings(c)
    BY <2>1, SettingsSteps, <1>g
  <2>2. CASE OpenRequest(c)
    BY <2>2, RequestSteps, <1>g
  <2>3. CASE SendRequest(c)
    BY <2>3, SendSteps, <1>g
  <2>4. CASE MarkReady(c)
    BY <2>4, ReadySteps, <1>g
  <2>5. CASE TryEmit(c)
    BY <2>5, EmitSteps, <1>g
  <2>6. CASE ProcessRequestStream(c)
    <3>1. \A v : Plan(After(v))
      BY AfterIs
    <3>2. \E old, new : Goes(c, old, new) /\ Plan(new)
      BY <2>6, <3>1, ReceiveSteps DEF Refuses, Takes
    <3> QED BY <3>2, <1>g
  <2>7. CASE DeliverDatagram(c)
    BY <2>7, DatagramSteps, <1>g
  <2>8. CASE EmitError(c)
    BY <2>8, ErrorSteps, <1>g
  <2>9. CASE PushEvent(c)
    BY <2>9, PushSteps, <1>g
  <2> QED BY <1>4, <2>0, <2>1, <2>2, <2>3, <2>4, <2>5, <2>6, <2>7, <2>8, <2>9 DEF Steps
<1> QED BY <1>1, <1>2, <1>3, <1>4 DEF Next

\* What a callback that is at a step still has to do.
LEMMA DosAre ==
  /\ Dos(<<>>) = {} /\ Dos(<<Do("error")>>) = {"error"} /\ Dos(<<Do("request")>>) = {"request"}
  /\ Dos(<<Do("send")>>) = {"send"} /\ Dos(<<Do("emit")>>) = {"emit"}
  /\ Dos(<<Do("settings"), Do("request")>>) = {"settings", "request"}
  /\ Dos(<<Do("greet"), Do("request")>>) = {"greet", "request"} /\ Dos(<<Do("push")>>) = {"push"}
  /\ Dos(<<Do("error"), Do("request")>>) = {"error", "request"}
  /\ Dos(<<Do("ready"), Do("emit")>>) = {"ready", "emit"}
  /\ Dos(<<Do("emit"), Do("error")>>) = {"emit", "error"}
  /\ \A p : Dos(<<DoWith("receive", p)>>) = {"receive"} /\ Dos(<<DoWith("datagram", p)>>) = {"datagram"}
<1> HIDE DEF Do, DoWith
<1>1. \A x : Dos(<<Do(x)>>) = {x}
  BY DosOf
<1>2. \A x, y : Dos(<<Do(x), Do(y)>>) = {x, y}
  BY DosOf
<1>3. \A x, p : Dos(<<DoWith(x, p)>>) = {x}
  BY DosOf
<1> QED BY <1>1, <1>2, <1>3, DosOf, Zenon

\* An event of MsQuic begins a callback that had nothing to do.
LEMMA EventMoves ==
  ASSUME Typed, NEW c \in Attempts
  PROVE  /\ Connected(c) => Moves(c, {}, {"settings", "request"})
         /\ ConnectionEnds(c) => Moves(c, {}, {"push"})
         /\ StreamStarted(c) => Moves(c, {}, {"ready", "emit"})
         /\ Received(c) => Moves(c, {}, {"receive"})
         /\ DatagramReceived(c) => Moves(c, {}, {"datagram"})
<1>1. ASSUME NEW new, Callback(c, new)
      PROVE  Moves(c, {}, Dos(new))
  <2>1. Goes(c, <<>>, new)
    BY <1>1, CallbackIs
  <2>2. Moves(c, Dos(<<>>), Dos(new))
    BY <2>1, GoesIs
  <2> QED BY <2>2, DosAre
<1>2. Connected(c) => Moves(c, {}, {"settings", "request"})
  BY <1>1, DosAre DEF Moves, Connected
<1>3. ConnectionEnds(c) => Moves(c, {}, {"push"})
  BY <1>1, DosAre DEF Moves, ConnectionEnds
<1>4. StreamStarted(c) => Moves(c, {}, {"ready", "emit"})
  BY <1>1, DosAre DEF Moves, StreamStarted, StartSteps
<1>5. ASSUME Received(c) PROVE Moves(c, {}, {"receive"})
  <2>1. PICK p : Callback(c, <<DoWith("receive", p)>>)
    BY <1>5 DEF Received
  <2> QED BY <2>1, <1>1, DosAre DEF Moves
<1>6. ASSUME DatagramReceived(c) PROVE Moves(c, {}, {"datagram"})
  <2>1. PICK p : Callback(c, <<DoWith("datagram", p)>>)
    BY <1>6 DEF DatagramReceived
  <2> QED BY <2>1, <1>1, DosAre DEF Moves
<1> QED BY <1>2, <1>3, <1>4, <1>5, <1>6

\* What each step of a callback takes away and what it leaves.
LEMMA StepMoves ==
  ASSUME Typed, Planned, NEW c \in Attempts
  PROVE  /\ OpenControl(c) => \E to \in {{"request"}, {"error", "request"}, {"greet", "request"}} :
                                 Moves(c, {"settings", "request"}, to)
         /\ SendSettings(c) => \E to \in {{"request"}, {"error", "request"}} : Moves(c, {"greet", "request"}, to)
         /\ OpenRequest(c) => \E to \in {{}, {"error"}, {"send"}} : Moves(c, {"request"}, to)
         /\ SendRequest(c) => \E to \in {{}, {"error"}} : Moves(c, {"send"}, to)
         /\ MarkReady(c) => Moves(c, {"ready", "emit"}, {"emit"})
         /\ TryEmit(c) => Moves(c, {"emit"}, {}) \/ Moves(c, {"emit", "error"}, {"error"})
         /\ ProcessRequestStream(c) => \E to \in SUBSET {"emit", "error"} : Moves(c, {"receive"}, to)
         /\ DeliverDatagram(c) => \E to \in {{}, {"error"}} : Moves(c, {"datagram"}, to)
         /\ EmitError(c) => Moves(c, {"error"}, {}) \/ Moves(c, {"error", "request"}, {"request"})
         /\ PushEvent(c) => Moves(c, {"push"}, {})
<1>1. \A old, new : Goes(c, old, new) => Moves(c, Dos(old), Dos(new))
  BY GoesIs
<1>0. OpenControl(c) => \E to \in {{"request"}, {"error", "request"}, {"greet", "request"}} :
                           Moves(c, {"settings", "request"}, to)
  BY <1>1, ControlSteps, DosAre DEF Moves
<1>2. SendSettings(c) => \E to \in {{"request"}, {"error", "request"}} : Moves(c, {"greet", "request"}, to)
  BY <1>1, SettingsSteps, DosAre DEF Moves
<1>3. OpenRequest(c) => \E to \in {{}, {"error"}, {"send"}} : Moves(c, {"request"}, to)
  BY <1>1, RequestSteps, DosAre DEF Moves
<1>4. SendRequest(c) => \E to \in {{}, {"error"}} : Moves(c, {"send"}, to)
  BY <1>1, SendSteps, DosAre DEF Moves
<1>5. MarkReady(c) => Moves(c, {"ready", "emit"}, {"emit"})
  BY <1>1, ReadySteps, DosAre DEF Moves
<1>6. TryEmit(c) => Moves(c, {"emit"}, {}) \/ Moves(c, {"emit", "error"}, {"error"})
  BY <1>1, EmitSteps, DosAre DEF Moves
<1>7. ProcessRequestStream(c) => \E to \in SUBSET {"emit", "error"} : Moves(c, {"receive"}, to)
  <2>1. \A v : Dos(After(v)) \in SUBSET {"emit", "error"}
    BY AfterIs
  <2>2. Dos(<<Do("error")>>) \in SUBSET {"emit", "error"} /\ Dos(<<DoWith("receive", Piece(c))>>) = {"receive"}
    BY DosAre
  <2>3. ASSUME ProcessRequestStream(c)
        PROVE  \E new : /\ Goes(c, <<DoWith("receive", Piece(c))>>, new)
                        /\ Dos(new) \in SUBSET {"emit", "error"}
    BY <2>1, <2>2, <2>3, ReceiveSteps DEF Refuses, Takes
  <2> QED BY <1>1, <2>2, <2>3
<1>8. DeliverDatagram(c) => \E to \in {{}, {"error"}} : Moves(c, {"datagram"}, to)
  <2>1. Dos(<<DoWith("datagram", Piece(c))>>) = {"datagram"}
    BY DosAre
  <2>2. ASSUME NEW new \in {<<>>, <<Do("error")>>}, Goes(c, <<DoWith("datagram", Piece(c))>>, new)
        PROVE  \E to \in {{}, {"error"}} : Moves(c, {"datagram"}, to)
    BY <1>1, <2>1, <2>2, DosAre DEF Moves
  <2> QED BY <2>2, DatagramSteps
<1>9. EmitError(c) => Moves(c, {"error"}, {}) \/ Moves(c, {"error", "request"}, {"request"})
  BY <1>1, ErrorSteps, DosAre DEF Moves
<1>10. PushEvent(c) => Moves(c, {"push"}, {})
  BY <1>1, PushSteps, DosAre DEF Moves
<1> QED BY <1>0, <1>10, <1>2, <1>3, <1>4, <1>5, <1>6, <1>7, <1>8, <1>9

-----------------------------------------------------------------------------
(* Connections *)

\* A connection that MsQuic may call back for.
Alive == {"starting", "up"}

\* Callbacks run for connections that are up, or have just ended.
Lives ==
  \A c \in Attempts :
    /\ Dos(callback[c]) # {} => link[c] \in {"up", "ending", "over"}
    /\ Dos(callback[c]) \ {"push"} # {} => link[c] = "up"

\* The context never knows of a connect to come.
Numbered ==
  /\ context.session = attempt /\ context.connection <= attempt /\ context.request <= attempt
  /\ caller.pc # "idle" => attempt # 0 /\ link[attempt] = "none"
  /\ caller.pc \in {"reset", "name", "close", "open"} => context.connection < attempt /\ context.request < attempt
  /\ caller.replaced # 0 => caller.replaced < attempt
  /\ \A c \in Attempts : c > attempt => link[c] = "none" /\ connected[c] = 0

\* One connection moves on, and its life goes on.
LEMMA LivesMoves ==
  ASSUME Lives, NEW c \in Attempts, NEW from, NEW to, Moves(c, from, to), UNCHANGED link,
         to \ {"push"} # {} => from \ {"push"} # {}, to # {} => from # {}
  PROVE  Lives'
BY DEF Lives, Moves

\* A callback never outlives its connection, but for the report of its end.
LEMMA LivesNext ==
  ASSUME Typed, Planned, Numbered, Lives, [Next]_vars
  PROVE  Lives'
<1>n. \A n : callback[n] = <<>> => Dos(callback[n]) = {}
  BY DosOf
<1>a. attempt \in Nat
  BY Constants DEF Typed, attempt
<1>1. CASE UNCHANGED <<callback, link>>
  BY <1>1 DEF Lives
<1>2. CASE ConnectReplaces
  <2>1. Dos(callback[caller.replaced]) = {} /\ UNCHANGED callback
    BY <1>2, <1>n DEF ConnectReplaces, handshake
  <2>2. \A d \in Attempts : d # caller.replaced => link'[d] = link[d]
    BY <1>2 DEF ConnectReplaces, Typed
  <2> QED BY <2>1, <2>2 DEF Lives
<1>3. CASE ConnectStarts
  <2>1. link[attempt] = "none" /\ UNCHANGED callback
    BY <1>3 DEF ConnectStarts, Numbered
  <2>2. \A d \in Attempts : d # attempt => link'[d] = link[d]
    BY <1>3 DEF ConnectStarts, Typed
  <2>3. \A d \in Attempts : d = attempt => Dos(callback[d]) = {}
    BY <2>1 DEF Lives
  <2> QED BY <2>1, <2>2, <2>3 DEF Lives
<1>4. ASSUME NEW c \in Attempts, Callbacks(c)
      PROVE  Lives'
  <2>1. CASE ServerAnswers(c)
    BY <2>1, <1>1 DEF ServerAnswers, handshake
  <2>2. CASE Connected(c)
    <3>1. Moves(c, {}, {"settings", "request"}) /\ link'[c] = "up" /\ \A d \in Attempts : d # c => link'[d] = link[d]
      BY <2>2, EventMoves DEF Connected, Typed
    <3> QED BY <3>1 DEF Lives, Moves
  <2>3. CASE ConnectionEnds(c)
    <3>1. Moves(c, {}, {"push"}) /\ link'[c] \in {"ending", "over"} /\ \A d \in Attempts : d # c => link'[d] = link[d]
      BY <2>3, EventMoves DEF ConnectionEnds, Typed
    <3> QED BY <3>1 DEF Lives, Moves
  <2>4. CASE StreamStarted(c) \/ Received(c) \/ DatagramReceived(c)
    <3>1. /\ \E to \in {{"ready", "emit"}, {"receive"}, {"datagram"}} : Moves(c, {}, to)
          /\ link[c] = "up" /\ UNCHANGED link
      BY <2>4, EventMoves DEF StreamStarted, Received, DatagramReceived
    <3> QED BY <3>1 DEF Lives, Moves
  <2> QED BY <1>4, <2>1, <2>2, <2>3, <2>4 DEF Callbacks
<1>5. ASSUME NEW c \in Attempts, Steps(c)
      PROVE  Lives'
  <2>1. UNCHANGED link
    BY <1>5 DEF Steps, OpenControl, SendSettings, OpenRequest, SendRequest, MarkReady, TryEmit,
       ProcessRequestStream, DeliverDatagram, EmitError, PushEvent, peer
  <2>2. \E from, to : /\ Moves(c, from, to)
                      /\ to \ {"push"} # {} => from \ {"push"} # {}
                      /\ to # {} => from # {}
    <3>0. CASE OpenControl(c)
      BY <3>0, StepMoves
    <3>1. CASE SendSettings(c)
      BY <3>1, StepMoves
    <3>2. CASE OpenRequest(c)
      BY <3>2, StepMoves
    <3>3. CASE SendRequest(c)
      BY <3>3, StepMoves
    <3>4. CASE MarkReady(c)
      BY <3>4, StepMoves
    <3>5. CASE TryEmit(c)
      BY <3>5, StepMoves
    <3>6. CASE ProcessRequestStream(c)
      BY <3>6, StepMoves
    <3>7. CASE DeliverDatagram(c)
      BY <3>7, StepMoves
    <3>8. CASE EmitError(c)
      BY <3>8, StepMoves
    <3>9. CASE PushEvent(c)
      BY <3>9, StepMoves
    <3> QED BY <1>5, <3>0, <3>9, <3>1, <3>2, <3>3, <3>4, <3>5, <3>6, <3>7, <3>8 DEF Steps
  <2> QED BY <2>1, <2>2, LivesMoves
<1>6. CASE wt_client_connect \/ ConnectRefused \/ ConnectResets \/ ConnectNames \/ ConnectOpens \/ wt_msquic_shutdown
  <2>1. UNCHANGED <<callback, link>>
    BY <1>6 DEF wt_client_connect, ConnectRefused, ConnectResets, ConnectNames, ConnectOpens,
       wt_msquic_shutdown, handshake, peer
  <2> QED BY <2>1, <1>1
<1>7. CASE UNCHANGED vars
  BY <1>7, <1>1 DEF vars, peer
<1> QED BY <1>2, <1>3, <1>4, <1>5, <1>6, <1>7 DEF Next, Connecting

\* The fields that only a step of the connect changes.
Steady ==
  /\ UNCHANGED caller
  /\ context'.session = context.session /\ context'.connection = context.connection

\* No callback changes them.
LEMMA SteadySteps ==
  ASSUME Typed
  PROVE  \A c \in Attempts : Callbacks(c) \/ Steps(c) => Steady
<1>0. context \in Context
  BY DEF Typed
<1> SUFFICES ASSUME NEW c \in Attempts, Callbacks(c) \/ Steps(c) PROVE Steady
  OBVIOUS
<1>1. CASE Callbacks(c)
  BY <1>1 DEF Callbacks, Connected, ConnectionEnds, StreamStarted, ServerAnswers, Received, DatagramReceived,
     Steady, handshake
<1>2. CASE OpenControl(c)
  BY <1>0, <1>2 DEF OpenControl, Steady, Context
<1>3. CASE OpenRequest(c)
  BY <1>0, <1>3 DEF OpenRequest, Steady, Context
<1>4. CASE MarkReady(c)
  BY <1>0, <1>4 DEF MarkReady, Steady, Context
<1>5. CASE TryEmit(c)
  BY <1>0, <1>5 DEF TryEmit, Steady, Context
<1>6. CASE ProcessRequestStream(c)
  BY <1>0, <1>6 DEF ProcessRequestStream, Steady, Context
<1>7. CASE SendSettings(c) \/ SendRequest(c) \/ DeliverDatagram(c) \/ EmitError(c) \/ PushEvent(c)
  BY <1>7 DEF SendSettings, SendRequest, DeliverDatagram, EmitError, PushEvent, Steady
<1> QED BY <1>1, <1>2, <1>3, <1>4, <1>5, <1>6, <1>7 DEF Steps

\* No connect was made at the beginning.
LEMMA NumberedInit == Init => Numbered /\ Lives
<1> SUFFICES ASSUME Init PROVE Numbered /\ Lives
  OBVIOUS
<1>1. context.session = 0 /\ context.connection = 0 /\ context.request = 0 /\ attempt = 0
      /\ caller.pc = "idle" /\ caller.replaced = 0
  BY DEF Init, NoContext, attempt
<1>2. \A c \in Attempts : link[c] = "none" /\ connected[c] = 0 /\ callback[c] = <<>>
  BY DEF Init
<1> QED BY <1>1, <1>2, DosAre DEF Numbered, Lives

\* The numbers stay in order through every connect.
LEMMA NumberedNext ==
  ASSUME Typed, Planned, Numbered, Lives, [Next]_vars
  PROVE  Numbered'
<1>a. /\ attempt \in Nat /\ attempt = caller.attempt /\ context \in Context /\ attempt' = caller'.attempt
      /\ context.connection \in Nat /\ context.request \in Nat
      /\ caller \in [pc : {"idle", "reset", "name", "close", "open", "start"}, attempt : Numbers, replaced : Numbers]
      /\ Numbers \subseteq Nat /\ caller.replaced \in Nat
  BY Constants DEF Typed, attempt, Context
<1>n. Attempts \subseteq Nat
  BY Constants
<1>1. CASE wt_client_connect
  <2>1. attempt' = attempt + 1 /\ caller'.pc = "reset" /\ caller'.replaced = 0 /\ attempt < Len(Urls)
    BY <1>1, <1>a DEF wt_client_connect
  <2>2. context'.session = attempt + 1 /\ context'.connection = context.connection /\ context'.request = context.request
    BY <1>1, <1>a DEF wt_client_connect, Context
  <2>3. attempt + 1 \in Attempts
    BY <2>1, <1>a, Constants DEF Attempts
  <2>4. link' = link /\ connected' = connected
    BY <1>1 DEF wt_client_connect, peer
  <2>5. link[attempt + 1] = "none"
    BY <2>3, <1>a DEF Numbered
  <2>6. context.connection <= attempt /\ context.request <= attempt
    BY DEF Numbered
  <2>7. \A c \in Attempts : c > attempt + 1 => c > attempt
    BY <1>a, <1>n
  <2> QED BY <1>a, <2>1, <2>2, <2>4, <2>5, <2>6, <2>7 DEF Numbered
<1>2. CASE ConnectRefused
  <2>1. attempt' = attempt /\ caller'.pc = "idle" /\ caller'.replaced = caller.replaced
        /\ context' = context /\ link' = link /\ connected' = connected
    BY <1>2, <1>a DEF ConnectRefused, Goto, handshake, peer, history
  <2> QED BY <2>1 DEF Numbered
<1>3. CASE ConnectResets
  <2>1. caller.pc = "reset" /\ attempt' = attempt /\ link' = link /\ connected' = connected
        /\ caller'.pc \in {"idle", "name"} /\ caller'.replaced \in {caller.replaced, context.connection}
    BY <1>3, <1>a DEF ConnectResets, Goto, peer, history
  <2>2. /\ Cleared.session = context.session /\ Cleared.connection = context.connection
        /\ Cleared.request = context.request /\ Cleared \in Context
    <3>1. <<>> \in Seq(Bytes)
      OBVIOUS
    <3>2. Cleared \in Context
      BY <1>a, <3>1, Constants DEF Cleared, Context, Typed
    <3> QED BY <1>a, <3>2 DEF Cleared, Context
  <2>3. context'.session = context.session /\ context'.connection \in {0, context.connection}
        /\ context'.request = context.request
    BY <1>3, <2>2 DEF ConnectResets, Context
  <2>4. context.connection < attempt /\ context.request < attempt
    BY <2>1 DEF Numbered
  <2> QED BY <1>a, <2>1, <2>3, <2>4 DEF Numbered
<1>4. CASE ConnectNames
  <2>1. caller.pc = "name" /\ attempt' = attempt /\ link' = link /\ connected' = connected
        /\ caller'.pc \in {"open", "close"} /\ caller'.replaced = caller.replaced
    BY <1>4, <1>a DEF ConnectNames, Goto, peer, history
  <2>2. context'.session = context.session /\ context'.connection = context.connection /\ context'.request = context.request
    BY <1>4, <1>a DEF ConnectNames, Context
  <2> QED BY <2>1, <2>2 DEF Numbered
<1>5. CASE ConnectReplaces
  <2>1. caller.pc = "close" /\ attempt' = attempt /\ connected' = connected /\ context' = context
        /\ caller'.pc = "open" /\ caller'.replaced = caller.replaced
    BY <1>5, <1>a DEF ConnectReplaces, Goto, handshake, history
  <2>2. caller.replaced < attempt
    BY <2>1 DEF Numbered, Typed
  <2>3. \A c \in Attempts : c >= attempt => link'[c] = link[c]
    <3>1. \A c \in Attempts : c # caller.replaced => link'[c] = link[c]
      BY <1>5 DEF ConnectReplaces, Typed
    <3>2. ~(caller.replaced >= attempt)
      BY <1>a, <2>2
    <3> QED BY <3>1, <3>2
  <2>4. \A c \in Attempts : c > attempt => c >= attempt
    BY <1>a, <1>n
  <2>5. attempt >= attempt /\ attempt \in Attempts
    BY <1>a, <2>1, Constants DEF Numbered
  <2> QED BY <2>1, <2>2, <2>3, <2>4, <2>5 DEF Numbered
<1>6. CASE ConnectOpens
  <2>1. caller.pc = "open" /\ attempt' = attempt /\ link' = link /\ connected' = connected
        /\ caller'.replaced = caller.replaced
    BY <1>6, <1>a DEF ConnectOpens, Goto, peer, history
  <2>2. context'.session = context.session /\ context'.request = context.request
    BY <1>6, <1>a DEF ConnectOpens, Context
  <2>3. \/ caller'.pc = "idle" /\ context'.connection = context.connection
        \/ caller'.pc = "start" /\ context'.connection = attempt
    BY <1>6, <1>a DEF ConnectOpens, Goto, Context
  <2>4. attempt <= attempt
    BY <1>a
  <2> QED BY <1>a, <2>1, <2>2, <2>3, <2>4 DEF Numbered
<1>7. CASE ConnectStarts
  <2>1. attempt' = attempt /\ connected' = connected /\ caller'.pc = "idle" /\ caller'.replaced = caller.replaced
    BY <1>7, <1>a DEF ConnectStarts, Goto, history
  <2>2. /\ context'.session = context.session /\ context'.request = context.request
        /\ context'.connection \in {0, context.connection}
    BY <1>7, <1>a DEF ConnectStarts, Context
  <2>3. \A c \in Attempts : c # attempt => link'[c] = link[c]
    BY <1>7 DEF ConnectStarts, Typed
  <2>4. \A c \in Attempts : c > attempt => c # attempt
    BY <1>a, <1>n
  <2> QED BY <1>a, <2>1, <2>2, <2>3, <2>4 DEF Numbered
<1>8. CASE wt_msquic_shutdown
  <2>1. /\ caller' = caller /\ link' = link /\ connected' = connected
        /\ context'.session = context.session /\ context'.connection = context.connection
        /\ context'.request = context.request
    BY <1>8, <1>a DEF wt_msquic_shutdown, peer, history, Context
  <2> QED BY <1>a, <2>1 DEF Numbered
<1>9. CASE UNCHANGED vars
  BY <1>9, <1>a DEF vars, peer, history, Numbered
<1>10. ASSUME NEW c \in Attempts, Callbacks(c)
       PROVE  Numbered'
  <2>1. caller' = caller /\ context' = context /\ connected' = connected
    BY <1>10 DEF Callbacks, Connected, ConnectionEnds, StreamStarted, ServerAnswers, Received, DatagramReceived,
       handshake, history
  <2>2. \A d \in Attempts : link[d] = "none" => link'[d] = "none"
    BY <1>10 DEF Callbacks, Connected, ConnectionEnds, StreamStarted, ServerAnswers, Received, DatagramReceived, Typed
  <2>3. attempt # 0 => attempt \in Attempts
    BY Constants DEF Typed, attempt
  <2> QED BY <1>a, <2>1, <2>2, <2>3 DEF Numbered
<1>11. ASSUME NEW c \in Attempts, Steps(c)
       PROVE  Numbered'
  <2>1. caller' = caller /\ context'.session = context.session /\ context'.connection = context.connection
    BY <1>11, SteadySteps DEF Steady
  <2>2. link' = link
    BY <1>11 DEF Steps, OpenControl, SendSettings, OpenRequest, SendRequest, MarkReady, TryEmit,
       ProcessRequestStream, DeliverDatagram, EmitError, PushEvent, peer
  <2>3. context'.request \in {context.request, context.connection}
    <3>1. CASE OpenRequest(c)
      BY <1>a, <3>1 DEF OpenRequest, Context
    <3>2. CASE OpenControl(c)
      BY <1>a, <3>2 DEF OpenControl, Context
    <3>3. CASE SendSettings(c) \/ SendRequest(c) \/ DeliverDatagram(c) \/ EmitError(c) \/ PushEvent(c)
      BY <3>3 DEF SendSettings, SendRequest, DeliverDatagram, EmitError, PushEvent
    <3>4. CASE MarkReady(c)
      BY <1>a, <3>4 DEF MarkReady, Context
    <3>5. CASE TryEmit(c)
      BY <1>a, <3>5 DEF TryEmit, Context
    <3>6. CASE ProcessRequestStream(c)
      BY <1>a, <3>6 DEF ProcessRequestStream, Context
    <3> QED BY <1>11, <3>1, <3>2, <3>3, <3>4, <3>5, <3>6 DEF Steps
  <2>4. \A d \in Attempts : d > attempt => connected'[d] = connected[d]
    <3>1. CASE TryEmit(c)
      <4>1. \A d \in Attempts : d # context.session => connected'[d] = connected[d]
        BY <3>1 DEF TryEmit, Typed
      <4>2. \A d \in Attempts : d > attempt => d # context.session
        BY <1>a, <1>n DEF Numbered
      <4> QED BY <4>1, <4>2
    <3>2. CASE ~TryEmit(c)
      BY <1>11, <3>2 DEF Steps, OpenControl, SendSettings, OpenRequest, SendRequest, MarkReady,
         ProcessRequestStream, DeliverDatagram, EmitError, PushEvent, history
    <3> QED BY <3>1, <3>2
  <2> QED BY <1>a, <2>1, <2>2, <2>3, <2>4 DEF Numbered
<1> QED BY <1>1, <1>2, <1>3, <1>4, <1>5, <1>6, <1>7, <1>8, <1>9, <1>10, <1>11 DEF Next, Connecting

-----------------------------------------------------------------------------
(* The request stream *)

\* A piece of the answer is in the callback: the last that was handed over.
OnItsWay(c) ==
  \E p \in Seq(Bytes) :
    /\ callback[c] = <<DoWith("receive", p)>> /\ Len(p) \in 1..arrived[c]
    /\ p = SubSeq(FlattenSeq(answer[c]), arrived[c] - Len(p) + 1, arrived[c])

\* What holds of the request stream of one connection.
Stream(c) ==
  /\ "emit" \in Dos(callback[c]) => context.request = c
  /\ "ready" \in Dos(callback[c]) => c \in started
  /\ arrived[c] <= Len(FlattenSeq(answer[c]))
  /\ arrived[c] # 0 => context.request = c
  /\ "receive" \in Dos(callback[c]) => context.request = c /\ ~hole /\ OnItsWay(c)

\* ... and of each.
Streams == \A c \in Attempts : Stream(c)

\* A context without a request stream has read nothing.
Unused == context.request = 0 => ~context.accepted /\ context.buffer = <<>> /\ ~hole

\* The request stream of the context is opened once.
Kept == context'.request = context.request \/ context.request = 0

\* Only a context without one takes a request stream.
LEMMA KeptSteps ==
  ASSUME Typed, [Next]_vars
  PROVE  Kept
<1>0. context \in Context /\ 0 \in Numbers /\ caller.attempt \in Numbers
  BY Constants DEF Typed
<1>1. CASE UNCHANGED vars
  BY <1>1 DEF vars, Kept
<1>2. CASE ConnectResets
  <2>1. Cleared.request = context.request /\ Cleared \in Context
    <3>1. <<>> \in Seq(Bytes)
      OBVIOUS
    <3>2. Cleared \in Context
      BY <1>0, <3>1 DEF Cleared, Context, attempt
    <3> QED BY <1>0, <3>2 DEF Cleared, Context
  <2> QED BY <1>2, <2>1 DEF ConnectResets, Kept, Context
<1>3. CASE wt_client_connect \/ ConnectRefused \/ ConnectNames \/ ConnectReplaces \/ ConnectOpens \/ ConnectStarts
           \/ wt_msquic_shutdown
  BY <1>0, <1>3 DEF wt_client_connect, ConnectRefused, ConnectNames, ConnectReplaces, ConnectOpens, ConnectStarts,
     wt_msquic_shutdown, handshake, Kept, Context
<1>4. ASSUME NEW c \in Attempts, Callbacks(c)
      PROVE  Kept
  BY <1>4 DEF Callbacks, Connected, ConnectionEnds, StreamStarted, ServerAnswers, Received, DatagramReceived,
     Kept, handshake
<1>5. ASSUME NEW c \in Attempts, Steps(c)
      PROVE  Kept
  <2>1. CASE OpenRequest(c)
    BY <2>1 DEF OpenRequest, Kept
  <2>2. CASE OpenControl(c)
    BY <1>0, <2>2 DEF OpenControl, Kept, Context
  <2>3. CASE MarkReady(c)
    BY <1>0, <2>3 DEF MarkReady, Kept, Context
  <2>4. CASE TryEmit(c)
    BY <1>0, <2>4 DEF TryEmit, Kept, Context
  <2>5. CASE ProcessRequestStream(c)
    BY <1>0, <2>5 DEF ProcessRequestStream, Kept, Context
  <2>6. CASE SendSettings(c) \/ SendRequest(c) \/ DeliverDatagram(c) \/ EmitError(c) \/ PushEvent(c)
    BY <2>6 DEF SendSettings, SendRequest, DeliverDatagram, EmitError, PushEvent, Kept
  <2> QED BY <1>5, <2>1, <2>2, <2>3, <2>4, <2>5, <2>6 DEF Steps
<1> QED BY <1>1, <1>2, <1>3, <1>4, <1>5 DEF Next, Connecting

\* Another connection's step.
LEMMA StreamKeeps ==
  ASSUME Typed, Kept, NEW d \in Attempts, Stream(d), callback'[d] = callback[d], arrived'[d] = arrived[d],
         answer'[d] = answer[d], started \subseteq started', hole' = hole \/ context.request # d
  PROVE  Stream(d)'
<1>1. d # 0
  BY DEF Attempts
<1>2. OnItsWay(d) => OnItsWay(d)'
  BY DEF OnItsWay
<1>3. context.request = d => context'.request = d
  BY <1>1 DEF Kept
<1> QED BY <1>2, <1>3 DEF Stream

\* A step of its own that hands over nothing.
LEMMA StreamMoves ==
  ASSUME Typed, Kept, NEW c \in Attempts, Stream(c), NEW from, NEW to, Moves(c, from, to),
         arrived'[c] = arrived[c], answer'[c] = answer[c], "receive" \notin to,
         "emit" \in to => context'.request = c, "ready" \in to => c \in started'
  PROVE  Stream(c)'
<1>1. c # 0
  BY DEF Attempts
<1>2. context.request = c => context'.request = c
  BY <1>1 DEF Kept
<1>3. Dos(callback'[c]) = to
  BY DEF Moves
<1> QED BY <1>2, <1>3 DEF Stream

\* No stream and no answer at the beginning.
LEMMA StreamsInit == Init => Streams /\ Unused
<1> SUFFICES ASSUME Init PROVE Streams /\ Unused
  OBVIOUS
<1>1. \A c \in Attempts : callback[c] = <<>> /\ arrived[c] = 0 /\ answer[c] = <<>>
  BY DEF Init
<1>2. <<>> \in Frames
  BY Constants
<1>3. Len(FlattenSeq(<<>>)) \in Nat
  BY <1>2, EndSteps DEF Frames
<1>4. Streams
  BY <1>1, <1>3, DosAre DEF Streams, Stream
<1> QED BY <1>4 DEF Init, NoContext, Unused

\* Before there is an answer nothing of it arrived.
LEMMA NothingYet ==
  ASSUME Typed, NEW c \in Attempts, Stream(c), answer[c] = <<>>
  PROVE  arrived[c] = 0 /\ "receive" \notin Dos(callback[c])
<1>1. <<>> \in Seq(Seq(Bytes)) /\ Len(<<>>) = 0
  OBVIOUS
<1>2. Len(FlattenSeq(<<>>)) = 0
  BY <1>1, EndSteps
<1>3. arrived[c] \in Nat /\ arrived[c] <= 0
  BY <1>2 DEF Typed, Stream
<1>4. arrived[c] = 0
  BY <1>3
<1>5. ~OnItsWay(c)
  <2>1. \A p \in Seq(Bytes) : Len(p) \notin 1..0
    OBVIOUS
  <2> QED BY <1>4, <2>1 DEF OnItsWay
<1> QED BY <1>4, <1>5 DEF Stream

\* What only the callbacks of the other connections did not do.
Apart(c) ==
  \A d \in Attempts \ {c} :
    callback'[d] = callback[d] /\ arrived'[d] = arrived[d] /\ answer'[d] = answer[d]

\* A callback of one connection leaves the others alone.
LEMMA ApartSteps ==
  ASSUME Typed, Planned, NEW c \in Attempts
  PROVE  /\ Callbacks(c) \/ Steps(c) => Apart(c) /\ started \subseteq started'
         /\ Steps(c) => UNCHANGED <<arrived, answer>>
         /\ Callbacks(c) => UNCHANGED hole
         /\ Steps(c) => hole' = hole \/ (ProcessRequestStream(c) /\ Refuses(c))
<1>0. /\ arrived \in [Attempts -> Nat] /\ answer \in [Attempts -> Answers \union {<<>>}]
  BY DEF Typed
<1>m. \A from, to : Moves(c, from, to) => \A d \in Attempts \ {c} : callback'[d] = callback[d]
  BY DEF Moves
<1>1. ASSUME Callbacks(c)
      PROVE  Apart(c) /\ started \subseteq started' /\ UNCHANGED hole
  <2>1. CASE ServerAnswers(c)
    <3>1. PICK a : answer' = [answer EXCEPT ![c] = a]
      BY <2>1 DEF ServerAnswers
    <3> QED BY <1>0, <2>1, <3>1 DEF ServerAnswers, handshake, history, Apart
  <2>2. CASE Connected(c)
    BY <1>m, <2>2, EventMoves DEF Connected, history, Apart
  <2>3. CASE ConnectionEnds(c)
    BY <1>m, <2>3, EventMoves DEF ConnectionEnds, history, Apart
  <2>4. CASE StreamStarted(c)
    BY <1>m, <2>4, EventMoves DEF StreamStarted, history, Apart
  <2>5. CASE Received(c)
    <3>1. PICK n : arrived' = [arrived EXCEPT ![c] = n]
      BY <2>5 DEF Received
    <3> QED BY <1>0, <1>m, <2>5, <3>1, EventMoves DEF Received, history, Apart
  <2>6. CASE DatagramReceived(c)
    BY <1>m, <2>6, EventMoves DEF DatagramReceived, history, Apart
  <2> QED BY <1>1, <2>1, <2>2, <2>3, <2>4, <2>5, <2>6 DEF Callbacks
<1>2. ASSUME Steps(c)
      PROVE  /\ Apart(c) /\ started \subseteq started' /\ UNCHANGED <<arrived, answer>>
             /\ hole' = hole \/ (ProcessRequestStream(c) /\ Refuses(c))
  <2>1. UNCHANGED <<arrived, answer, started>>
    BY <1>2 DEF Steps, OpenControl, SendSettings, OpenRequest, SendRequest, MarkReady, TryEmit,
       ProcessRequestStream, DeliverDatagram, EmitError, PushEvent, peer
  <2>2. \A d \in Attempts \ {c} : callback'[d] = callback[d]
    BY <1>2, <1>m, StepMoves DEF Steps
  <2>3. hole' = hole \/ (ProcessRequestStream(c) /\ Refuses(c))
    <3>1. CASE ProcessRequestStream(c)
      BY <3>1, ReceiveSteps DEF Takes
    <3>2. CASE ~ProcessRequestStream(c)
      BY <1>2, <3>2 DEF Steps, OpenControl, SendSettings, OpenRequest, SendRequest, MarkReady, TryEmit,
         DeliverDatagram, EmitError, PushEvent, history
    <3> QED BY <3>1, <3>2
  <2> QED BY <2>1, <2>2, <2>3 DEF Apart
<1> QED BY <1>1, <1>2

\* The steps that leave the streams alone.
Idle == UNCHANGED <<callback, arrived, answer, started, hole>>

\* The connect and a shutdown are such steps.
LEMMA IdleSteps ==
  ASSUME Connecting \/ wt_msquic_shutdown \/ UNCHANGED vars
  PROVE  Idle
<1>1. CASE UNCHANGED vars
  BY <1>1 DEF vars, peer, history, Idle
<1>2. CASE Connecting \/ wt_msquic_shutdown
  BY <1>2 DEF Connecting, wt_client_connect, ConnectRefused, ConnectResets, ConnectNames, ConnectReplaces,
     ConnectOpens, ConnectStarts, wt_msquic_shutdown, handshake, peer, history, Idle
<1> QED BY <1>1, <1>2

\* Every step keeps the streams.
LEMMA StreamsNext ==
  ASSUME Typed, Planned, Streams, [Next]_vars
  PROVE  Streams'
<1>k. Kept
  BY KeptSteps
<1>1. CASE Connecting \/ wt_msquic_shutdown \/ UNCHANGED vars
  <2>1. Idle
    BY <1>1, IdleSteps
  <2>2. \A d \in Attempts : Stream(d)'
    BY <1>k, <2>1, StreamKeeps DEF Idle, Streams
  <2> QED BY <2>2 DEF Streams
<1>2. ASSUME NEW c \in Attempts, Callbacks(c) \/ Steps(c), Stream(c)'
      PROVE  Streams'
  <2>1. Apart(c) /\ started \subseteq started'
    BY <1>2, ApartSteps
  <2>2. hole' = hole \/ (ProcessRequestStream(c) /\ Refuses(c))
    BY <1>2, ApartSteps
  <2>3. hole' = hole \/ context.request = c
    <3>1. ASSUME ProcessRequestStream(c) PROVE context.request = c
      <4>1. "receive" \in Dos(callback[c])
        BY <3>1, StepMoves DEF Moves
      <4> QED BY <4>1 DEF Streams, Stream
    <3> QED BY <2>2, <3>1
  <2>4. \A d \in Attempts \ {c} : Stream(d)'
    BY <1>k, <2>1, <2>3, StreamKeeps DEF Streams, Apart
  <2> QED BY <1>2, <2>4 DEF Streams
<1>3. ASSUME NEW c \in Attempts, Callbacks(c)
      PROVE  Streams'
  <2>0. Stream(c)
    BY DEF Streams
  <2>1. CASE ServerAnswers(c)
    <3>1. answer[c] = <<>> /\ UNCHANGED <<callback, context, started, arrived, hole>>
      BY <2>1 DEF ServerAnswers, handshake, history
    <3>2. arrived[c] = 0 /\ "receive" \notin Dos(callback[c])
      BY <2>0, <3>1, NothingYet
    <3>3. Typed'
      BY TypedNext
    <3>4. answer'[c] \in Frames
      BY <3>3, Constants DEF Typed
    <3>5. Len(FlattenSeq(answer'[c])) \in Nat
      BY <3>4, EndSteps DEF Frames
    <3>6. Stream(c)'
      BY <2>0, <3>1, <3>2, <3>5 DEF Stream
    <3> QED BY <1>3, <3>6, <1>2
  <2>2. CASE Connected(c) \/ ConnectionEnds(c) \/ StreamStarted(c) \/ DatagramReceived(c)
    <3>1. UNCHANGED <<arrived, answer>>
      BY <2>2 DEF Connected, ConnectionEnds, StreamStarted, DatagramReceived
    <3>2. ASSUME NEW from, NEW to, Moves(c, from, to), "receive" \notin to,
                 "emit" \in to => context'.request = c, "ready" \in to => c \in started'
          PROVE  Stream(c)'
      BY <1>k, <2>0, <3>1, <3>2, StreamMoves
    <3>3. Stream(c)'
      <4>1. CASE StreamStarted(c)
        <5>1. context'.request = c /\ c \in started'
          BY <4>1 DEF StreamStarted
        <5> QED BY <3>2, <4>1, <5>1, EventMoves
      <4>2. CASE Connected(c)
        BY <3>2, <4>2, EventMoves
      <4>3. CASE ConnectionEnds(c)
        BY <3>2, <4>3, EventMoves
      <4>4. CASE DatagramReceived(c)
        BY <3>2, <4>4, EventMoves
      <4> QED BY <2>2, <4>1, <4>2, <4>3, <4>4
    <3> QED BY <1>3, <3>3, <1>2
  <2>3. CASE Received(c)
    <3> DEFINE A == FlattenSeq(answer[c])
    <3>1. A \in Seq(Bytes) /\ Len(A) \in Nat /\ arrived[c] \in Nat
      BY AnswerBytes DEF Typed
    <3>2. PICK end \in (arrived[c] + 1)..Len(A) :
            /\ Callback(c, <<DoWith("receive", SubSeq(A, arrived[c] + 1, end))>>)
            /\ arrived' = [arrived EXCEPT ![c] = end]
      BY <2>3 DEF Received
    <3> DEFINE p == SubSeq(A, arrived[c] + 1, end)
    <3>3. end \in Nat /\ arrived[c] <= end /\ end <= Len(A) /\ arrived[c] < end
      BY <3>1, <3>2
    <3>4. p \in Seq(Bytes) /\ Len(p) = end - arrived[c]
      <4> HIDE DEF A
      <4> QED BY <3>1, <3>3, Part
    <3>5. arrived'[c] = end /\ answer'[c] = answer[c] /\ UNCHANGED <<context, started, hole>> /\ context.request = c /\ ~hole
      BY <2>3, <3>2 DEF Received, Typed, history
    <3>6. callback'[c] = <<DoWith("receive", p)>>
      <4>1. Goes(c, <<>>, <<DoWith("receive", p)>>)
        BY <3>2, CallbackIs
      <4> QED BY <4>1, GoesIs
    <3>7. Dos(callback'[c]) = {"receive"}
      BY <2>3, EventMoves DEF Moves
    <3>8. end - Len(p) = arrived[c] /\ Len(p) \in 1..end
      <4> HIDE DEF p, A
      <4> QED BY <3>1, <3>3, <3>4
    <3>9. OnItsWay(c)'
      BY <3>4, <3>5, <3>6, <3>8 DEF OnItsWay
    <3>10. arrived'[c] <= Len(FlattenSeq(answer'[c]))
      BY <3>3, <3>5
    <3>11. Stream(c)'
      <4> HIDE DEF p, A
      <4> QED BY <3>5, <3>7, <3>9, <3>10 DEF Stream
    <3> QED BY <1>3, <3>11, <1>2
  <2> QED BY <1>3, <2>1, <2>2, <2>3 DEF Callbacks
<1>4. ASSUME NEW c \in Attempts, Steps(c)
      PROVE  Streams'
  <2>0. Stream(c)
    BY DEF Streams
  <2>1. arrived'[c] = arrived[c] /\ answer'[c] = answer[c] /\ started \subseteq started'
    BY <1>4, ApartSteps
  <2>r. context.request = c => context'.request = c
    <3>1. c # 0
      BY DEF Attempts
    <3> QED BY <1>k, <3>1 DEF Kept
  <2>2. ASSUME NEW from, NEW to, Moves(c, from, to), "receive" \notin to, "ready" \notin to,
               "emit" \in to => from \intersect {"emit", "receive"} # {}
        PROVE  Stream(c)'
    <3>1. from = Dos(callback[c])
      BY <2>2 DEF Moves
    <3>2. "emit" \in to => context'.request = c
      BY <2>0, <2>2, <2>r, <3>1 DEF Stream
    <3> QED BY <1>k, <2>0, <2>1, <2>2, <3>2, StreamMoves
  <2>3. Stream(c)'
    <3>0. CASE OpenControl(c)
      BY <2>2, <3>0, StepMoves
    <3>1. CASE SendSettings(c)
      BY <2>2, <3>1, StepMoves
    <3>2. CASE OpenRequest(c)
      BY <2>2, <3>2, StepMoves
    <3>3. CASE SendRequest(c)
      BY <2>2, <3>3, StepMoves
    <3>4. CASE MarkReady(c)
      BY <2>2, <3>4, StepMoves
    <3>5. CASE TryEmit(c)
      BY <2>2, <3>5, StepMoves
    <3>6. CASE ProcessRequestStream(c)
      BY <2>2, <3>6, StepMoves
    <3>7. CASE DeliverDatagram(c)
      BY <2>2, <3>7, StepMoves
    <3>8. CASE EmitError(c)
      BY <2>2, <3>8, StepMoves
    <3>9. CASE PushEvent(c)
      BY <2>2, <3>9, StepMoves
    <3> QED BY <1>4, <3>0, <3>9, <3>1, <3>2, <3>3, <3>4, <3>5, <3>6, <3>7, <3>8 DEF Steps
  <2> QED BY <1>4, <2>3, <1>2
<1> QED BY <1>1, <1>3, <1>4 DEF Next

\* ... and the unused ones.
LEMMA UnusedNext ==
  ASSUME Typed, Planned, Streams, Unused, [Next]_vars
  PROVE  Unused'
<1>0. context \in Context
  BY DEF Typed
<1>1. CASE UNCHANGED <<context, hole>>
  BY <1>1 DEF Unused
<1>2. CASE ConnectResets
  <2>1. /\ Cleared.accepted = FALSE /\ Cleared.buffer = <<>> /\ Cleared.request = context.request
        /\ Cleared \in Context
    <3>1. <<>> \in Seq(Bytes)
      OBVIOUS
    <3>2. Cleared \in Context
      BY <1>0, <3>1, Constants DEF Cleared, Context, attempt, Typed
    <3> QED BY <1>0, <3>2 DEF Cleared, Context
  <2>2. context'.accepted = FALSE /\ context'.buffer = <<>> /\ context'.request = context.request /\ hole' = hole
    BY <1>2, <2>1 DEF ConnectResets, Context, history
  <2> QED BY <2>2 DEF Unused
<1>3. CASE \/ UNCHANGED vars \/ wt_msquic_shutdown \/ wt_client_connect \/ ConnectRefused \/ ConnectNames
           \/ ConnectReplaces \/ ConnectOpens \/ ConnectStarts
  <2>1. UNCHANGED hole
    BY <1>3, IdleSteps DEF Connecting, Idle
  <2>2. /\ context'.request = context.request /\ context'.accepted = context.accepted
        /\ context'.buffer = context.buffer
    BY <1>0, <1>3 DEF vars, wt_msquic_shutdown, wt_client_connect, ConnectRefused, ConnectNames,
       ConnectReplaces, ConnectOpens, ConnectStarts, handshake, Context
  <2> QED BY <2>1, <2>2 DEF Unused
<1>4. ASSUME NEW c \in Attempts, Callbacks(c)
      PROVE  Unused'
  BY <1>1, <1>4 DEF Callbacks, Connected, ConnectionEnds, StreamStarted, ServerAnswers, Received,
     DatagramReceived, handshake, history
<1>5. ASSUME NEW c \in Attempts, Steps(c)
      PROVE  Unused'
  <2>1. CASE SendSettings(c) \/ SendRequest(c) \/ DeliverDatagram(c) \/ EmitError(c) \/ PushEvent(c)
    BY <1>1, <2>1 DEF SendSettings, SendRequest, DeliverDatagram, EmitError, PushEvent, history
  <2>2. CASE OpenControl(c) \/ MarkReady(c) \/ TryEmit(c)
    BY <1>0, <2>2 DEF OpenControl, MarkReady, TryEmit, Context, Unused, history
  <2>3. CASE OpenRequest(c)
    BY <1>0, <2>3 DEF OpenRequest, Context, Unused, history
  <2>4. CASE ProcessRequestStream(c)
    <3>1. "receive" \in Dos(callback[c])
      BY <2>4, StepMoves DEF Moves
    <3>2. context.request = c /\ c # 0
      BY <3>1 DEF Streams, Stream, Attempts
    <3>3. context'.request = c
      BY <3>2, KeptSteps DEF Kept
    <3> QED BY <3>2, <3>3 DEF Unused
  <2> QED BY <1>5, <2>1, <2>2, <2>3, <2>4 DEF Steps
<1> QED BY <1>2, <1>3, <1>4, <1>5 DEF Next, Connecting

-----------------------------------------------------------------------------
(* What the client has seen of the answer *)

\* What was seen of the answer: what arrived, but for the piece still in the callback.
SeenOf(steps, n) ==
  n - IF steps # <<>> /\ Head(steps).do = "receive" THEN Len(Head(steps).piece) ELSE 0

\* ... for what a callback may have to do.
LEMMA SeenOfIs ==
  ASSUME NEW n \in Nat
  PROVE  /\ \A p : Len(p) \in Nat => SeenOf(<<DoWith("receive", p)>>, n) = n - Len(p)
         /\ \A steps \in Seq(Step) : "receive" \notin Dos(steps) => SeenOf(steps, n) = n
<1>1. ASSUME NEW p, Len(p) \in Nat
      PROVE  SeenOf(<<DoWith("receive", p)>>, n) = n - Len(p)
  <2>1. DoWith("receive", p).do = "receive" /\ DoWith("receive", p).piece = p
    BY DEF DoWith
  <2>2. Head(<<DoWith("receive", p)>>) = DoWith("receive", p) /\ <<DoWith("receive", p)>> # <<>>
    OBVIOUS
  <2> HIDE DEF DoWith
  <2> QED BY <2>1, <2>2 DEF SeenOf
<1>2. ASSUME NEW steps \in Seq(Step), "receive" \notin Dos(steps)
      PROVE  SeenOf(steps, n) = n
  <2>1. CASE steps = <<>>
    BY <2>1 DEF SeenOf
  <2>2. CASE steps # <<>>
    <3>1. 1 \in DOMAIN steps /\ Head(steps) = steps[1]
      BY <2>2
    <3>2. Head(steps).do # "receive"
      BY <1>2, <3>1 DEF Dos
    <3> QED BY <3>2 DEF SeenOf
  <2> QED BY <2>1, <2>2
<1> QED BY <1>1, <1>2

\* Seen of Handshake is this.
LEMMA SeenIs ==
  ASSUME NEW c
  PROVE  Seen(c) = SeenOf(callback[c], arrived[c]) /\ Seen(c)' = SeenOf(callback'[c], arrived'[c])
<1>1. Seen(c) = SeenOf(callback[c], arrived[c])
  BY DEF Seen, SeenOf, At, Piece
<1>2. Seen(c)' = SeenOf(callback'[c], arrived'[c])
  BY DEF Seen, SeenOf, At, Piece
<1> QED BY <1>1, <1>2

\* It is a part of the answer, and the piece in the callback follows it.
LEMMA SeenTyped ==
  ASSUME Typed, NEW c \in Attempts, Stream(c)
  PROVE  /\ Seen(c) \in 0..Len(FlattenSeq(answer[c])) /\ Seen(c) <= arrived[c]
         /\ "receive" \notin Dos(callback[c]) => Seen(c) = arrived[c]
         /\ "receive" \in Dos(callback[c]) =>
              Piece(c) = SubSeq(FlattenSeq(answer[c]), Seen(c) + 1, arrived[c])
<1>0. /\ callback[c] \in Seq(Step) /\ arrived[c] \in Nat /\ Len(FlattenSeq(answer[c])) \in Nat
      /\ arrived[c] <= Len(FlattenSeq(answer[c]))
  BY AnswerBytes DEF Typed, Stream
<1>1. CASE "receive" \notin Dos(callback[c])
  <2>1. Seen(c) = arrived[c]
    BY <1>0, <1>1, SeenIs, SeenOfIs
  <2> QED BY <1>0, <1>1, <2>1
<1>2. CASE "receive" \in Dos(callback[c])
  <2>1. PICK p \in Seq(Bytes) :
          /\ callback[c] = <<DoWith("receive", p)>> /\ Len(p) \in 1..arrived[c]
          /\ p = SubSeq(FlattenSeq(answer[c]), arrived[c] - Len(p) + 1, arrived[c])
    BY <1>2 DEF Stream, OnItsWay
  <2>2. Len(p) \in Nat /\ SeenOf(<<DoWith("receive", p)>>, arrived[c]) = arrived[c] - Len(p)
    BY <1>0, SeenOfIs
  <2>3. Seen(c) = arrived[c] - Len(p)
    BY <2>1, <2>2, SeenIs
  <2>4. Piece(c) = p
    BY <2>1 DEF Piece, DoWith
  <2>5. Piece(c) = SubSeq(FlattenSeq(answer[c]), Seen(c) + 1, arrived[c])
    BY <2>1, <2>3, <2>4
  <2>6. Seen(c) \in 0..Len(FlattenSeq(answer[c])) /\ Seen(c) <= arrived[c]
    BY <1>0, <2>1, <2>2, <2>3
  <2> QED BY <1>2, <2>5, <2>6
<1> QED BY <1>1, <1>2

\* Only a piece that is read makes more of the answer seen.
LEMMA SeenNext ==
  ASSUME Typed, Planned, Streams, [Next]_vars, NEW c \in Attempts
  PROVE  /\ answer'[c] = answer[c] \/ (answer[c] = <<>> /\ Seen(c) = 0 /\ Seen(c)' = 0 /\ ~ProcessRequestStream(c))
         /\ ~ProcessRequestStream(c) => Seen(c)' = Seen(c)
         /\ ProcessRequestStream(c) => Seen(c)' = arrived[c]
<1>0. /\ callback[c] \in Seq(Step) /\ arrived[c] \in Nat /\ Stream(c)
      /\ callback'[c] \in Seq(Step) /\ arrived'[c] \in Nat
  BY TypedNext DEF Typed, Streams
<1>u. ASSUME callback'[c] = callback[c], arrived'[c] = arrived[c]
      PROVE  Seen(c)' = Seen(c)
  BY <1>u, SeenIs
<1>n. ASSUME "receive" \notin Dos(callback[c]), "receive" \notin Dos(callback'[c]), arrived'[c] = arrived[c]
      PROVE  Seen(c)' = Seen(c)
  BY <1>0, <1>n, SeenIs, SeenOfIs
<1>p. ASSUME ProcessRequestStream(c)
      PROVE  /\ "receive" \in Dos(callback[c]) /\ "receive" \notin Dos(callback'[c])
             /\ arrived'[c] = arrived[c] /\ answer'[c] = answer[c] /\ Seen(c)' = arrived[c]
  <2>1. /\ "receive" \in Dos(callback[c]) /\ "receive" \notin Dos(callback'[c])
        /\ UNCHANGED <<arrived, answer>>
    BY <1>p, StepMoves, ApartSteps DEF Moves, Steps
  <2> QED BY <1>0, <2>1, SeenIs, SeenOfIs
<1>1. CASE Connecting \/ wt_msquic_shutdown \/ UNCHANGED vars
  <2>1. Idle
    BY <1>1, IdleSteps
  <2>2. callback'[c] = callback[c] /\ arrived'[c] = arrived[c] /\ answer'[c] = answer[c]
    BY <2>1 DEF Idle
  <2> QED BY <1>u, <1>p, <2>2
<1>2. ASSUME NEW d \in Attempts, Callbacks(d) \/ Steps(d), d # c
      PROVE  callback'[c] = callback[c] /\ arrived'[c] = arrived[c] /\ answer'[c] = answer[c]
  BY <1>2, ApartSteps DEF Apart
<1>3. CASE Callbacks(c)
  <2>0. \/ "receive" \notin Dos(callback[c]) /\ ~ProcessRequestStream(c) /\ Seen(c) = arrived[c]
        \/ ServerAnswers(c)
    <3>1. ~ServerAnswers(c) => Dos(callback[c]) = {}
      BY <1>3, EventMoves DEF Callbacks, Moves
    <3> QED BY <1>0, <1>p, <3>1, SeenTyped
  <2>1. CASE ServerAnswers(c)
    <3>1. answer[c] = <<>> /\ callback'[c] = callback[c] /\ arrived'[c] = arrived[c]
      BY <2>1 DEF ServerAnswers, handshake
    <3>2. arrived[c] = 0 /\ "receive" \notin Dos(callback[c])
      BY <1>0, <3>1, NothingYet
    <3>3. Seen(c) = 0
      BY <1>0, <3>2, SeenTyped
    <3> QED BY <1>p, <1>u, <3>1, <3>2, <3>3
  <2>2. CASE Connected(c) \/ ConnectionEnds(c) \/ StreamStarted(c) \/ DatagramReceived(c)
    <3>1. arrived'[c] = arrived[c] /\ answer'[c] = answer[c]
      BY <2>2 DEF Connected, ConnectionEnds, StreamStarted, DatagramReceived
    <3>2. "receive" \notin Dos(callback[c]) /\ "receive" \notin Dos(callback'[c])
      BY <2>2, EventMoves DEF Moves
    <3> QED BY <1>n, <1>p, <3>1, <3>2
  <2>3. CASE Received(c)
    <3> DEFINE A == FlattenSeq(answer[c])
    <3>1. A \in Seq(Bytes) /\ Len(A) \in Nat
      BY AnswerBytes
    <3>2. PICK end \in (arrived[c] + 1)..Len(A) :
            /\ Callback(c, <<DoWith("receive", SubSeq(A, arrived[c] + 1, end))>>)
            /\ arrived' = [arrived EXCEPT ![c] = end]
      BY <2>3 DEF Received
    <3> DEFINE p == SubSeq(A, arrived[c] + 1, end)
    <3>3. end \in Nat /\ arrived[c] <= end /\ end <= Len(A)
      BY <1>0, <3>1, <3>2
    <3>4. Len(p) = end - arrived[c] /\ Len(p) \in Nat
      <4> HIDE DEF A
      <4>1. arrived[c] \in Nat
        BY <1>0
      <4>2. Len(p) = end - arrived[c]
        BY <3>1, <3>3, <4>1, Part
      <4> QED BY <3>3, <4>1, <4>2
    <3>5. callback'[c] = <<DoWith("receive", p)>>
      <4>1. Goes(c, <<>>, <<DoWith("receive", p)>>)
        BY <3>2, CallbackIs
      <4> QED BY <4>1, GoesIs
    <3>6. arrived'[c] = end /\ answer'[c] = answer[c]
      BY <2>3, <3>2 DEF Received, Typed
    <3>7. "receive" \notin Dos(callback[c])
      BY <2>3, EventMoves DEF Moves
    <3>8. Seen(c)' = end - Len(p)
      <4> HIDE DEF p
      <4>1. SeenOf(<<DoWith("receive", p)>>, end) = end - Len(p)
        BY <3>3, <3>4, SeenOfIs
      <4> QED BY <4>1, <3>5, <3>6, SeenIs
    <3>9. Seen(c) = arrived[c]
      BY <1>0, <3>7, SeenTyped
    <3>10. Seen(c)' = Seen(c)
      <4> HIDE DEF p
      <4> QED BY <1>0, <3>3, <3>4, <3>8, <3>9
    <3> QED BY <1>p, <3>6, <3>7, <3>10
  <2> QED BY <1>3, <2>1, <2>2, <2>3 DEF Callbacks
<1>4. CASE Steps(c)
  <2>1. arrived'[c] = arrived[c] /\ answer'[c] = answer[c]
    BY <1>4, ApartSteps
  <2>2. ASSUME ~ProcessRequestStream(c)
        PROVE  "receive" \notin Dos(callback[c]) /\ "receive" \notin Dos(callback'[c])
    <3>1. \E from, to : Moves(c, from, to) /\ "receive" \notin from /\ "receive" \notin to
      <4>0. CASE OpenControl(c)
        BY <4>0, StepMoves
      <4>1. CASE SendSettings(c)
        BY <4>1, StepMoves
      <4>2. CASE OpenRequest(c)
        BY <4>2, StepMoves
      <4>3. CASE SendRequest(c)
        BY <4>3, StepMoves
      <4>4. CASE MarkReady(c)
        BY <4>4, StepMoves
      <4>5. CASE TryEmit(c)
        BY <4>5, StepMoves
      <4>6. CASE DeliverDatagram(c)
        BY <4>6, StepMoves
      <4>7. CASE EmitError(c)
        BY <4>7, StepMoves
      <4>8. CASE PushEvent(c)
        BY <4>8, StepMoves
      <4> QED BY <1>4, <2>2, <4>0, <4>8, <4>1, <4>2, <4>3, <4>4, <4>5, <4>6, <4>7 DEF Steps
    <3> QED BY <3>1 DEF Moves
  <2> QED BY <1>n, <1>p, <2>1, <2>2
<1> QED BY <1>1, <1>2, <1>3, <1>4, <1>u, <1>p DEF Next

-----------------------------------------------------------------------------
(* What the client has read of the answer *)

\* What the context knows is what was seen of the answer.
ReadSoFar(c) ==
  /\ context.accepted <=> SaidIn(answer[c], Seen(c), TRUE)
  /\ context.buffer = LeftIn(answer[c], Seen(c))

\* ... of each connection that is followed.
Pieces == \A c \in Attempts : Followed(c) => ReadSoFar(c)

\* Nothing was read at the beginning.
LEMMA NothingRead ==
  ASSUME NEW a \in Frames
  PROVE  LeftIn(a, 0) = <<>> /\ ~SaidIn(a, 0, TRUE) /\ ~SaidIn(a, 0, FALSE)
BY ReadNothing

\* Answers are frames, now and after the step.
LEMMA AnswersAre ==
  ASSUME Typed, [Next]_vars, NEW c \in Attempts
  PROVE  answer[c] \in Frames /\ answer'[c] \in Frames
<1>1. Typed'
  BY TypedNext
<1>2. \A a \in Answers \union {<<>>} : a \in Frames
  BY Constants
<1> QED BY <1>1, <1>2 DEF Typed

\* Nothing is read and nothing more is seen.
LEMMA PiecesKeep ==
  ASSUME Typed, Planned, Streams, [Next]_vars, NEW c \in Attempts, ~ProcessRequestStream(c), ReadSoFar(c),
         context'.accepted = context.accepted, context'.buffer = context.buffer
  PROVE  ReadSoFar(c)'
<1>1. Seen(c)' = Seen(c)
  BY SeenNext
<1>2. CASE answer'[c] = answer[c]
  BY <1>1, <1>2 DEF ReadSoFar
<1>3. CASE answer'[c] # answer[c]
  <2>1. Seen(c) = 0 /\ Seen(c)' = 0
    BY <1>3, SeenNext
  <2>2. answer[c] \in Frames /\ answer'[c] \in Frames
    BY AnswersAre
  <2>3. LeftIn(answer[c], 0) = <<>> /\ ~SaidIn(answer[c], 0, TRUE)
    BY <2>2, NothingRead
  <2>4. LeftIn(answer'[c], 0) = <<>> /\ ~SaidIn(answer'[c], 0, TRUE)
    BY <2>2, NothingRead
  <2>5. context.accepted = FALSE /\ context.buffer = <<>>
    BY <2>1, <2>3 DEF ReadSoFar, Typed, Context
  <2> QED BY <2>1, <2>4, <2>5 DEF ReadSoFar
<1> QED BY <1>2, <1>3

\* A piece is read with what the buffer held.
LEMMA PiecesRead ==
  ASSUME Typed, Planned, Streams, [Next]_vars, NEW c \in Attempts, ProcessRequestStream(c), Takes(c), ReadSoFar(c)
  PROVE  /\ ReadSoFar(c)'
         /\ SaidIn(answer'[c], Seen(c)', FALSE) <=>
              SaidIn(answer[c], Seen(c), FALSE) \/ FALSE \in Scan(context.buffer \o Piece(c)).verdicts
<1> DEFINE data == context.buffer \o Piece(c)
           A == FlattenSeq(answer[c])
<1>1. /\ answer'[c] = answer[c] /\ Seen(c)' = arrived[c]
  BY SeenNext
<1>2. "receive" \in Dos(callback[c])
  BY StepMoves DEF Moves
<1>3. /\ Seen(c) \in 0..Len(A) /\ Seen(c) <= arrived[c]
      /\ Piece(c) = SubSeq(A, Seen(c) + 1, arrived[c])
  BY <1>2, SeenTyped DEF Streams
<1>4. answer[c] \in Frames /\ Len(A) \in Nat
  BY AnswerBytes
<1>5. arrived[c] \in Nat /\ arrived[c] <= Len(A)
  BY DEF Streams, Stream, Typed
<1>6. Seen(c) \in Nat
  <2> HIDE DEF A
  <2> QED BY <1>3, <1>4
<1>7. data = LeftIn(answer[c], Seen(c)) \o SubSeq(A, Seen(c) + 1, arrived[c])
  BY <1>3 DEF ReadSoFar
<1>8. Continues(answer[c], Seen(c), arrived[c], data)
  <2> HIDE DEF data
  <2> QED BY <1>3, <1>4, <1>5, <1>6, <1>7, ReadOn
<1>9. context \in Context
  BY DEF Typed
<1>10. /\ context'.buffer = SubSeq(data, Scan(data).end + 1, Len(data))
       /\ context'.accepted = (context.accepted \/ TRUE \in Scan(data).verdicts)
  <2>1. context' = [context EXCEPT !.buffer = SubSeq(data, Scan(data).end + 1, Len(data)),
                                   !.accepted = @ \/ TRUE \in Scan(data).verdicts]
    BY DEF Takes
  <2> HIDE DEF data
  <2> QED BY <1>9, <2>1 DEF Context
<1> HIDE DEF data, A
<1>11. context'.buffer = LeftIn(answer'[c], Seen(c)')
  BY <1>1, <1>8, <1>10 DEF Continues
<1>12. SaidIn(answer[c], arrived[c], TRUE) <=> context.accepted \/ TRUE \in Scan(data).verdicts
  BY <1>8 DEF ReadSoFar, Continues
<1>13. context'.accepted <=> SaidIn(answer'[c], Seen(c)', TRUE)
  BY <1>1, <1>10, <1>12
<1>14. ReadSoFar(c)'
  BY <1>11, <1>13 DEF ReadSoFar
<1>15. SaidIn(answer'[c], Seen(c)', FALSE) <=>
         SaidIn(answer[c], Seen(c), FALSE) \/ FALSE \in Scan(data).verdicts
  BY <1>1, <1>8 DEF Continues
<1> QED BY <1>14, <1>15 DEF data

\* The steps after which a connection is the followed one.
LEMMA FollowedNext ==
  ASSUME Typed, Planned, Numbered, Streams, Unused, [Next]_vars, NEW c \in Attempts, Followed(c)'
  PROVE  \/ Followed(c) /\ (ProcessRequestStream(c) => Takes(c))
            /\ (~ProcessRequestStream(c) =>
                  context'.accepted = context.accepted /\ context'.buffer = context.buffer)
         \/ /\ context'.accepted = FALSE /\ context'.buffer = <<>> /\ Seen(c) = 0 /\ Seen(c)' = 0
            /\ ~ProcessRequestStream(c)
<1>0. /\ context \in Context /\ caller \in [pc : {"idle", "reset", "name", "close", "open", "start"}, attempt : Numbers, replaced : Numbers]
      /\ attempt = caller.attempt /\ attempt' = caller'.attempt /\ attempt \in Nat /\ Numbers \subseteq Nat
      /\ c \in Nat /\ c # 0 /\ context.request \in Nat
  <2>1. c \in Nat /\ c # 0
    BY DEF Attempts
  <2>2. Numbers \subseteq Nat
    BY Constants
  <2> QED BY <2>1, <2>2 DEF Typed, attempt, Context
<1>1. context'.request = c /\ attempt' = c /\ ~hole'
  BY DEF Followed
<1>p. ProcessRequestStream(c) => "receive" \in Dos(callback[c])
  BY StepMoves DEF Moves
<1>2. CASE wt_client_connect
  <2>1. attempt' = attempt + 1 /\ context'.request = context.request
    BY <1>0, <1>2 DEF wt_client_connect, Context
  <2>2. context.request <= attempt
    BY DEF Numbered
  <2> QED BY <1>0, <1>1, <2>1, <2>2
<1>3. CASE ConnectResets
  <2>1. caller.pc = "reset" /\ attempt' = attempt
    BY <1>0, <1>3 DEF ConnectResets, Goto
  <2>2. context'.request = context.request
    <3>1. Cleared.request = context.request /\ Cleared \in Context
      <4>1. <<>> \in Seq(Bytes)
        OBVIOUS
      <4>2. Cleared \in Context
        BY <1>0, <4>1, Constants DEF Cleared, Context
      <4> QED BY <1>0, <4>2 DEF Cleared, Context
    <3> QED BY <1>3, <3>1 DEF ConnectResets, Context
  <2>3. context.request < attempt
    BY <2>1 DEF Numbered
  <2> QED BY <1>0, <1>1, <2>1, <2>2, <2>3
<1>4. CASE OpenRequest(c) \/ \E d \in Attempts : OpenRequest(d)
  <2>1. PICK d \in Attempts : OpenRequest(d)
    BY <1>4
  <2>2. CASE UNCHANGED context
    <3>1. UNCHANGED <<caller, hole>>
      BY <2>1 DEF OpenRequest, history
    <3>2. ~ProcessRequestStream(c)
      <4>1. CASE d = c
        BY <1>p, <2>1, <4>1, StepMoves DEF Moves
      <4>2. CASE d # c
        <5>1. callback'[c] = callback[c]
          BY <2>1, <4>2, ApartSteps DEF Apart, Steps
        <5>2. ProcessRequestStream(c) => "receive" \notin Dos(callback'[c])
          BY StepMoves DEF Moves
        <5> QED BY <1>p, <5>1, <5>2
      <4> QED BY <4>1, <4>2
    <3> QED BY <1>0, <1>1, <2>2, <3>1, <3>2 DEF Followed
  <2>3. CASE context.request = 0 /\ context' = [context EXCEPT !.request = context.connection]
    <3>1. context'.accepted = context.accepted /\ context'.buffer = context.buffer
      BY <1>0, <2>3 DEF Context
    <3>2. context.accepted = FALSE /\ context.buffer = <<>>
      BY <1>0, <2>3 DEF Unused, Context
    <3>3. arrived[c] = 0 /\ "receive" \notin Dos(callback[c]) /\ arrived[c] \in Nat
      BY <1>0, <2>3 DEF Streams, Stream, Typed
    <3>4. Seen(c) = 0
      BY <3>3, SeenTyped DEF Streams
    <3>5. Seen(c)' = Seen(c) /\ ~ProcessRequestStream(c)
      BY <1>p, <3>3, SeenNext
    <3> QED BY <3>1, <3>2, <3>4, <3>5
  <2> QED BY <2>1, <2>2, <2>3, RequestSteps
<1>5. CASE \E d \in Attempts : ProcessRequestStream(d)
  <2>1. PICK d \in Attempts : ProcessRequestStream(d)
    BY <1>5
  <2>2. "receive" \in Dos(callback[d])
    BY <2>1, StepMoves DEF Moves
  <2>3. context.request = d /\ d # 0
    BY <2>2 DEF Streams, Stream, Attempts
  <2>4. context'.request = context.request
    BY <2>3, KeptSteps DEF Kept
  <2>5. d = c
    BY <1>1, <2>3, <2>4
  <2>6. Takes(c) /\ UNCHANGED hole
    BY <1>1, <2>1, <2>5, ReceiveSteps DEF Refuses, Takes
  <2>7. UNCHANGED caller
    BY <2>1 DEF ProcessRequestStream
  <2>8. Followed(c)
    BY <1>0, <1>1, <2>4, <2>6, <2>7 DEF Followed
  <2> QED BY <2>1, <2>5, <2>6, <2>8
<1>6. CASE /\ ~(\E d \in Attempts : ProcessRequestStream(d) \/ OpenRequest(d))
           /\ ~wt_client_connect /\ ~ConnectResets
  <2>1. /\ context'.accepted = context.accepted /\ context'.buffer = context.buffer
        /\ context'.request = context.request /\ caller'.attempt = caller.attempt /\ hole' = hole
    <3>1. CASE UNCHANGED vars \/ wt_msquic_shutdown \/ Connecting
      <4>1. UNCHANGED hole
        BY <3>1, IdleSteps DEF Idle
      <4>2. caller'.attempt = caller.attempt
        BY <1>0, <1>6, <3>1 DEF vars, wt_msquic_shutdown, Connecting, ConnectRefused, ConnectNames,
           ConnectReplaces, ConnectOpens, ConnectStarts, Goto
      <4>3. /\ context'.accepted = context.accepted /\ context'.buffer = context.buffer
            /\ context'.request = context.request
        BY <1>0, <1>6, <3>1 DEF vars, wt_msquic_shutdown, Connecting, ConnectRefused, ConnectNames,
           ConnectReplaces, ConnectOpens, ConnectStarts, handshake, Context
      <4> QED BY <4>1, <4>2, <4>3
    <3>2. ASSUME NEW d \in Attempts, Callbacks(d)
          PROVE  UNCHANGED <<context, caller, hole>>
      BY <3>2 DEF Callbacks, Connected, ConnectionEnds, StreamStarted, ServerAnswers, Received,
         DatagramReceived, handshake, history
    <3>3. ASSUME NEW d \in Attempts, OpenControl(d) \/ MarkReady(d) \/ TryEmit(d)
          PROVE  /\ context'.accepted = context.accepted /\ context'.buffer = context.buffer
                 /\ context'.request = context.request /\ UNCHANGED <<caller, hole>>
      BY <1>0, <3>3 DEF OpenControl, MarkReady, TryEmit, Context, history
    <3>4. ASSUME NEW d \in Attempts,
                 SendSettings(d) \/ SendRequest(d) \/ DeliverDatagram(d) \/ EmitError(d) \/ PushEvent(d)
          PROVE  UNCHANGED <<context, caller, hole>>
      BY <3>4 DEF SendSettings, SendRequest, DeliverDatagram, EmitError, PushEvent, history
    <3> QED BY <1>6, <3>1, <3>2, <3>3, <3>4 DEF Next, Steps
  <2>2. Followed(c)
    BY <1>0, <1>1, <2>1 DEF Followed
  <2> QED BY <1>6, <2>1, <2>2
<1> QED BY <1>2, <1>3, <1>4, <1>5, <1>6

\* Each step reads on, or leaves what was read alone, or begins anew.
LEMMA PiecesNext ==
  ASSUME Typed, Planned, Numbered, Streams, Unused, Pieces, [Next]_vars
  PROVE  Pieces'
<1> SUFFICES ASSUME NEW c \in Attempts, Followed(c)' PROVE ReadSoFar(c)'
  BY DEF Pieces
<1>1. CASE Followed(c) /\ (ProcessRequestStream(c) => Takes(c))
           /\ (~ProcessRequestStream(c) =>
                 context'.accepted = context.accepted /\ context'.buffer = context.buffer)
  <2>1. ReadSoFar(c)
    BY <1>1 DEF Pieces
  <2>2. CASE ProcessRequestStream(c)
    BY <1>1, <2>1, <2>2, PiecesRead
  <2>3. CASE ~ProcessRequestStream(c)
    BY <1>1, <2>1, <2>3, PiecesKeep
  <2> QED BY <2>2, <2>3
<1>2. CASE context'.accepted = FALSE /\ context'.buffer = <<>> /\ Seen(c)' = 0
  <2>1. answer'[c] \in Frames
    BY AnswersAre
  <2> QED BY <1>2, <2>1, NothingRead DEF ReadSoFar
<1> QED BY <1>1, <1>2, FollowedNext

\* No connection is followed at the beginning.
LEMMA PiecesInit == Init => Pieces
<1> SUFFICES ASSUME Init, NEW c \in Attempts PROVE ~Followed(c)
  BY DEF Pieces
<1> QED BY DEF Init, NoContext, Followed, Attempts

-----------------------------------------------------------------------------
(* Which steps change what *)

\* Ready and the flow.
ReadyChanges ==
  \/ context'.ready = context.ready /\ context'.flow = context.flow
  \/ ConnectResets /\ context'.ready = FALSE
  \/ \E d \in Attempts : MarkReady(d) /\ context'.flow = RequestStreamId \div 4

\* The announcement.
EmittedChanges ==
  \/ context'.emitted = context.emitted
  \/ ConnectResets /\ context'.emitted = FALSE
  \/ \E d \in Attempts : TryEmit(d) /\ CanEmit /\ context'.emitted = TRUE

\* The acceptance.
AcceptedChanges ==
  \/ context'.accepted = context.accepted
  \/ ConnectResets /\ context'.accepted = FALSE
  \/ \E d \in Attempts : ProcessRequestStream(d)

\* The count of the connected events.
ConnectedChanges ==
  \/ connected' = connected
  \/ \E d \in Attempts :
       TryEmit(d) /\ CanEmit /\ context'.emitted = TRUE /\ connected' = [connected EXCEPT ![context.session] = @ + 1]

\* A datagram is queued.
Delivers(d) ==
  /\ DeliverDatagram(d)
  /\ wt_datagrams_decode(Piece(d)).ok /\ Expected(wt_datagrams_decode(Piece(d)).value.flow)
  /\ delivered' = delivered \union {[connection |-> d, session |-> context.session,
                                     payload |-> wt_datagrams_decode(Piece(d)).value.payload]}

\* ... and by no other step.
DeliveredChanges ==
  \/ delivered' = delivered
  \/ \E d \in Attempts : Delivers(d)

\* What never comes back.
Ends ==
  /\ context.closing => context'.closing
  /\ failed => failed'
  /\ started \subseteq started'

\* All of these.
Changes ==
  ReadyChanges /\ EmittedChanges /\ AcceptedChanges /\ ConnectedChanges /\ DeliveredChanges /\ Ends

\* They cover every step.
LEMMA ChangesIs ==
  ASSUME Typed, [Next]_vars
  PROVE  Changes
<1>0. context \in Context /\ caller.attempt \in Numbers /\ failed \in BOOLEAN /\ 0 \in Numbers
  BY Constants DEF Typed
<1>f. \A d \in Attempts : TRUE
  OBVIOUS
<1>s. ASSUME /\ context'.ready = context.ready /\ context'.flow = context.flow
             /\ context'.emitted = context.emitted /\ context'.accepted = context.accepted
             /\ context.closing => context'.closing
             /\ UNCHANGED <<connected, failed, delivered>> /\ started \subseteq started'
      PROVE  Changes
  BY <1>s DEF Changes, ReadyChanges, EmittedChanges, AcceptedChanges, ConnectedChanges, DeliveredChanges, Ends
<1>1. CASE UNCHANGED vars \/ wt_msquic_shutdown \/ (Connecting /\ ~ConnectResets)
  <2>1. UNCHANGED <<connected, failed, delivered, started>>
    BY <1>1 DEF vars, wt_msquic_shutdown, Connecting, wt_client_connect, ConnectRefused, ConnectNames,
       ConnectReplaces, ConnectOpens, ConnectStarts, peer, history
  <2>2. /\ context'.ready = context.ready /\ context'.flow = context.flow
        /\ context'.emitted = context.emitted /\ context'.accepted = context.accepted
        /\ context.closing => context'.closing
    BY <1>0, <1>1 DEF vars, wt_msquic_shutdown, Connecting, wt_client_connect, ConnectRefused, ConnectNames,
       ConnectReplaces, ConnectOpens, ConnectStarts, handshake, Context
  <2> QED BY <1>s, <2>1, <2>2
<1>2. CASE ConnectResets
  <2>1. UNCHANGED <<connected, failed, delivered, started>>
    BY <1>2 DEF ConnectResets, peer, history
  <2>2. Cleared \in Context /\ ~Cleared.ready /\ ~Cleared.emitted /\ ~Cleared.accepted /\ Cleared.closing = context.closing
    <3>1. <<>> \in Seq(Bytes)
      OBVIOUS
    <3>2. Cleared \in Context
      BY <1>0, <3>1 DEF Cleared, Context, attempt
    <3> QED BY <1>0, <3>2 DEF Cleared, Context
  <2>3. ~context'.ready /\ ~context'.emitted /\ ~context'.accepted /\ context'.closing = context.closing
        /\ context' \in Context
    BY <1>0, <1>2, <2>2 DEF ConnectResets, Context
  <2>4. context'.ready = FALSE /\ context'.emitted = FALSE /\ context'.accepted = FALSE
    BY <2>3 DEF Context
  <2>5. ReadyChanges /\ EmittedChanges /\ AcceptedChanges
    BY <1>2, <2>4, Zenon DEF ReadyChanges, EmittedChanges, AcceptedChanges
  <2> QED BY <2>1, <2>3, <2>5 DEF Changes, ConnectedChanges, DeliveredChanges, Ends
<1>3. ASSUME NEW c \in Attempts, Callbacks(c)
      PROVE  Changes
  <2>1. UNCHANGED <<context, connected, failed, delivered>> /\ started \subseteq started'
    BY <1>3 DEF Callbacks, Connected, ConnectionEnds, StreamStarted, ServerAnswers, Received, DatagramReceived,
       handshake, history
  <2> QED BY <1>s, <2>1
<1>4. ASSUME NEW c \in Attempts, Steps(c)
      PROVE  Changes
  <2>0. UNCHANGED started
    BY <1>4 DEF Steps, OpenControl, SendSettings, OpenRequest, SendRequest, MarkReady, TryEmit,
       ProcessRequestStream, DeliverDatagram, EmitError, PushEvent, peer
  <2>1. CASE OpenControl(c) \/ SendSettings(c) \/ OpenRequest(c) \/ SendRequest(c)
    <3>1. UNCHANGED <<connected, failed, delivered>>
      BY <2>1 DEF OpenControl, SendSettings, OpenRequest, SendRequest, history
    <3>2. /\ context'.ready = context.ready /\ context'.flow = context.flow
          /\ context'.emitted = context.emitted /\ context'.accepted = context.accepted
          /\ context'.closing = context.closing
      BY <1>0, <2>1 DEF OpenControl, SendSettings, OpenRequest, SendRequest, Context
    <3> QED BY <1>s, <2>0, <3>1, <3>2
  <2>2. CASE MarkReady(c)
    <3>1. UNCHANGED <<connected, failed, delivered>>
      BY <2>2 DEF MarkReady, history
    <3>2. /\ context'.flow = RequestStreamId \div 4
          /\ context'.emitted = context.emitted /\ context'.accepted = context.accepted
          /\ context'.closing = context.closing
      BY <1>0, <2>2, Constants DEF MarkReady, Context
    <3> QED BY <2>0, <2>2, <3>1, <3>2 DEF Changes, ReadyChanges, EmittedChanges, AcceptedChanges,
              ConnectedChanges, DeliveredChanges, Ends
  <2>3. CASE TryEmit(c)
    <3>1. UNCHANGED <<failed, delivered>>
      BY <2>3 DEF TryEmit
    <3>2. /\ context'.ready = context.ready /\ context'.flow = context.flow
          /\ context'.accepted = context.accepted /\ context'.closing = context.closing
      BY <1>0, <2>3 DEF TryEmit, Context
    <3>3. CASE CanEmit
      <4>1. context'.emitted = TRUE /\ connected' = [connected EXCEPT ![context.session] = @ + 1]
        BY <1>0, <2>3, <3>3 DEF TryEmit, Context
      <4>2. EmittedChanges /\ ConnectedChanges
        BY <2>3, <3>3, <4>1 DEF EmittedChanges, ConnectedChanges
      <4> QED BY <2>0, <3>1, <3>2, <4>2 DEF Changes, ReadyChanges, AcceptedChanges, DeliveredChanges, Ends
    <3>4. CASE ~CanEmit
      <4>1. UNCHANGED <<context, connected>>
        BY <2>3, <3>4 DEF TryEmit
      <4> QED BY <1>s, <2>0, <3>1, <4>1
    <3> QED BY <3>3, <3>4
  <2>4. CASE ProcessRequestStream(c)
    <3>1. UNCHANGED <<connected, failed, delivered>>
      BY <2>4 DEF ProcessRequestStream
    <3>2. /\ context'.ready = context.ready /\ context'.flow = context.flow
          /\ context'.emitted = context.emitted /\ context'.closing = context.closing
      BY <1>0, <2>4 DEF ProcessRequestStream, Context
    <3> QED BY <2>0, <2>4, <3>1, <3>2 DEF Changes, ReadyChanges, EmittedChanges, AcceptedChanges,
              ConnectedChanges, DeliveredChanges, Ends
  <2>5. CASE DeliverDatagram(c)
    <3>1. UNCHANGED <<context, connected, failed>>
      BY <2>5 DEF DeliverDatagram
    <3>2. DeliveredChanges
      BY <2>5, Zenon DEF DeliverDatagram, Delivers, DeliveredChanges
    <3> QED BY <2>0, <3>1, <3>2 DEF Changes, ReadyChanges, EmittedChanges, AcceptedChanges, ConnectedChanges, Ends
  <2>6. CASE EmitError(c)
    <3>1. UNCHANGED <<context, connected, delivered>> /\ (failed => failed')
      BY <2>6 DEF EmitError
    <3> QED BY <2>0, <3>1 DEF Changes, ReadyChanges, EmittedChanges, AcceptedChanges, ConnectedChanges,
              DeliveredChanges, Ends
  <2>7. CASE PushEvent(c)
    <3>1. UNCHANGED <<context, connected, delivered>> /\ (failed => failed')
      BY <2>7 DEF PushEvent
    <3> QED BY <2>0, <3>1 DEF Changes, ReadyChanges, EmittedChanges, AcceptedChanges, ConnectedChanges,
              DeliveredChanges, Ends
  <2> QED BY <1>4, <2>1, <2>2, <2>3, <2>4, <2>5, <2>6, <2>7 DEF Steps
<1> QED BY <1>1, <1>2, <1>3, <1>4 DEF Next, Connecting

\* Which steps change the connects and the connections.
Renumbers ==
  /\ attempt' = attempt + 1 /\ context'.session = attempt + 1 /\ caller'.pc = "reset"
  /\ (attempt + 1 \notin crossed' => \A m \in Attempts : m <= attempt => link[m] \notin Alive)
  /\ UNCHANGED <<link, connected, started>>

\* Only such a step changes the numbers.
LEMMA CrossedSteps ==
  ASSUME Typed, [Next]_vars
  PROVE  /\ crossed \subseteq crossed'
         /\ (wt_client_connect /\ Renumbers) \/ (attempt' = attempt /\ crossed' = crossed)
<1>0. /\ context \in Context /\ attempt = caller.attempt /\ attempt' = caller'.attempt /\ attempt \in Numbers
      /\ caller \in [pc : {"idle", "reset", "name", "close", "open", "start"}, attempt : Numbers, replaced : Numbers]
  BY DEF Typed, attempt
<1>n. Numbers \subseteq Nat
  BY Constants
<1>1. CASE wt_client_connect
  <2>1. attempt' = attempt + 1 /\ caller'.pc = "reset" /\ UNCHANGED <<link, connected, started>>
    BY <1>0, <1>1 DEF wt_client_connect, peer
  <2>2. context'.session = attempt + 1
    BY <1>0, <1>1 DEF wt_client_connect, Context
  <2>3. crossed' = IF \E m \in 1..attempt : link[m] \in {"starting", "up"} THEN crossed \union {attempt + 1}
                   ELSE crossed
    BY <1>1 DEF wt_client_connect
  <2>4. \A m \in Attempts : m <= attempt => m \in 1..attempt
    BY <1>0, <1>n DEF Attempts
  <2>5. attempt + 1 \notin crossed' => \A m \in Attempts : m <= attempt => link[m] \notin Alive
    BY <2>3, <2>4 DEF Alive
  <2>6. crossed \subseteq crossed'
    BY <2>3
  <2>7. Renumbers
    BY <2>1, <2>2, <2>5 DEF Renumbers
  <2> QED BY <1>1, <2>6, <2>7
<1>2. CASE UNCHANGED vars \/ wt_msquic_shutdown \/ (Connecting /\ ~wt_client_connect)
  BY <1>0, <1>2 DEF vars, wt_msquic_shutdown, Connecting, ConnectRefused, ConnectResets, ConnectNames,
     ConnectReplaces, ConnectOpens, ConnectStarts, Goto, history
<1>3. ASSUME NEW c \in Attempts, Callbacks(c)
      PROVE  attempt' = attempt /\ crossed' = crossed
  BY <1>0, <1>3 DEF Callbacks, Connected, ConnectionEnds, StreamStarted, ServerAnswers, Received,
     DatagramReceived, history
<1>4. ASSUME NEW c \in Attempts, Steps(c)
      PROVE  attempt' = attempt /\ crossed' = crossed
  BY <1>0, <1>4 DEF Steps, OpenControl, SendSettings, OpenRequest, SendRequest, MarkReady, TryEmit,
     ProcessRequestStream, DeliverDatagram, EmitError, PushEvent, history
<1> QED BY <1>1, <1>2, <1>3, <1>4 DEF Next, Connecting

-----------------------------------------------------------------------------
(* The connect that is alone *)

\* No earlier connection is alive beside that of the connect.
Uncrossed ==
  attempt # 0 /\ attempt \notin crossed =>
    /\ \A m \in Attempts : m < attempt => link[m] \notin Alive
    /\ caller.pc \in {"name", "close", "open", "start"} => ~context.ready /\ ~context.emitted
    /\ context.ready /\ link[attempt] # "none" => attempt \in started
    /\ connected[attempt] <= 1
    /\ connected[attempt] = 1 => context.emitted /\ link[attempt] # "none"

\* It holds before any connect.
LEMMA UncrossedInit == Init => Uncrossed
BY DEF Init, Uncrossed, attempt

\* A connection that is up is its own.
LEMMA Mine ==
  ASSUME Typed, Numbered, Uncrossed, attempt \notin crossed, NEW c \in Attempts, link[c] = "up"
  PROVE  c = attempt /\ attempt # 0 /\ caller.pc = "idle"
<1>0. attempt \in Nat /\ c \in Nat /\ c # 0
  <2>1. c \in Nat /\ c # 0
    BY DEF Attempts
  <2> QED BY <2>1, Constants DEF Typed, attempt
<1>1. ~(c > attempt)
  BY DEF Numbered
<1>2. attempt # 0
  BY <1>0, <1>1
<1>3. ~(c < attempt)
  BY <1>2 DEF Uncrossed, Alive
<1>4. c = attempt
  BY <1>0, <1>1, <1>3
<1>5. link[attempt] # "none"
  BY <1>4
<1> QED BY <1>2, <1>4, <1>5 DEF Numbered

\* The life of the connections, but for the connect's own steps.
LEMMA LinkSteps ==
  ASSUME Typed, NEW c \in Attempts, Callbacks(c) \/ Steps(c)
  PROVE  /\ \A m \in Attempts : link'[m] \in Alive => link[m] \in Alive
         /\ \A m \in Attempts : link'[m] = "none" <=> link[m] = "none"
         /\ UNCHANGED caller
<1>1. CASE Callbacks(c)
  <2>1. UNCHANGED caller
    BY <1>1 DEF Callbacks, Connected, ConnectionEnds, StreamStarted, ServerAnswers, Received, DatagramReceived
  <2>2. CASE Connected(c)
    <3>1. link[c] = "starting" /\ link'[c] = "up" /\ \A m \in Attempts : m # c => link'[m] = link[m]
      BY <2>2 DEF Connected, Typed
    <3> QED BY <2>1, <3>1 DEF Alive
  <2>3. CASE ConnectionEnds(c)
    <3>1. link[c] # "none" /\ link'[c] \in {"ending", "over"} /\ \A m \in Attempts : m # c => link'[m] = link[m]
      BY <2>3 DEF ConnectionEnds, Typed
    <3> QED BY <2>1, <3>1 DEF Alive
  <2>4. CASE StreamStarted(c) \/ ServerAnswers(c) \/ Received(c) \/ DatagramReceived(c)
    <3>1. UNCHANGED link
      BY <2>4 DEF StreamStarted, ServerAnswers, Received, DatagramReceived
    <3> QED BY <2>1, <3>1
  <2> QED BY <1>1, <2>2, <2>3, <2>4 DEF Callbacks
<1>2. CASE Steps(c)
  <2>1. UNCHANGED <<link, caller>>
    BY <1>2 DEF Steps, OpenControl, SendSettings, OpenRequest, SendRequest, MarkReady, TryEmit,
       ProcessRequestStream, DeliverDatagram, EmitError, PushEvent, peer
  <2> QED BY <2>1
<1> QED BY <1>1, <1>2

\* Every step keeps it.
LEMMA UncrossedNext ==
  ASSUME Typed, Planned, Numbered, Lives, Streams, Uncrossed, [Next]_vars
  PROVE  Uncrossed'
<1>0. /\ attempt = caller.attempt /\ attempt' = caller'.attempt /\ attempt \in Nat /\ Attempts \subseteq Nat
      /\ context \in Context /\ connected \in [Attempts -> Nat]
      /\ caller \in [pc : {"idle", "reset", "name", "close", "open", "start"}, attempt : Numbers, replaced : Numbers]
      /\ attempt # 0 => attempt \in Attempts
  <2>1. Attempts \subseteq Nat
    BY DEF Attempts
  <2> QED BY <2>1, Constants DEF Typed, attempt
<1>1. CASE wt_client_connect /\ Renumbers
  <2>1. /\ attempt' = attempt + 1 /\ caller'.pc = "reset" /\ link' = link /\ connected' = connected
        /\ attempt + 1 \notin crossed' => \A m \in Attempts : m <= attempt => link[m] \notin Alive
    BY <1>1 DEF Renumbers
  <2>2. attempt + 1 \in Attempts
    BY <1>0, <1>1 DEF wt_client_connect, Attempts
  <2>3. link[attempt + 1] = "none" /\ connected[attempt + 1] = 0
    BY <1>0, <2>2 DEF Numbered
  <2>4. \A m \in Attempts : m < attempt + 1 => m <= attempt
    BY <1>0
  <2> QED BY <2>1, <2>3, <2>4 DEF Uncrossed
<1>2. CASE attempt' = attempt /\ crossed' = crossed
  <2> SUFFICES ASSUME attempt # 0, attempt \notin crossed
               PROVE  /\ \A m \in Attempts : m < attempt => link'[m] \notin Alive
                      /\ caller'.pc \in {"name", "close", "open", "start"} => ~context'.ready /\ ~context'.emitted
                      /\ context'.ready /\ link'[attempt] # "none" => attempt \in started'
                      /\ connected'[attempt] <= 1
                      /\ connected'[attempt] = 1 => context'.emitted /\ link'[attempt] # "none"
    BY <1>2 DEF Uncrossed
  <2>0. /\ \A m \in Attempts : m < attempt => link[m] \notin Alive
        /\ caller.pc \in {"name", "close", "open", "start"} => ~context.ready /\ ~context.emitted
        /\ context.ready /\ link[attempt] # "none" => attempt \in started
        /\ connected[attempt] <= 1
        /\ connected[attempt] = 1 => context.emitted /\ link[attempt] # "none"
    BY DEF Uncrossed
  <2>n. caller.pc # "idle" => link[attempt] = "none"
    BY DEF Numbered
  <2>1. CASE UNCHANGED vars \/ wt_msquic_shutdown
    <3>1. /\ UNCHANGED <<caller, link, started, connected>>
          /\ context'.ready = context.ready /\ context'.emitted = context.emitted
      BY <1>0, <2>1 DEF vars, wt_msquic_shutdown, peer, history, Context
    <3> QED BY <2>0, <3>1
  <2>2. CASE wt_client_connect
    <3>1. attempt' = attempt + 1
      BY <1>0, <2>2 DEF wt_client_connect
    <3> QED BY <1>0, <1>2, <3>1
  <2>3. CASE ConnectRefused
    <3>1. /\ caller'.pc = "idle" /\ UNCHANGED <<context, link, started, connected>>
      BY <1>0, <2>3 DEF ConnectRefused, Goto, handshake, peer, history
    <3> QED BY <2>0, <3>1
  <2>4. CASE ConnectResets
    <3>1. caller.pc = "reset" /\ UNCHANGED <<link, started, connected>>
      BY <2>4 DEF ConnectResets, peer, history
    <3>2. ~context'.ready /\ ~context'.emitted
      <4>1. Cleared \in Context /\ ~Cleared.ready /\ ~Cleared.emitted
        <5>1. <<>> \in Seq(Bytes) /\ 0 \in Numbers /\ attempt \in Numbers
          BY <1>0, Constants DEF Typed
        <5>2. Cleared \in Context
          BY <1>0, <5>1 DEF Cleared, Context
        <5> QED BY <1>0, <5>2 DEF Cleared, Context
      <4> QED BY <2>4, <4>1 DEF ConnectResets, Context
    <3>3. link[attempt] = "none"
      BY <2>n, <3>1
    <3> QED BY <2>0, <3>1, <3>2, <3>3
  <2>5. CASE ConnectNames \/ ConnectOpens
    <3>1. /\ UNCHANGED <<link, started, connected>> /\ caller.pc \in {"name", "open"}
          /\ context'.ready = context.ready /\ context'.emitted = context.emitted
      BY <1>0, <2>5 DEF ConnectNames, ConnectOpens, peer, history, Context
    <3> QED BY <2>0, <3>1
  <2>6. CASE ConnectReplaces
    <3>1. /\ UNCHANGED <<context, started, connected>> /\ caller.pc = "close"
          /\ \A m \in Attempts : m # caller.replaced => link'[m] = link[m]
          /\ \A m \in Attempts : m = caller.replaced => link'[m] = "closed"
      BY <1>0, <2>6 DEF ConnectReplaces, handshake, history, Typed
    <3>2. \A m \in Attempts : m < attempt => link'[m] \notin Alive
      BY <2>0, <3>1 DEF Alive
    <3>3. ~context.ready /\ ~context.emitted
      BY <2>0, <3>1
    <3> QED BY <2>0, <3>1, <3>2, <3>3
  <2>7. CASE ConnectStarts
    <3>1. /\ caller.pc = "start" /\ UNCHANGED <<started, connected>>
          /\ context'.ready = context.ready /\ context'.emitted = context.emitted
          /\ \A m \in Attempts : m # attempt => link'[m] = link[m]
      BY <1>0, <2>7 DEF ConnectStarts, history, Context, Typed
    <3>2. \A m \in Attempts : m < attempt => m # attempt
      BY <1>0
    <3> QED BY <2>0, <3>1, <3>2
  <2>8. ASSUME NEW c \in Attempts, Callbacks(c)
        PROVE  /\ \A m \in Attempts : m < attempt => link'[m] \notin Alive
               /\ caller'.pc \in {"name", "close", "open", "start"} => ~context'.ready /\ ~context'.emitted
               /\ context'.ready /\ link'[attempt] # "none" => attempt \in started'
               /\ connected'[attempt] <= 1
               /\ connected'[attempt] = 1 => context'.emitted /\ link'[attempt] # "none"
    <3>1. UNCHANGED <<context, connected>> /\ started \subseteq started'
      BY <2>8 DEF Callbacks, Connected, ConnectionEnds, StreamStarted, ServerAnswers, Received,
         DatagramReceived, handshake, history
    <3>2. /\ \A m \in Attempts : link'[m] \in Alive => link[m] \in Alive
          /\ \A m \in Attempts : link'[m] = "none" <=> link[m] = "none"
          /\ UNCHANGED caller
      BY <2>8, LinkSteps
    <3> QED BY <1>0, <2>0, <3>1, <3>2
  <2>9. ASSUME NEW c \in Attempts, Steps(c)
        PROVE  /\ \A m \in Attempts : m < attempt => link'[m] \notin Alive
               /\ caller'.pc \in {"name", "close", "open", "start"} => ~context'.ready /\ ~context'.emitted
               /\ context'.ready /\ link'[attempt] # "none" => attempt \in started'
               /\ connected'[attempt] <= 1
               /\ connected'[attempt] = 1 => context'.emitted /\ link'[attempt] # "none"
    <3>1. UNCHANGED <<caller, link, started>>
      BY <2>9 DEF Steps, OpenControl, SendSettings, OpenRequest, SendRequest, MarkReady, TryEmit,
         ProcessRequestStream, DeliverDatagram, EmitError, PushEvent, peer
    <3>2. CASE MarkReady(c)
      <4>1. "ready" \in Dos(callback[c])
        BY <3>2, StepMoves DEF Moves
      <4>2. link[c] = "up" /\ c \in started
        BY <4>1 DEF Lives, Streams, Stream
      <4>3. c = attempt /\ caller.pc = "idle"
        BY <4>2, Mine
      <4>4. UNCHANGED connected /\ context'.emitted = context.emitted
        BY <1>0, <3>2 DEF MarkReady, history, Context
      <4> QED BY <2>0, <3>1, <4>2, <4>3, <4>4
    <3>3. CASE TryEmit(c) /\ CanEmit
      <4>1. "emit" \in Dos(callback[c])
        BY <3>3, StepMoves DEF Moves
      <4>2. link[c] = "up"
        BY <4>1 DEF Lives
      <4>3. c = attempt /\ caller.pc = "idle"
        BY <4>2, Mine
      <4>4. ~context.emitted
        BY <3>3 DEF CanEmit
      <4>5. context.session = attempt
        BY DEF Numbered
      <4>6. connected' = [connected EXCEPT ![attempt] = @ + 1] /\ context'.ready = context.ready /\ context'.emitted
        BY <1>0, <3>3, <4>5 DEF TryEmit, Context
      <4>7. connected[attempt] = 0
        BY <1>0, <2>0, <4>4
      <4>8. connected'[attempt] = 1
        BY <1>0, <4>6, <4>7
      <4> QED BY <2>0, <3>1, <4>2, <4>3, <4>6, <4>8
    <3>4. CASE ~MarkReady(c) /\ ~(TryEmit(c) /\ CanEmit)
      <4>1. UNCHANGED connected
        BY <2>9, <3>4 DEF Steps, OpenControl, SendSettings, OpenRequest, SendRequest, TryEmit,
           ProcessRequestStream, DeliverDatagram, EmitError, PushEvent, history
      <4>2. context'.ready = context.ready /\ context'.emitted = context.emitted
        <5>1. CASE OpenControl(c)
          BY <1>0, <5>1 DEF OpenControl, Context
        <5>2. CASE OpenRequest(c)
          BY <1>0, <5>2 DEF OpenRequest, Context
        <5>3. CASE ProcessRequestStream(c)
          BY <1>0, <5>3 DEF ProcessRequestStream, Context
        <5>4. CASE \/ SendSettings(c) \/ SendRequest(c) \/ DeliverDatagram(c) \/ EmitError(c) \/ PushEvent(c)
                   \/ TryEmit(c)
          BY <3>4, <5>4 DEF SendSettings, SendRequest, DeliverDatagram, EmitError, PushEvent, TryEmit
        <5> QED BY <2>9, <3>4, <5>1, <5>2, <5>3, <5>4 DEF Steps
      <4> QED BY <2>0, <3>1, <4>1, <4>2
    <3> QED BY <3>2, <3>3, <3>4
  <2> QED BY <2>1, <2>2, <2>3, <2>4, <2>5, <2>6, <2>7, <2>8, <2>9 DEF Next, Connecting
<1> QED BY <1>1, <1>2, CrossedSteps

-----------------------------------------------------------------------------
(* What was said stays said *)

\* ... through every step.
LEMMA SaidStays ==
  ASSUME Typed, Planned, Streams, [Next]_vars, NEW c \in Attempts, NEW v \in {TRUE, FALSE},
         SaidIn(answer[c], Seen(c), v)
  PROVE  SaidIn(answer'[c], Seen(c)', v)
<1>0. /\ answer[c] \in Frames /\ Len(FlattenSeq(answer[c])) \in Nat /\ arrived[c] \in Nat
      /\ Seen(c) \in 0..Len(FlattenSeq(answer[c])) /\ Seen(c) <= arrived[c]
  BY AnswerBytes, SeenTyped DEF Streams, Typed
<1>1. Seen(c) \in Nat
  BY <1>0
<1>2. ~(Seen(c) = 0 /\ answer[c] = <<>>)
  <2>1. ASSUME Seen(c) = 0 PROVE FALSE
    <3>1. ~SaidIn(answer[c], 0, v)
      BY <1>0, ReadNothing
    <3> QED BY <2>1, <3>1
  <2> QED BY <2>1
<1>3. answer'[c] = answer[c] /\ Seen(c)' \in {Seen(c), arrived[c]}
  BY <1>2, SeenNext
<1>4. Seen(c)' \in Nat /\ Seen(c) <= Seen(c)'
  BY <1>0, <1>1, <1>3
<1>5. \A m \in Nat : Seen(c) <= m => SaidIn(answer[c], m, v)
  BY <1>0, <1>1, WholeGrows
<1> QED BY <1>3, <1>4, <1>5

\* An accepted session was accepted by its own answer.
Heard ==
  \A c \in Attempts : context.request = c /\ attempt = c /\ context.accepted => SaidIn(answer[c], Seen(c), TRUE)

\* Nothing is accepted at the beginning.
LEMMA HeardInit == Init => Heard
BY DEF Init, NoContext, Heard

\* No piece is on its way any more when one was refused.
LEMMA NoneOnItsWay ==
  ASSUME Typed, Planned, Streams, NEW d \in Attempts, ProcessRequestStream(d)
  PROVE  ~hole /\ context.request = d
<1>1. "receive" \in Dos(callback[d])
  BY StepMoves DEF Moves
<1> QED BY <1>1 DEF Streams, Stream

\* The acceptance is read from the frames of the answer, and from no others.
LEMMA HeardNext ==
  ASSUME Typed, Planned, Numbered, Streams, Unused, Pieces, Heard, [Next]_vars
  PROVE  Heard'
<1>0. context \in Context /\ attempt \in Nat /\ context.request \in Nat /\ hole \in BOOLEAN /\ Changes
  BY ChangesIs, Constants DEF Typed, attempt, Context
<1> SUFFICES ASSUME NEW c \in Attempts, context'.request = c, attempt' = c, context'.accepted
             PROVE  SaidIn(answer'[c], Seen(c)', TRUE)
  BY DEF Heard
<1>c. c # 0
  BY DEF Attempts
<1>1. CASE ~hole'
  <2>1. Followed(c)'
    BY <1>1 DEF Followed
  <2>2. ReadSoFar(c)'
    BY <2>1, PiecesNext DEF Pieces
  <2> QED BY <2>2 DEF ReadSoFar
<1>2. ASSUME context.request = c, attempt = c, context.accepted
      PROVE  SaidIn(answer'[c], Seen(c)', TRUE)
  <2>1. SaidIn(answer[c], Seen(c), TRUE)
    BY <1>2 DEF Heard
  <2> QED BY <2>1, SaidStays
<1>3. CASE hole'
  <2>1. attempt = c
    <3>1. CASE wt_client_connect /\ Renumbers
      <4>1. context'.request = context.request /\ attempt' = attempt + 1
        BY <1>0, <3>1 DEF wt_client_connect, Renumbers, Context
      <4>2. context.request <= attempt
        BY DEF Numbered
      <4> QED BY <1>0, <4>1, <4>2
    <3>2. CASE attempt' = attempt
      BY <3>2
    <3> QED BY <3>1, <3>2, CrossedSteps
  <2>2. hole \/ \E d \in Attempts : ProcessRequestStream(d) /\ Refuses(d)
    <3>1. CASE UNCHANGED vars \/ wt_msquic_shutdown \/ Connecting
      BY <1>3, <3>1, IdleSteps DEF Idle
    <3>2. ASSUME NEW d \in Attempts, Callbacks(d) \/ Steps(d)
          PROVE  hole' = hole \/ (ProcessRequestStream(d) /\ Refuses(d))
      BY <3>2, ApartSteps
    <3> QED BY <1>3, <3>1, <3>2 DEF Next
  <2>3. CASE \E d \in Attempts : ProcessRequestStream(d) /\ Refuses(d)
    <3>1. UNCHANGED context
      BY <2>3 DEF Refuses
    <3> QED BY <1>2, <2>1, <3>1
  <2>4. CASE hole
    <3>1. context.request # 0
      BY <2>4 DEF Unused
    <3>2. context.request = c
      BY <3>1, KeptSteps DEF Kept
    <3>3. ~\E d \in Attempts : ProcessRequestStream(d)
      BY <2>4, NoneOnItsWay
    <3>4. context.accepted
      BY <1>0, <3>3 DEF Changes, AcceptedChanges
    <3> QED BY <1>2, <2>1, <3>2, <3>4
  <2> QED BY <2>2, <2>3, <2>4
<1> QED BY <1>1, <1>3

-----------------------------------------------------------------------------
(* The flow, and the datagrams *)

\* The flow of a session that is ready is that of its request stream.
Flow == context.ready => context.flow = RequestStreamId \div 4

\* No session is ready at the beginning.
LEMMA FlowInit == Init => Flow
BY DEF Init, NoContext, Flow

\* Every step keeps it.
LEMMA FlowNext ==
  ASSUME Typed, Flow, [Next]_vars
  PROVE  Flow'
<1>1. ReadyChanges
  BY ChangesIs DEF Changes
<1> QED BY <1>1 DEF ReadyChanges, Flow

\* A datagram of the session's flow, as the server may have sent it.
LEMMA PayloadIs ==
  ASSUME NEW data \in Datagrams, wt_datagrams_decode(data).ok,
         wt_datagrams_decode(data).value.flow = RequestStreamId \div 4
  PROVE  \E flow \in Legal(RequestStreamId \div 4) : flow \o wt_datagrams_decode(data).value.payload \in Datagrams
<1> DEFINE read == wt_http3_decode_varint(data, 0)
<1>1. data \in Seq(Bytes)
  BY HandshakeAssumption
<1>2. /\ read.ok /\ wt_datagrams_decode(data).value.flow = read.value
      /\ wt_datagrams_decode(data).value.payload = SubSeq(data, read.end + 1, Len(data))
  BY DEF wt_datagrams_decode, Read, Unreadable
<1>3. IsFlow(RequestStreamId \div 4) /\ RequestStreamId \div 4 = read.value
  BY <1>2, Constants
<1>4. \E flow \in Legal(RequestStreamId \div 4) : flow \o SubSeq(data, read.end + 1, Len(data)) = data
  BY <1>1, <1>2, <1>3, FlowIsLegal
<1> QED BY <1>2, <1>4

\* No datagram was queued at the beginning.
LEMMA DatagramsInit == Init => DatagramsAreOurs
BY DEF Init, DatagramsAreOurs

\* A datagram is queued by the callback of the connect that is alone, on its flow.
LEMMA DatagramsNext ==
  ASSUME Typed, Planned, Numbered, Lives, Uncrossed, Flow, DatagramsAreOurs, [Next]_vars
  PROVE  DatagramsAreOurs'
<1>1. crossed \subseteq crossed' /\ started \subseteq started' /\ DeliveredChanges
  BY CrossedSteps, ChangesIs DEF Changes, Ends
<1>2. ASSUME NEW d \in delivered, d.session \notin crossed'
      PROVE  /\ d.connection = d.session /\ d.connection \in started'
             /\ \E flow \in Legal(RequestStreamId \div 4) : flow \o d.payload \in Datagrams
  BY <1>1, <1>2 DEF DatagramsAreOurs
<1>3. CASE delivered' = delivered
  BY <1>2, <1>3 DEF DatagramsAreOurs
<1>4. ASSUME NEW c \in Attempts, Delivers(c)
      PROVE  DatagramsAreOurs'
  <2> DEFINE read == wt_datagrams_decode(Piece(c))
             new == [connection |-> c, session |-> context.session, payload |-> read.value.payload]
  <2>1. "datagram" \in Dos(callback[c])
    BY <1>4, StepMoves DEF Delivers, Moves
  <2>2. link[c] = "up" /\ context.session = attempt
    BY <2>1 DEF Lives, Numbered
  <2>3. read.ok /\ context.ready /\ read.value.flow = context.flow
    BY <1>4 DEF Delivers, Expected
  <2>4. Piece(c) \in Datagrams
    BY <1>4, DatagramSteps DEF Delivers
  <2>5. \E flow \in Legal(RequestStreamId \div 4) : flow \o read.value.payload \in Datagrams
    <3>1. read.value.flow = RequestStreamId \div 4
      BY <2>3 DEF Flow
    <3> QED BY <2>3, <2>4, <3>1, PayloadIs
  <2>6. ASSUME attempt \notin crossed
        PROVE  c = attempt /\ c \in started
    <3>1. c = attempt /\ attempt # 0
      BY <2>2, <2>6, Mine
    <3> QED BY <2>2, <2>3, <2>6, <3>1 DEF Uncrossed
  <2>7. new.connection = c /\ new.session = context.session /\ new.payload = read.value.payload
    BY DEF new
  <2>8. delivered' = delivered \union {new}
    BY <1>4 DEF Delivers
  <2> HIDE DEF new, read
  <2>9. new.session \notin crossed' =>
          /\ new.connection = new.session /\ new.connection \in started'
          /\ \E flow \in Legal(RequestStreamId \div 4) : flow \o new.payload \in Datagrams
    BY <1>1, <2>2, <2>5, <2>6, <2>7
  <2> QED BY <1>2, <2>8, <2>9 DEF DatagramsAreOurs
<1> QED BY <1>1, <1>3, <1>4 DEF DeliveredChanges

-----------------------------------------------------------------------------
(* Once *)

\* A connect that is not crossed connects once, and when its answer accepts.
Once ==
  \A s \in Attempts \ crossed : connected[s] <= 1 /\ (connected[s] = 1 => SaidIn(answer[s], Seen(s), TRUE))

\* Nothing is connected at the beginning.
LEMMA OnceInit == Init => Once
BY DEF Init, Once

\* Only an announcement counts, and it is remembered.
LEMMA OnceNext ==
  ASSUME Typed, Planned, Numbered, Lives, Streams, Uncrossed, Heard, Once, [Next]_vars
  PROVE  Once'
<1>1. crossed \subseteq crossed' /\ ConnectedChanges
  BY CrossedSteps, ChangesIs DEF Changes
<1> SUFFICES ASSUME NEW s \in Attempts, s \notin crossed'
             PROVE  connected'[s] <= 1 /\ (connected'[s] = 1 => SaidIn(answer'[s], Seen(s)', TRUE))
  BY DEF Once
<1>2. s \notin crossed
  BY <1>1
<1>3. CASE connected'[s] = connected[s]
  <2>1. connected'[s] <= 1 /\ (connected'[s] = 1 => SaidIn(answer[s], Seen(s), TRUE))
    BY <1>2, <1>3 DEF Once
  <2> QED BY <2>1, SaidStays
<1>4. ASSUME NEW c \in Attempts, TryEmit(c), CanEmit, context.session = s,
             connected' = [connected EXCEPT ![context.session] = @ + 1]
      PROVE  connected'[s] <= 1 /\ SaidIn(answer'[s], Seen(s)', TRUE)
  <2>1. "emit" \in Dos(callback[c])
    BY <1>4, StepMoves DEF Moves
  <2>2. link[c] = "up" /\ context.request = c
    BY <2>1 DEF Lives, Streams, Stream
  <2>3. attempt = s
    BY <1>4 DEF Numbered
  <2>4. c = s /\ attempt # 0
    BY <1>2, <2>2, <2>3, Mine
  <2>5. SaidIn(answer[s], Seen(s), TRUE)
    BY <1>4, <2>2, <2>3, <2>4 DEF Heard, CanEmit
  <2>6. connected[s] <= 1 /\ connected[s] # 1 /\ connected[s] \in Nat
    BY <1>2, <1>4, <2>3, <2>4 DEF Uncrossed, CanEmit, Typed
  <2>7. connected'[s] = connected[s] + 1
    BY <1>4, <2>6 DEF Typed
  <2>8. connected'[s] <= 1
    BY <2>6, <2>7
  <2> QED BY <2>5, <2>8, SaidStays
<1>5. CASE connected'[s] # connected[s]
  <2>1. PICK d \in Attempts : /\ TryEmit(d) /\ CanEmit
                              /\ connected' = [connected EXCEPT ![context.session] = @ + 1]
    BY <1>1, <1>5 DEF ConnectedChanges
  <2>2. context.session = s
    BY <1>5, <2>1 DEF Typed
  <2> QED BY <1>4, <2>1, <2>2
<1> QED BY <1>3, <1>5

-----------------------------------------------------------------------------
(* What is still to be announced or reported *)

\* Some callback still has to do this.
Waits(what) == \E c \in Attempts : what \in Dos(callback[c])

\* Pending of Handshake is this.
LEMMA PendingIs ==
  ASSUME NEW what
  PROVE  Pending(what) <=> Waits(what)
BY DEF Pending, Waits, Dos

\* It waits on, when the callback that moves leaves it.
LEMMA WaitsMoves ==
  ASSUME NEW c \in Attempts, NEW from, NEW to, Moves(c, from, to), NEW what, Waits(what),
         what \in from => what \in to
  PROVE  Waits(what)'
<1>1. PICK d \in Attempts : what \in Dos(callback[d])
  BY DEF Waits
<1>2. what \in Dos(callback'[d])
  BY <1>1 DEF Moves
<1> QED BY <1>2 DEF Waits

\* Only the step itself takes it away.
LEMMA WaitsNext ==
  ASSUME Typed, Planned, [Next]_vars
  PROVE  /\ Waits("emit") => Waits("emit")' \/ \E d \in Attempts : TryEmit(d)
         /\ Waits("error") => Waits("error")' \/ \E d \in Attempts : EmitError(d)
<1> DEFINE Done == /\ Waits("emit") => Waits("emit")' \/ \E d \in Attempts : TryEmit(d)
                   /\ Waits("error") => Waits("error")' \/ \E d \in Attempts : EmitError(d)
<1>k. ASSUME NEW c \in Attempts, NEW from, NEW to, Moves(c, from, to),
             "emit" \in from => "emit" \in to, "error" \in from => "error" \in to
      PROVE  Done
  BY <1>k, WaitsMoves
<1>u. ASSUME UNCHANGED callback PROVE Done
  BY <1>u DEF Waits
<1>1. CASE UNCHANGED vars \/ wt_msquic_shutdown \/ Connecting
  BY <1>1, <1>u, IdleSteps DEF Idle
<1>2. ASSUME NEW c \in Attempts, Callbacks(c)
      PROVE  Done
  <2>1. CASE ServerAnswers(c)
    BY <1>u, <2>1 DEF ServerAnswers, handshake
  <2>2. CASE Connected(c)
    BY <1>k, <2>2, EventMoves
  <2>3. CASE ConnectionEnds(c)
    BY <1>k, <2>3, EventMoves
  <2>4. CASE StreamStarted(c)
    BY <1>k, <2>4, EventMoves
  <2>5. CASE Received(c)
    BY <1>k, <2>5, EventMoves
  <2>6. CASE DatagramReceived(c)
    BY <1>k, <2>6, EventMoves
  <2> QED BY <1>2, <2>1, <2>2, <2>3, <2>4, <2>5, <2>6 DEF Callbacks
<1>3. ASSUME NEW c \in Attempts, Steps(c)
      PROVE  Done
  <2>0. CASE OpenControl(c)
    BY <1>k, <2>0, StepMoves
  <2>1. CASE SendSettings(c)
    BY <1>k, <2>1, StepMoves
  <2>2. CASE OpenRequest(c)
    BY <1>k, <2>2, StepMoves
  <2>3. CASE SendRequest(c)
    BY <1>k, <2>3, StepMoves
  <2>4. CASE MarkReady(c)
    BY <1>k, <2>4, StepMoves
  <2>5. CASE TryEmit(c)
    <3>1. \E from, to : Moves(c, from, to) /\ ("error" \in from => "error" \in to)
      BY <2>5, StepMoves
    <3>2. Waits("error") => Waits("error")'
      BY <3>1, WaitsMoves
    <3> QED BY <2>5, <3>2
  <2>6. CASE ProcessRequestStream(c)
    BY <1>k, <2>6, StepMoves
  <2>7. CASE DeliverDatagram(c)
    BY <1>k, <2>7, StepMoves
  <2>8. CASE EmitError(c)
    <3>1. \E from, to : Moves(c, from, to) /\ ("emit" \in from => "emit" \in to)
      BY <2>8, StepMoves
    <3>2. Waits("emit") => Waits("emit")'
      BY <3>1, WaitsMoves
    <3> QED BY <2>8, <3>2
  <2>9. CASE PushEvent(c)
    BY <1>k, <2>9, StepMoves
  <2> QED BY <1>3, <2>0, <2>1, <2>2, <2>3, <2>4, <2>5, <2>6, <2>7, <2>8, <2>9 DEF Steps
<1> QED BY <1>1, <1>2, <1>3 DEF Next

\* A session that is accepted and ready is announced, or will be.
Announced == context.accepted /\ context.ready /\ ~context.closing => context.emitted \/ Waits("emit")

\* Nothing is accepted at the beginning.
LEMMA AnnouncedInit == Init => Announced
BY DEF Init, NoContext, Announced

\* The step that makes it so leaves the announcement to do.
LEMMA AnnouncedNext ==
  ASSUME Typed, Planned, Announced, [Next]_vars
  PROVE  Announced'
<1>0. context \in Context /\ Changes
  BY ChangesIs DEF Typed
<1> SUFFICES ASSUME context'.accepted, context'.ready, ~context'.closing
             PROVE  context'.emitted \/ Waits("emit")'
  BY DEF Announced
<1>1. ~context.closing
  BY <1>0 DEF Changes, Ends
<1>2. ASSUME NEW c \in Attempts, "emit" \in Dos(callback'[c])
      PROVE  Waits("emit")'
  BY <1>2 DEF Waits
<1>3. ASSUME NEW d \in Attempts, MarkReady(d)
      PROVE  Waits("emit")'
  <2>1. "emit" \in Dos(callback'[d])
    BY <1>3, StepMoves DEF Moves
  <2> QED BY <1>2, <2>1
<1>4. ASSUME context.accepted, context.ready, \A d \in Attempts : ~MarkReady(d), ~ConnectResets
      PROVE  context'.emitted \/ Waits("emit")'
  <2>1. context.emitted => context'.emitted
    BY <1>0, <1>4 DEF Changes, EmittedChanges
  <2>2. CASE context.emitted
    BY <2>1, <2>2
  <2>3. CASE Waits("emit") /\ ~context.emitted
    <3>1. ASSUME NEW d \in Attempts, TryEmit(d)
          PROVE  context'.emitted
      <4>1. CanEmit
        BY <1>1, <1>4, <2>3 DEF CanEmit
      <4>2. context'.emitted = TRUE
        BY <1>0, <3>1, <4>1 DEF TryEmit, Context
      <4> QED BY <4>2
    <3> QED BY <2>3, <3>1, WaitsNext
  <2> QED BY <1>1, <1>4, <2>2, <2>3 DEF Announced
<1>5. CASE ConnectResets
  <2>1. context'.accepted = FALSE
    <3>1. Cleared \in Context /\ ~Cleared.accepted
      <4>1. <<>> \in Seq(Bytes) /\ 0 \in Numbers /\ attempt \in Numbers
        BY Constants DEF Typed, attempt
      <4>2. Cleared \in Context
        BY <1>0, <4>1 DEF Cleared, Context
      <4> QED BY <1>0, <4>2 DEF Cleared, Context
    <3> QED BY <1>5, <3>1 DEF ConnectResets, Context
  <2> QED BY <2>1
<1>6. ASSUME NEW d \in Attempts, ProcessRequestStream(d)
      PROVE  context'.emitted \/ Waits("emit")'
  <2>1. context'.ready = context.ready /\ ~ConnectResets /\ \A e \in Attempts : ~MarkReady(e)
    <3>1. context'.ready = context.ready /\ UNCHANGED caller /\ Dos(callback[d]) = {"receive"}
          /\ Dos(callback'[d]) \subseteq {"emit", "error"}
      <4>1. context'.ready = context.ready /\ UNCHANGED caller
        BY <1>0, <1>6 DEF ProcessRequestStream, Context
      <4> QED BY <1>6, <4>1, StepMoves DEF Moves
    <3>2. ~ConnectResets
      <4>1. ConnectResets => UNCHANGED callback
        BY DEF ConnectResets
      <4> QED BY <3>1, <4>1
    <3>3. ASSUME NEW e \in Attempts, MarkReady(e) PROVE FALSE
      <4>1. CASE e = d
        BY <3>1, <3>3, <4>1, StepMoves DEF Moves
      <4>2. CASE e # d
        <5>1. callback'[d] = callback[d]
          BY <3>3, <4>2, StepMoves DEF Moves
        <5> QED BY <3>1, <5>1
      <4> QED BY <4>1, <4>2
    <3> QED BY <3>1, <3>2, <3>3
  <2>2. CASE context.accepted
    BY <1>4, <2>1, <2>2
  <2>3. CASE ~context.accepted
    <3>1. Takes(d)
      BY <1>6, <2>3, ReceiveSteps DEF Refuses
    <3> DEFINE data == context.buffer \o Piece(d)
    <3>2. /\ Goes(d, <<DoWith("receive", Piece(d))>>, After(Scan(data).verdicts))
          /\ context' = [context EXCEPT !.buffer = SubSeq(data, Scan(data).end + 1, Len(data)),
                                        !.accepted = @ \/ TRUE \in Scan(data).verdicts]
      BY <3>1 DEF Takes
    <3> HIDE DEF data
    <3>3. TRUE \in Scan(data).verdicts
      BY <1>0, <2>3, <3>2 DEF Context
    <3>4. callback'[d] = After(Scan(data).verdicts)
      BY <3>2, GoesIs
    <3>5. "emit" \in Dos(callback'[d])
      BY <3>3, <3>4, AfterIs
    <3> QED BY <1>2, <3>5
  <2> QED BY <2>2, <2>3
<1>7. CASE ~ConnectResets /\ \A d \in Attempts : ~MarkReady(d) /\ ~ProcessRequestStream(d)
  <2>1. context.accepted /\ context.ready
    BY <1>0, <1>7 DEF Changes, ReadyChanges, AcceptedChanges
  <2> QED BY <1>4, <1>7, <2>1
<1> QED BY <1>3, <1>5, <1>6, <1>7

\* A refusal that was read is reported, or will be.
Reported ==
  \A c \in Attempts :
    Followed(c) /\ SaidIn(answer[c], Seen(c), FALSE) => context.closing \/ failed \/ Waits("error")

\* Nothing was read at the beginning.
LEMMA ReportedInit == Init => Reported
BY DEF Init, NoContext, Followed, Reported, Attempts

\* The step that reads it leaves the report to do.
LEMMA ReportedNext ==
  ASSUME Typed, Planned, Numbered, Streams, Unused, Pieces, Reported, [Next]_vars
  PROVE  Reported'
<1>0. context \in Context /\ Changes /\ Ends
  BY ChangesIs DEF Typed, Changes
<1> SUFFICES ASSUME NEW c \in Attempts, Followed(c)', SaidIn(answer'[c], Seen(c)', FALSE)
             PROVE  context'.closing \/ failed' \/ Waits("error")'
  BY DEF Reported
<1>a. answer[c] \in Frames /\ answer'[c] \in Frames
  BY AnswersAre
<1>1. CASE Seen(c)' = 0
  BY <1>1, <1>a, NothingRead
<1>2. ASSUME Followed(c), SaidIn(answer[c], Seen(c), FALSE)
      PROVE  context'.closing \/ failed' \/ Waits("error")'
  <2>1. context.closing \/ failed \/ Waits("error")
    BY <1>2 DEF Reported
  <2>2. ASSUME NEW d \in Attempts, EmitError(d)
        PROVE  context'.closing \/ failed'
    BY <2>2 DEF EmitError
  <2> QED BY <1>0, <2>1, <2>2, WaitsNext DEF Ends
<1>3. CASE Followed(c) /\ ProcessRequestStream(c) /\ Takes(c)
  <2>1. ReadSoFar(c)
    BY <1>3 DEF Pieces
  <2> DEFINE data == context.buffer \o Piece(c)
  <2>2. SaidIn(answer[c], Seen(c), FALSE) \/ FALSE \in Scan(data).verdicts
    BY <1>3, <2>1, PiecesRead
  <2>3. Goes(c, <<DoWith("receive", Piece(c))>>, After(Scan(data).verdicts))
    BY <1>3 DEF Takes
  <2> HIDE DEF data
  <2>4. callback'[c] = After(Scan(data).verdicts)
    BY <2>3, GoesIs
  <2>5. FALSE \in Scan(data).verdicts => Waits("error")'
    BY <2>4, AfterIs DEF Waits
  <2> QED BY <1>2, <1>3, <2>2, <2>5
<1>4. CASE Followed(c) /\ ~ProcessRequestStream(c) /\ Seen(c)' # 0
  <2>1. answer'[c] = answer[c] /\ Seen(c)' = Seen(c)
    BY <1>4, SeenNext
  <2> QED BY <1>2, <1>4, <2>1
<1> QED BY <1>1, <1>3, <1>4, FollowedNext

-----------------------------------------------------------------------------
(* The inductive invariant and its theorems *)

\* The inductive invariant. TLC finds it in every state of the instance of MCHandshake as
\* well.
Inv ==
  /\ Typed /\ Planned /\ Numbered /\ Lives /\ Streams /\ Unused /\ Pieces /\ Heard
  /\ Uncrossed /\ Flow /\ DatagramsAreOurs /\ Once /\ Announced /\ Reported

\* It holds at the beginning.
LEMMA InvInit == Init => Inv
BY TypedInit, PlannedInit, NumberedInit, StreamsInit, PiecesInit, HeardInit, UncrossedInit, FlowInit,
   DatagramsInit, OnceInit, AnnouncedInit, ReportedInit DEF Inv

\* Every step keeps it.
LEMMA InvNext == Inv /\ [Next]_vars => Inv'
<1> SUFFICES ASSUME Inv, [Next]_vars PROVE Inv'
  OBVIOUS
<1>1. /\ Typed /\ Planned /\ Numbered /\ Lives /\ Streams /\ Unused /\ Pieces /\ Heard
      /\ Uncrossed /\ Flow /\ DatagramsAreOurs /\ Once /\ Announced /\ Reported
  BY DEF Inv
<1>2. Typed'
  BY <1>1, TypedNext
<1>3. Planned'
  BY <1>1, PlannedNext
<1>4. Numbered'
  BY <1>1, NumberedNext
<1>5. Lives'
  BY <1>1, LivesNext
<1>6. Streams'
  BY <1>1, StreamsNext
<1>7. Unused'
  BY <1>1, UnusedNext
<1>8. Pieces'
  BY <1>1, PiecesNext
<1>9. Heard'
  BY <1>1, HeardNext
<1>10. Uncrossed'
  BY <1>1, UncrossedNext
<1>11. Flow'
  BY <1>1, FlowNext
<1>12. DatagramsAreOurs'
  BY <1>1, DatagramsNext
<1>13. Once'
  BY <1>1, OnceNext
<1>14. Announced'
  BY <1>1, AnnouncedNext
<1>15. Reported'
  BY <1>1, ReportedNext
<1> QED BY <1>2, <1>3, <1>4, <1>5, <1>6, <1>7, <1>8, <1>9, <1>10, <1>11, <1>12, <1>13, <1>14, <1>15 DEF Inv

\* The inductive invariant holds of every reachable state, for any URLs, answers made of
\* whole frames, datagrams, request stream, limit of the buffer and cuts of the answer.
THEOREM InvHolds == Spec => []Inv
<1>1. Init => Inv
  BY InvInit
<1>2. Inv /\ [Next]_vars => Inv'
  BY InvNext
<1> QED BY <1>1, <1>2, PTL DEF Spec

\* What is whole of an answer, as the properties say it.
LEMMA WholeSaid ==
  ASSUME NEW c
  PROVE  /\ Whole(c) = WholeIn(answer[c], Seen(c))
         /\ \A v : (\E i \in Whole(c) : Says(answer[c][i], v)) <=> SaidIn(answer[c], Seen(c), v)
         /\ SubSeq(FlattenSeq(answer[c]), 1 + EndOf(c, Cardinality(Whole(c))), Seen(c)) = LeftIn(answer[c], Seen(c))
<1>1. \A i : EndOf(c, i) = EndIn(answer[c], i)
  BY DEF EndOf, EndIn, First
<1>2. Whole(c) = WholeIn(answer[c], Seen(c))
  BY <1>1 DEF Whole, WholeIn
<1> QED BY <1>1, <1>2 DEF SaidIn, LeftIn

\* What a followed connection has read is what the whole frames of its answer say, and its
\* buffer what is left of them, however the answer was cut into pieces.
THEOREM PiecesDoNotMatterHolds == Spec => []PiecesDoNotMatter
<1>1. Inv => PiecesDoNotMatter
  BY WholeSaid DEF Inv, Pieces, ReadSoFar, PiecesDoNotMatter
<1> QED BY <1>1, InvHolds, PTL

\* A session that is accepted and ready is announced, and a refusal that was read reported,
\* unless the client closes: or a callback still has it to do.
THEOREM VerdictIsAnnouncedHolds == Spec => []VerdictIsAnnounced
<1>1. Inv => VerdictIsAnnounced
  BY WholeSaid, PendingIs DEF Inv, Announced, Reported, VerdictIsAnnounced
<1> QED BY <1>1, InvHolds, PTL

\* A connect that no other crosses is announced at most once, and only when its own answer
\* accepted it.
THEOREM ConnectedOnceHolds == Spec => []ConnectedOnce
<1>1. Inv => ConnectedOnce
  BY WholeSaid DEF Inv, Once, ConnectedOnce
<1> QED BY <1>1, InvHolds, PTL

\* A datagram queued for a connect that no other crosses came on its own connection and its
\* own flow, with the payload the server sent.
THEOREM DatagramsAreOursHolds == Spec => []DatagramsAreOurs
<1>1. Inv => DatagramsAreOurs
  BY DEF Inv
<1> QED BY <1>1, InvHolds, PTL

-----------------------------------------------------------------------------
(* Field lines, as RFC 9204 says *)

\* The two forms of a field line: an entry of the static table, and a name with a value.
NameAt(data, offset) ==
  IF data[offset + 1] >= 64
  THEN LET index == PrefixedAt(data, offset + 1, IF data[offset + 1] >= 192 THEN 6 ELSE 4)
       IN WithValue(index, RfcName(index.value))
  ELSE ReadText(data, offset, 3)

\* RfcField reads the one form or the other.
LEMMA FieldForms ==
  ASSUME NEW data, NEW offset
  PROVE  /\ Indexed(data, offset) =>
              LET index == PrefixedAt(data, offset + 1, 6) IN
              RfcField(data, offset) = WithValue(index, RfcEntry(index.value))
         /\ ~Indexed(data, offset) =>
              LET name == NameAt(data, offset)
                  value == ReadText(data, name.end, 7)
              IN RfcField(data, offset) =
                   IF name.ok /\ value.ok THEN Read(<<name.value, value.value>>, value.end) ELSE Unreadable
<1>1. ASSUME Indexed(data, offset)
      PROVE  LET index == PrefixedAt(data, offset + 1, 6) IN
             RfcField(data, offset) = WithValue(index, RfcEntry(index.value))
  BY <1>1, Zenon DEF Indexed, RfcField, WithValue
<1>2. ASSUME ~Indexed(data, offset)
      PROVE  LET name == NameAt(data, offset)
                 value == ReadText(data, name.end, 7)
             IN RfcField(data, offset) =
                  IF name.ok /\ value.ok THEN Read(<<name.value, value.value>>, value.end) ELSE Unreadable
  BY <1>2, Zenon DEF Indexed, RfcField, WithValue, ReadText, NameAt
<1> QED BY <1>1, <1>2, Zenon

\* A name and a value that are read make a field.
LEMMA FieldRead ==
  ASSUME NEW data, NEW offset, ~Indexed(data, offset), NEW name, NEW q, NameAt(data, offset) = Read(name, q),
         NEW value, NEW e, ReadText(data, q, 7) = Read(value, e)
  PROVE  RfcField(data, offset) = Read(<<name, value>>, e)
<1>1. /\ Read(name, q).ok /\ Read(name, q).value = name /\ Read(name, q).end = q
      /\ Read(value, e).ok /\ Read(value, e).value = value /\ Read(value, e).end = e
  <2>1. Read(name, q).ok /\ Read(name, q).value = name /\ Read(name, q).end = q
    BY ReadIs
  <2>2. Read(value, e).ok /\ Read(value, e).value = value /\ Read(value, e).end = e
    BY ReadIs
  <2> QED BY <2>1, <2>2
<1>2. LET n == NameAt(data, offset)
          v == ReadText(data, n.end, 7)
      IN RfcField(data, offset) =
           IF n.ok /\ v.ok THEN Read(<<n.value, v.value>>, v.end) ELSE Unreadable
  BY FieldForms, Zenon
<1>3. ReadText(data, NameAt(data, offset).end, 7) = Read(value, e)
  BY <1>1, Zenon
<1>4. NameAt(data, offset).ok /\ NameAt(data, offset).value = name
      /\ ReadText(data, NameAt(data, offset).end, 7).ok /\ ReadText(data, NameAt(data, offset).end, 7).value = value
      /\ ReadText(data, NameAt(data, offset).end, 7).end = e
  BY <1>1, <1>3, Zenon
<1> QED BY <1>2, <1>4, Zenon

\* A field of the static table is read back.
LEMMA StaticThere ==
  ASSUME NEW index \in {15, 23}, NEW d, NEW p, Lies(wt_qpack_encode_static_index(index), d, p)
  PROVE  /\ RfcField(d, p) = Read(RfcEntry(index), p + Len(wt_qpack_encode_static_index(index)))
         /\ wt_qpack_encode_static_index(index) \in Seq(Nat) /\ Len(wt_qpack_encode_static_index(index)) = 1
<1> DEFINE a == wt_qpack_encode_prefixed_integer(6, 192, index)
           e == p + Len(a)
<1>1. a = wt_qpack_encode_static_index(index)
  BY DEF wt_qpack_encode_static_index
<1>2. Lies(a, d, p) /\ index \in Nat /\ index <= Huge
  BY <1>1 DEF Huge
<1>3. PrefixedAt(d, p + 1, 6) = Read(index, e)
  BY <1>2, Masks, PrefixedThere
<1>4. Indexed(d, p)
  BY <1>2, MaskThere DEF Indexed
<1>5. a \in Seq(Nat) /\ Len(a) = 1
  <2>1. IsPrefixed(a, Prefix(6), 192, index)
    BY <1>2, PrefixedIs
  <2>2. index < Prefix(6)
    BY PowersAre DEF Prefix
  <2>3. a = <<192 + index>>
    BY <2>1, <2>2 DEF IsPrefixed
  <2> HIDE DEF a
  <2> QED BY <2>3
<1> HIDE DEF a, e
<1>6. RfcField(d, p) = WithValue(Read(index, e), RfcEntry(Read(index, e).value))
  BY <1>3, <1>4, FieldForms, Zenon
<1>7. RfcField(d, p) = Read(RfcEntry(index), e)
  <2>1. Read(index, e).value = index
    BY ReadIs
  <2>2. RfcField(d, p) = WithValue(Read(index, e), RfcEntry(index))
    BY <1>6, <2>1, Zenon
  <2> QED BY <2>2, WithValueIs, Zenon
<1> QED BY <1>1, <1>5, <1>7 DEF e

\* So is a field whose name is in the table.
LEMMA NamedThere ==
  ASSUME NEW index \in {0, 1}, NEW value \in Seq(Nat), Len(value) <= Huge, NEW d, NEW p,
         Lies(wt_qpack_encode_literal_with_static_name(index, value), d, p)
  PROVE  RfcField(d, p) = Read(<<RfcName(index), value>>,
                               p + Len(wt_qpack_encode_literal_with_static_name(index, value)))
<1> DEFINE a == wt_qpack_encode_prefixed_integer(4, 80, index)
           b == Literal(7, 0, value)
           q == p + Len(a)
           e == p + Len(a \o b)
<1>0. d \in Seq(Nat) /\ p \in Nat
  BY DEF Lies
<1>1. wt_qpack_encode_literal_with_static_name(index, value) = a \o b
  BY DEF wt_qpack_encode_literal_with_static_name, wt_qpack_encode_string_literal, Literal
<1>2. index \in Nat /\ index <= Huge
  BY DEF Huge
<1>3. a \in Seq(Nat) /\ Len(a) \in Nat /\ 1 <= Len(a)
  <2> HIDE DEF a
  <2>1. IsPrefixed(a, Prefix(4), 80, index)
    BY <1>2, PrefixedIs DEF a
  <2> QED BY <2>1 DEF IsPrefixed
<1>4. b \in Seq(Nat) /\ Len(b) >= 1
  BY LiteralIs
<1>5. Lies(a, d, p) /\ Lies(b, d, q)
  <2> HIDE DEF a, b
  <2> QED BY <1>1, <1>3, <1>4, LiesParts
<1>6. PrefixedAt(d, p + 1, 4) = Read(index, q)
  BY <1>2, <1>5, Masks, PrefixedThere
<1>7. d[p + 1] >= 64 /\ ~(d[p + 1] >= 192)
  <2>1. Lies(wt_qpack_encode_prefixed_integer(4, 80, index), d, p)
    BY <1>5
  <2>2. d[p + 1] \in Nat /\ d[p + 1] >= 80 /\ d[p + 1] <= 80 + Prefix(4)
    BY <1>2, <2>1, MaskThere
  <2>3. Prefix(4) = 15
    BY PowersAre DEF Prefix
  <2> QED BY <2>2, <2>3
<1>8. ReadText(d, q, 7) = Read(value, e)
  <2>1. q \in Nat /\ e \in Nat /\ e = q + Len(b)
    <3> HIDE DEF a, b
    <3>1. Len(a \o b) = Len(a) + Len(b) /\ Len(b) \in Nat
      BY <1>3, <1>4, ConcatProperties
    <3> QED BY <1>0, <1>3, <3>1
  <2> HIDE DEF q, e
  <2> QED BY <1>0, <1>5, <2>1, Masks, TextThere
<1> HIDE DEF a, b, q, e
<1>9. RfcField(d, p) = Read(<<RfcName(index), value>>, e)
  <2>1. NameAt(d, p) = Read(RfcName(index), q)
    <3>1. NameAt(d, p) = WithValue(Read(index, q), RfcName(Read(index, q).value))
      <4>1. (IF d[p + 1] >= 192 THEN 6 ELSE 4) = 4
        BY <1>7
      <4> QED BY <1>6, <1>7, <4>1, Zenon DEF NameAt
    <3>2. Read(index, q).value = index
      BY ReadIs
    <3>3. NameAt(d, p) = WithValue(Read(index, q), RfcName(index))
      BY <3>1, <3>2, Zenon
    <3> QED BY <3>3, WithValueIs, Zenon
  <2>2. ~Indexed(d, p)
    BY <1>7 DEF Indexed
  <2> QED BY <1>8, <2>1, <2>2, FieldRead
<1> QED BY <1>1, <1>9 DEF e

\* And a field with its name.
LEMMA HeaderThere ==
  ASSUME NEW name \in Seq(Nat), Len(name) <= Huge, NEW value \in Seq(Nat), Len(value) <= Huge, NEW d, NEW p,
         Lies(wt_qpack_encode_header_field(<<name, value>>), d, p)
  PROVE  RfcField(d, p) = Read(<<name, value>>, p + Len(wt_qpack_encode_header_field(<<name, value>>)))
<1> DEFINE a == Literal(3, 32, name)
           b == Literal(7, 0, value)
           q == p + Len(a)
           e == p + Len(a \o b)
<1>0. d \in Seq(Nat) /\ p \in Nat
  BY DEF Lies
<1>1. wt_qpack_encode_header_field(<<name, value>>) = a \o b
  BY DEF wt_qpack_encode_header_field, wt_qpack_encode_string_literal, Literal
<1>3. a \in Seq(Nat) /\ Len(a) >= 1
  BY LiteralIs
<1>4. b \in Seq(Nat) /\ Len(b) >= 1
  BY LiteralIs
<1>5. Lies(a, d, p) /\ Lies(b, d, q)
  <2> HIDE DEF a, b
  <2> QED BY <1>1, <1>3, <1>4, LiesParts
<1>6. q \in Nat /\ e \in Nat /\ e = q + Len(b) /\ q = p + Len(a)
  <2> HIDE DEF a, b
  <2>1. Len(a \o b) = Len(a) + Len(b) /\ Len(b) \in Nat /\ Len(a) \in Nat
    BY <1>3, <1>4, ConcatProperties
  <2> QED BY <1>0, <2>1
<1>7. ~(d[p + 1] >= 64) /\ ~(d[p + 1] >= 192)
  <2> DEFINE n == Len(name)
             c == wt_qpack_encode_prefixed_integer(3, 32, n)
  <2>0. n \in Nat
    OBVIOUS
  <2>1. Lies(c, d, p)
    <3>1. c \in Seq(Nat)
      <4> HIDE DEF c, n
      <4>1. IsPrefixed(c, Prefix(3), 32, n)
        BY <2>0, PrefixedIs DEF c
      <4> QED BY <4>1 DEF IsPrefixed
    <3>2. a = c \o name
      BY DEF Literal
    <3> HIDE DEF c, a
    <3> QED BY <1>5, <3>1, <3>2, LiesParts
  <2>2. d[p + 1] \in Nat /\ d[p + 1] >= 32 /\ d[p + 1] <= 32 + Prefix(3) /\ p < Len(d)
    <3> HIDE DEF n
    <3> QED BY <2>0, <2>1, MaskThere
  <2>3. Prefix(3) = 7
    BY PowersAre DEF Prefix
  <2> QED BY <2>2, <2>3
<1> HIDE DEF q, e
<1>8. ReadText(d, q, 7) = Read(value, e)
  BY <1>0, <1>5, <1>6, Masks, TextThere
<1>9. ReadText(d, p, 3) = Read(name, q)
  BY <1>0, <1>5, <1>6, Masks, TextThere
<1> HIDE DEF a, b
<1>10. RfcField(d, p) = Read(<<name, value>>, e)
  <2>1. NameAt(d, p) = Read(name, q)
    BY <1>7, <1>9, Zenon DEF NameAt
  <2>2. ~Indexed(d, p)
    BY <1>7 DEF Indexed
  <2> QED BY <1>8, <2>1, <2>2, FieldRead
<1> QED BY <1>1, <1>10 DEF e

\* So does a field line.
LEMMA FieldLineRead ==
  ASSUME NEW data \in Seq(Nat), NEW offset \in Nat, offset < Len(data), RfcField(data, offset).ok
  PROVE  RfcField(data, offset).end \in (offset + 1)..Len(data)
<1>0. Len(data) \in Nat /\ ~Unreadable.ok
  BY DEF Unreadable
<1>1. ASSUME NEW bits \in {3, 4, 6, 7}
      PROVE  LET r == PrefixedAt(data, offset + 1, bits) IN
             r \in Results /\ (r.ok => r.end \in (offset + 1)..Len(data))
  <2> DEFINE o == offset + 1
  <2>1. o \in 1..Len(data)
    BY <1>0
  <2> HIDE DEF o
  <2>2. LET r == PrefixedAt(data, o, bits) IN r \in Results /\ (r.ok => r.end \in o..Len(data))
    BY <2>1, PrefixedRead
  <2> QED BY <2>2 DEF o
<1>2. ASSUME NEW r \in Results, NEW v
      PROVE  WithValue(r, v).ok = r.ok /\ WithValue(r, v).end = r.end
  BY DEF WithValue, Results
<1>3. CASE Indexed(data, offset)
  <2> DEFINE index == PrefixedAt(data, offset + 1, 6)
  <2>1. index \in Results /\ (index.ok => index.end \in (offset + 1)..Len(data))
    BY <1>1
  <2>2. RfcField(data, offset) = WithValue(index, RfcEntry(index.value))
    BY <1>3, FieldForms
  <2> HIDE DEF index
  <2> QED BY <1>2, <2>1, <2>2
<1>4. CASE ~Indexed(data, offset)
  <2> DEFINE name == NameAt(data, offset)
             value == ReadText(data, name.end, 7)
  <2>1. RfcField(data, offset) = IF name.ok /\ value.ok THEN Read(<<name.value, value.value>>, value.end) ELSE Unreadable
    BY <1>4, FieldForms
  <2>2. name.ok => name.end \in (offset + 1)..Len(data)
    <3>1. CASE data[offset + 1] >= 64
      <4> DEFINE index == PrefixedAt(data, offset + 1, 4)
      <4>1. index \in Results /\ (index.ok => index.end \in (offset + 1)..Len(data))
        BY <1>1
      <4>2. name = WithValue(index, RfcName(index.value))
        <5>1. (IF data[offset + 1] >= 192 THEN 6 ELSE 4) = 4
          BY <1>4 DEF Indexed
        <5> QED BY <3>1, <5>1, Zenon DEF NameAt
      <4> HIDE DEF index, name
      <4> QED BY <1>2, <4>1, <4>2
    <3>2. CASE ~(data[offset + 1] >= 64)
      <4>1. name = ReadText(data, offset, 3)
        BY <3>2, Zenon DEF NameAt
      <4> HIDE DEF name
      <4> QED BY <4>1, TextRead
    <3> QED BY <3>1, <3>2
  <2> HIDE DEF name
  <2>3. name.ok /\ value.ok => value.end \in (offset + 1)..Len(data)
    <3> SUFFICES ASSUME name.ok, value.ok
                 PROVE  value.end \in (offset + 1)..Len(data)
      OBVIOUS
    <3> DEFINE q == name.end
    <3>1. q \in Nat /\ q >= offset + 1
      BY <1>0, <2>2
    <3> HIDE DEF q
    <3>2. ReadText(data, q, 7).ok
      BY DEF q
    <3>3. ReadText(data, q, 7).end \in (q + 1)..Len(data)
      BY <3>1, <3>2, TextRead
    <3>4. ReadText(data, q, 7).end \in (offset + 1)..Len(data)
      BY <1>0, <3>1, <3>3
    <3> QED BY <3>4 DEF q
  <2> HIDE DEF value
  <2>4. name.ok /\ value.ok
    BY <1>0, <2>1
  <2> QED BY <2>1, <2>3, <2>4, ReadIs
<1> QED BY <1>3, <1>4

-----------------------------------------------------------------------------
(* Field sections, as RFC 9204 says *)

\* What a field section reads as, from each offset on.
Line(f, data, o) ==
  IF o = Len(data) \/ ~RfcField(data, o).ok THEN <<>>
  ELSE <<RfcField(data, o).value>> \o f[RfcField(data, o).end]

\* A function that reads the section.
Lined(f, data) == f = [o \in 2..Len(data) |-> Line(f, data, o)]

\* There is such a function: the offsets are followed back from the end.
LEMMA LinesExist ==
  ASSUME NEW data \in Seq(Nat)
  PROVE  \E f : Lined(f, data)
<1> DEFINE m == Len(data)
           D == 2..m
           Values == {RfcField(data, o).value : o \in D}
           stop == {o \in D : o = m \/ ~RfcField(data, o).ok}
           base == [o \in D |-> <<>>]
           next == [o \in D |-> RfcField(data, o).end]
           step == [o \in D |-> [s \in Seq(Values) |-> <<RfcField(data, o).value>> \o s]]
<1>0. m \in Nat /\ 2 \in Nat
  OBVIOUS
<1>1. base \in [D -> Seq(Values)]
  <2>1. <<>> \in Seq(Values)
    OBVIOUS
  <2> HIDE DEF Values, D
  <2> QED BY <2>1
<1>2. step \in [D -> [Seq(Values) -> Seq(Values)]]
  <2>1. ASSUME NEW o \in D, NEW s \in Seq(Values)
        PROVE  <<RfcField(data, o).value>> \o s \in Seq(Values)
    <3> DEFINE v == RfcField(data, o).value
    <3>1. v \in Values
      OBVIOUS
    <3> HIDE DEF v, Values
    <3>2. <<v>> \in Seq(Values)
      BY <3>1
    <3>3. <<v>> \o s \in Seq(Values)
      BY <3>2, ConcatProperties
    <3> QED BY <3>3 DEF v
  <2> HIDE DEF D, Values
  <2> QED BY <2>1
<1>3. \A o \in D : o \notin stop => next[o] \in (o + 1)..m
  <2> SUFFICES ASSUME NEW o \in D, o \notin stop
               PROVE  next[o] \in (o + 1)..m
    OBVIOUS
  <2>1. o \in Nat /\ o < m /\ RfcField(data, o).ok
    BY <1>0
  <2>2. RfcField(data, o).end \in (o + 1)..m
    BY <2>1, FieldLineRead
  <2> QED BY <2>2
<1> DEFINE n == 2
<1> HIDE DEF stop, base, next, step, Values
<1>4. PICK f \in [D -> Seq(Values)] : Backward(f, n, m, stop, base, next, step)
  <2> DEFINE V == Seq(Values)
  <2>1. n \in Nat /\ D = n..m
    OBVIOUS
  <2> HIDE DEF n, m, D
  <2>2. base \in [n..m -> V] /\ step \in [n..m -> [V -> V]]
    BY <1>1, <1>2, <2>1
  <2>3. \A o \in n..m : o \notin stop => next[o] \in (o + 1)..m
    BY <1>3, <2>1
  <2> HIDE DEF V
  <2>4. \E g \in [n..m -> V] : Backward(g, n, m, stop, base, next, step)
    BY <1>0, <2>1, <2>2, <2>3, BackwardExists
  <2> QED BY <2>1, <2>4 DEF V
<1>5. ASSUME NEW o \in D
      PROVE  f[o] = Line(f, data, o)
  <2>1. f[o] = IF o \in stop THEN base[o] ELSE step[o][f[next[o]]]
    BY <1>4 DEF Backward
  <2>2. CASE o \in stop
    <3>1. o = m \/ ~RfcField(data, o).ok
      BY <2>2 DEF stop
    <3>2. base[o] = <<>>
      BY DEF base
    <3> QED BY <2>1, <2>2, <3>1, <3>2 DEF Line
  <2>3. CASE o \notin stop
    <3>1. ~(o = m \/ ~RfcField(data, o).ok)
      BY <2>3 DEF stop
    <3>2. next[o] = RfcField(data, o).end
      BY DEF next
    <3>3. next[o] \in (o + 1)..m
      BY <1>3, <2>3
    <3>4. next[o] \in D
      BY <1>0, <3>3
    <3>5. f[next[o]] \in Seq(Values)
      BY <1>4, <3>4
    <3>6. step[o][f[next[o]]] = <<RfcField(data, o).value>> \o f[next[o]]
      <4> DEFINE s == f[next[o]]
      <4>1. s \in Seq(Values)
        BY <3>5
      <4> HIDE DEF s, D
      <4>2. step[o][s] = <<RfcField(data, o).value>> \o s
        BY <4>1 DEF step
      <4> QED BY <4>2 DEF s
    <3> HIDE DEF m
    <3> QED BY <2>1, <2>3, <3>1, <3>2, <3>6 DEF Line, m
  <2> QED BY <2>2, <2>3
<1>6. f = [o \in D |-> Line(f, data, o)]
  <2> HIDE DEF D
  <2> QED BY <1>4, <1>5
<1> QED BY <1>6 DEF Lined

\* RfcFields reads by such a function.
LEMMA FieldsFollow ==
  ASSUME NEW data \in Seq(Nat)
  PROVE  \E f : Lined(f, data) /\ RfcFields(data) = f[2]
<1> DEFINE f == CHOOSE g : Lined(g, data)
<1>1. RfcFields(data) = f[2]
  BY DEF RfcFields, Lined, Line
<1>2. Lined(f, data)
  BY LinesExist
<1> QED BY <1>1, <1>2

\* A section made of parts, each a field line or nothing.
Parts(data, e, g) ==
  \A i \in 1..Len(e) :
    \/ e[i] = <<>> /\ g[i] = <<>>
    \/ \E v : /\ g[i] = <<v>> /\ Len(e[i]) >= 1
              /\ RfcField(data, 2 + EndIn(e, i - 1)) = Read(v, 2 + EndIn(e, i))

\* It reads as the fields of its parts.
LEMMA SectionReads ==
  ASSUME NEW S, NEW e \in Seq(Seq(Nat)), NEW g \in Seq(Seq(S)), Len(g) = Len(e),
         NEW data \in Seq(Nat), Len(data) = 2 + Len(FlattenSeq(e)), Parts(data, e, g)
  PROVE  RfcFields(data) = FlattenSeq(g)
<1> DEFINE n == Len(e)
           At2(i) == 2 + EndIn(e, i)
<1>1. PICK f : Lined(f, data) /\ RfcFields(data) = f[2]
  BY FieldsFollow
<1> DEFINE Fine(i) == f[At2(i)] \in Seq(S) /\ First(g, i) \o f[At2(i)] = FlattenSeq(g)
           Bad == {i \in 0..n : ~Fine(i)}
<1>2. n \in Nat /\ Len(data) \in Nat /\ n \in 0..n /\ 0 \in 0..n
  OBVIOUS
<1>10. EndIn(e, 0) = 0
  BY EndSteps
<1>11. EndIn(e, n) = Len(FlattenSeq(e))
  BY EndSteps
<1>12. \A i \in 0..n : EndIn(e, i) \in Nat
  BY EndSteps
<1>13. \A i \in 1..n : EndIn(e, i) = EndIn(e, i - 1) + Len(e[i])
  BY EndSteps
<1>3. /\ First(g, 0) = <<>> /\ First(g, n) = FlattenSeq(g)
      /\ \A i \in 1..n : First(g, i) = First(g, i - 1) \o g[i]
  BY FirstUnfold
<1>4. \A i \in 0..n : First(g, i) \in Seq(S)
  BY FirstTyped
<1>5. \A i \in 1..n : e[i] \in Seq(Nat) /\ g[i] \in Seq(S) /\ Len(e[i]) \in Nat
  OBVIOUS
<1>6. \A o \in 2..Len(data) : f[o] = Line(f, data, o)
  BY <1>1 DEF Lined
<1> SUFFICES \A i \in 0..n : Fine(i)
  <2>1. Fine(0)
    BY <1>2
  <2>2. At2(0) = 2
    BY <1>10
  <2>3. <<>> \o f[2] = f[2]
    BY <2>1, <2>2
  <2> QED BY <1>1, <1>3, <2>1, <2>2, <2>3
<1>7. Fine(n)
  <2>1. At2(n) = Len(data) /\ Len(data) \in 2..Len(data)
    <3>1. EndIn(e, n) \in Nat
      BY <1>2, <1>12
    <3> QED BY <1>2, <1>11, <3>1
  <2>2. f[Len(data)] = <<>>
    BY <1>6, <2>1 DEF Line
  <2>3. First(g, n) \o <<>> = First(g, n)
    BY <1>2, <1>4
  <2>4. f[At2(n)] = <<>> /\ <<>> \in Seq(S)
    BY <2>1, <2>2
  <2> QED BY <1>3, <2>3, <2>4
<1>8. ASSUME NEW i \in 1..n, Fine(i)
      PROVE  Fine(i - 1)
  <2>1. i - 1 \in 0..n /\ i \in 0..n
    BY <1>2
  <2>2. CASE e[i] = <<>> /\ g[i] = <<>>
    <3>1. EndIn(e, i) = EndIn(e, i - 1)
      <4>1. EndIn(e, i) = EndIn(e, i - 1) + Len(e[i]) /\ EndIn(e, i - 1) \in Nat
        BY <1>12, <1>13, <2>1
      <4>2. Len(e[i]) = 0
        BY <2>2
      <4> QED BY <4>1, <4>2
    <3>2. First(g, i) = First(g, i - 1)
      <4>1. First(g, i) = First(g, i - 1) \o <<>> /\ First(g, i - 1) \in Seq(S)
        BY <1>3, <1>4, <2>1, <2>2
      <4> QED BY <4>1
    <3> QED BY <1>8, <3>1, <3>2
  <2>3. ASSUME NEW v, g[i] = <<v>>, Len(e[i]) >= 1,
               RfcField(data, 2 + EndIn(e, i - 1)) = Read(v, 2 + EndIn(e, i))
        PROVE  Fine(i - 1)
    <3> DEFINE o == At2(i - 1)
               q == At2(i)
               t == f[q]
               s == First(g, i - 1)
    <3>1. EndIn(e, i) = EndIn(e, i - 1) + Len(e[i]) /\ EndIn(e, i) \in Nat /\ EndIn(e, i - 1) \in Nat /\ Len(e[i]) \in Nat
      BY <1>5, <1>12, <1>13, <2>1
    <3>2. EndIn(e, i) <= Len(FlattenSeq(e))
      BY <2>1, EndsIn
    <3>3. o \in 2..Len(data) /\ o # Len(data)
      <4> DEFINE x == EndIn(e, i)
                 y == EndIn(e, i - 1)
                 l == Len(e[i])
                 k == Len(FlattenSeq(e))
      <4>1. x = y + l /\ x \in Nat /\ y \in Nat /\ l \in Nat /\ l >= 1 /\ x <= k /\ Len(data) = 2 + k /\ o = 2 + y
        BY <2>3, <3>1, <3>2
      <4>2. k \in Nat
        BY EndSteps
      <4> HIDE DEF x, y, l, k, o
      <4> QED BY <1>2, <4>1, <4>2
    <3>4. RfcField(data, o) = Read(v, q)
      BY <2>3
    <3>5. t \in Seq(S) /\ (s \o g[i]) \o t = FlattenSeq(g) /\ s \in Seq(S)
      BY <1>3, <1>4, <1>8, <2>1
    <3>6. <<v>> \in Seq(S) /\ g[i] = <<v>>
      BY <1>5, <2>3
    <3> HIDE DEF o, q
    <3>7. f[o] = <<v>> \o t
      <4>1. Read(v, q).ok /\ Read(v, q).value = v /\ Read(v, q).end = q
        BY ReadIs
      <4>2. f[o] = Line(f, data, o)
        BY <1>6, <3>3
      <4>3. RfcField(data, o).ok /\ RfcField(data, o).value = v /\ RfcField(data, o).end = q
        BY <3>4, <4>1
      <4> QED BY <3>3, <4>2, <4>3 DEF Line
    <3> HIDE DEF t, s
    <3>8. Grouping(S, s, <<v>>, t)
      BY <3>5, <3>6, Moved
    <3>9. (s \o <<v>>) \o t = s \o (<<v>> \o t) /\ <<v>> \o t \in Seq(S)
      BY <3>8, Zenon DEF Grouping
    <3>10. f[o] \in Seq(S) /\ s \o f[o] = FlattenSeq(g)
      BY <3>5, <3>6, <3>7, <3>9, Zenon
    <3> QED BY <3>10 DEF o, s
  <2> QED BY <2>2, <2>3 DEF Parts
<1>9. ASSUME Bad # {}
      PROVE  FALSE
  <2>1. PICK i \in Bad : \A k \in Bad : k <= i
    <3>1. Bad \in SUBSET (0..n)
      OBVIOUS
    <3> HIDE DEF Bad
    <3> QED BY <1>2, <1>9, <3>1, LastPlace
  <2>2. i \in 0..n /\ ~Fine(i)
    BY <2>1
  <2> HIDE DEF Fine
  <2>3. i # n
    BY <1>7, <2>2
  <2>4. i + 1 \in 1..n /\ i + 1 \in 0..n /\ ~(i + 1 <= i) /\ (i + 1) - 1 = i
    BY <1>2, <2>2, <2>3
  <2>5. Fine(i + 1)
    BY <2>1, <2>4
  <2> QED BY <1>8, <2>2, <2>4, <2>5
<1> QED BY <1>9

-----------------------------------------------------------------------------
(* URLs that are named *)

\* A text with a host and no port, and one with both.
LEMMA HostAlone ==
  ASSUME NEW a \in Seq(Nat), NEW n \in Nat, Len(a) = n, \A i \in 1..n : a[i] # Colon
  PROVE  HostOf(a) = a /\ PortOf(a) = 443
<1>1. Find(a, Colon, 0, n) = n
  <2>1. n \in 0..n /\ ~(n < n) /\ \A i \in 0..(n - 1) : i + 1 \in 1..n
    OBVIOUS
  <2> QED BY <2>1, FoundAt
<1>2. HostOf(a) = a
  <2>1. HostOf(a) = SubSeq(a, 1, Len(a))
    BY <1>1 DEF HostOf
  <2> QED BY <2>1, SubSeqFull
<1>3. SubSeq(a, n + 2, n) = <<>>
  BY SubSeqEmpty
<1>4. PortOf(a) = 443
  BY <1>1, <1>3, Zenon DEF PortOf
<1> QED BY <1>2, <1>4

\* ... of one with both.
LEMMA HostAndPort ==
  ASSUME NEW a \in Seq(Nat), NEW n \in Nat, NEW m \in Nat, Len(a) = m, n + 1 <= m, a[n + 1] = Colon,
         \A i \in 1..n : a[i] # Colon
  PROVE  /\ HostOf(a) = Cut(a, 1, n)
         /\ PortOf(a) = IF Cut(a, n + 2, m) = <<>> THEN 443 ELSE Number(Cut(a, n + 2, m))
<1>1. Find(a, Colon, 0, m) = n
  <2>1. n \in 0..m /\ \A i \in 0..(n - 1) : i + 1 \in 1..n
    OBVIOUS
  <2> QED BY <2>1, FoundAt
<1>2. HostOf(a) = Cut(a, 1, n)
  BY <1>1, Zenon DEF HostOf, Cut
<1>3. PortOf(a) = IF Cut(a, n + 2, m) = <<>> THEN 443 ELSE Number(Cut(a, n + 2, m))
  BY <1>1, Zenon DEF PortOf, Cut
<1> QED BY <1>2, <1>3

\* The authority of a URL tells its host and its port.
LEMMA AuthorityReads ==
  ASSUME NEW u, u.host \in Seq(Nat), NEW n \in 1..255, Len(u.host) = n, Port(u.port),
         \A i \in 1..n : u.host[i] # Colon
  PROVE  HostOf(AuthorityOf(u)) = u.host /\ PortOf(AuthorityOf(u)) = u.port
<1> DEFINE a == AuthorityOf(u)
           d == Decimal(u.port)
           l == DigitsFor(u.port)
           s == u.host
<1>1. d \in Seq(Nat) /\ Len(d) = l /\ l \in 1..5 /\ Number(d) = u.port
  BY DecimalIs, TensAre, NumberOfDecimal
<1>4. IsAuthority(a, u, n, l)
  BY AuthorityIs
<1>2. CASE u.port = 443
  <2>1. a = s
    BY <1>2, <1>4, Zenon DEF IsAuthority
  <2>2. HostOf(s) = s /\ PortOf(s) = 443
    <3>1. s \in Seq(Nat) /\ n \in Nat /\ Len(s) = n /\ \A i \in 1..n : s[i] # Colon
      OBVIOUS
    <3> HIDE DEF s
    <3> QED BY <3>1, HostAlone
  <2> QED BY <1>2, <2>1, <2>2
<1>3. CASE u.port # 443
  <2>1. /\ a \in Seq(Nat) /\ Len(a) = (n + 1) + l /\ a[n + 1] = Colon
        /\ \A i \in 1..n : a[i] = s[i]
        /\ \A i \in 1..l : a[(n + 1) + i] = d[i]
    BY <1>3, <1>4, Zenon DEF IsAuthority
  <2>2. s \in Seq(Nat) /\ Len(s) = n /\ n \in Nat /\ \A i \in 1..n : s[i] # Colon
    OBVIOUS
  <2> DEFINE m == (n + 1) + l
  <2> HIDE DEF a, d, l, s
  <2>3. m \in Nat /\ n + 1 <= m /\ n + 2 <= m /\ n <= m /\ n + 2 \in Nat \ {0} /\ (m - (n + 2)) + 1 = l /\ (n - 1) + 1 = n /\ 1 <= n
    BY <1>1
  <2>4. \A i \in 1..n : 1 + i - 1 = i
    OBVIOUS
  <2>5. \A i \in 1..l : (n + 2) + i - 1 = (n + 1) + i
    BY <1>1
  <2>6. Len(a) = m
    BY <2>1
  <2> HIDE DEF m
  <2>7. /\ HostOf(a) = Cut(a, 1, n)
        /\ PortOf(a) = IF Cut(a, n + 2, m) = <<>> THEN 443 ELSE Number(Cut(a, n + 2, m))
    <3>1. \A i \in 1..n : a[i] # Colon
      BY <2>1, <2>2
    <3> QED BY <2>1, <2>2, <2>3, <2>6, <3>1, HostAndPort
  <2>8. Cut(a, 1, n) = s
    <3>1. IsCut(Nat, a, 1, n)
      <4>1. 1 \in Nat \ {0} /\ n <= Len(a)
        BY <2>3, <2>6
      <4> QED BY <2>1, <2>2, <2>3, <4>1, Piecewise
    <3>2. /\ Cut(a, 1, n) \in Seq(Nat) /\ Len(Cut(a, 1, n)) = n
          /\ \A i \in 1..n : Cut(a, 1, n)[i] = a[i]
      BY <2>3, <2>4, <3>1 DEF IsCut
    <3>3. \A i \in 1..n : Cut(a, 1, n)[i] = s[i]
      BY <2>1, <3>2
    <3> QED BY <2>2, <3>2, <3>3, SeqEqual
  <2>9. Cut(a, n + 2, m) = d
    <3> DEFINE k == n + 2
    <3>0. k \in Nat \ {0} /\ k <= m /\ m <= Len(a) /\ (m - k) + 1 = l
      BY <2>3, <2>6
    <3>1. IsCut(Nat, a, k, m)
      <4> HIDE DEF k
      <4> QED BY <2>1, <2>3, <3>0, Piecewise
    <3>2. /\ Cut(a, k, m) \in Seq(Nat) /\ Len(Cut(a, k, m)) = l
          /\ \A i \in 1..l : Cut(a, k, m)[i] = a[(n + 1) + i]
      BY <2>5, <3>0, <3>1 DEF IsCut
    <3>3. \A i \in 1..l : Cut(a, k, m)[i] = d[i]
      BY <2>1, <3>2
    <3> HIDE DEF k
    <3>4. Cut(a, k, m) = d
      BY <1>1, <3>2, <3>3, SeqEqual
    <3> QED BY <3>4 DEF k
  <2>10. d # <<>>
    BY <1>1
  <2> QED BY <1>1, <2>7, <2>8, <2>9, <2>10 DEF a, s
<1> QED BY <1>2, <1>3

\* The part of a URL between "https://" and the path tells the same.
LEMMA NamedReads ==
  ASSUME NEW u, NEW url, NEW h, NEW e, Parted(url, h, e), Taken(u, url, h, e)
  PROVE  HostOf(Cut(url, 9, e)) = u.host /\ PortOf(Cut(url, 9, e)) = u.port
<1> DEFINE s == Cut(url, 9, e)
           n == h - 8
           m == e - 8
<1>1. /\ url \in Seq(Nat) /\ h \in Nat /\ e \in Nat /\ Len(url) \in Nat
      /\ 9 <= h /\ h <= e /\ e <= Len(url)
      /\ \A i \in 8..(h - 1) : url[i + 1] # Colon
  BY SMT DEF Parted
<1>2. /\ n \in Nat /\ m \in Nat /\ n <= m /\ 1 <= n /\ (e - 9) + 1 = m /\ 9 <= e /\ 9 \in Nat \ {0} /\ h = 8 + n /\ e = 8 + m
      /\ 9 = 8 + 1 /\ 8 \in Nat /\ h < e <=> n + 1 <= m
      /\ \A i \in 1..n : 8 + i - 1 \in 8..(h - 1) /\ 9 + i - 1 = (8 + i - 1) + 1
      /\ \A i \in 1..m : 9 + i - 1 = 8 + i
  BY <1>1
<1>3. IsCut(Nat, url, 9, e)
  BY <1>1, <1>2, Piecewise
<1>4. /\ s \in Seq(Nat) /\ Len(s) = m /\ \A i \in 1..m : s[i] = url[9 + i - 1]
  BY <1>2, <1>3 DEF IsCut
<1> HIDE DEF s, n, m
<1>5. Lies(s, url, 8)
  BY <1>1, <1>2, <1>4 DEF Lies
<1>6. \A i \in 1..n : i \in 1..m /\ s[i] # Colon
  <2> SUFFICES ASSUME NEW i \in 1..n
               PROVE  i \in 1..m /\ s[i] # Colon
    OBVIOUS
  <2>1. i \in 1..m
    BY <1>2
  <2>2. s[i] = url[(8 + i - 1) + 1] /\ 8 + i - 1 \in 8..(h - 1)
    BY <1>2, <1>4, <2>1
  <2> QED BY <1>1, <2>1, <2>2
<1>7. u.host = Cut(s, 1, n)
  <2>1. Cut(url, 9, h) = Cut(s, 1, n)
    <3>1. 1 \in Nat \ {0} /\ n <= Len(s)
      BY <1>2, <1>4
    <3> QED BY <1>2, <1>5, <3>1, LiesCut
  <2> QED BY <2>1 DEF Taken
<1>8. CASE n = m
  <2>1. HostOf(s) = s /\ PortOf(s) = 443
    BY <1>2, <1>4, <1>6, <1>8, HostAlone
  <2>2. Cut(s, 1, n) = s
    BY <1>4, <1>8, SubSeqFull DEF Cut
  <2>3. ~(h < e)
    BY <1>2, <1>8
  <2>4. u.port = 443
    BY <2>3 DEF Taken
  <2> QED BY <1>7, <2>1, <2>2, <2>4 DEF s
<1>9. CASE n # m
  <2>1. h < e /\ n + 1 <= m /\ n + 2 \in Nat \ {0}
    BY <1>2, <1>9
  <2>2. s[n + 1] = Colon
    <3>1. n + 1 \in 1..m /\ 8 + (n + 1) = h + 1
      BY <1>2, <2>1
    <3>2. s[n + 1] = url[8 + (n + 1)]
      BY <1>2, <1>4, <3>1
    <3>3. url[h + 1] = Colon
      BY <2>1 DEF Parted
    <3> QED BY <3>1, <3>2, <3>3
  <2>3. /\ HostOf(s) = Cut(s, 1, n)
        /\ PortOf(s) = IF Cut(s, n + 2, m) = <<>> THEN 443 ELSE Number(Cut(s, n + 2, m))
    BY <1>2, <1>4, <1>6, <2>1, <2>2, HostAndPort
  <2>4. Cut(url, h + 2, e) = Cut(s, n + 2, m)
    <3> DEFINE k == n + 2
               x == h + 2
    <3>1. k \in Nat \ {0} /\ m <= Len(s) /\ x = 8 + k /\ e = 8 + m /\ m \in Nat
      BY <1>2, <1>4
    <3> HIDE DEF k, x
    <3>2. Cut(url, x, e) = Cut(s, k, m)
      BY <1>5, <3>1, LiesCut
    <3> QED BY <3>2 DEF k, x
  <2>5. Cut(url, h + 2, e) # <<>>
    BY <2>1 DEF Parted
  <2>6. u.port = Number(Cut(url, h + 2, e))
    BY <2>1 DEF Taken
  <2> QED BY <1>7, <2>3, <2>4, <2>5, <2>6 DEF s
<1> QED BY <1>8, <1>9

\* The authority and the path of the request name the URL.
THEOREM NamesIt ==
  ASSUME NEW url \in Seq(Nat), wt_url_parse_https(url).ok
  PROVE  Names(AuthorityOf(wt_url_parse_https(url)), wt_url_parse_https(url).path, url)
<1> DEFINE u == wt_url_parse_https(url)
<1>1. PICK h, e : Parted(url, h, e) /\ Taken(u, url, h, e)
  BY UrlIs
<1> HIDE DEF u
<1>2. /\ u.host \in Seq(Nat) /\ Len(u.host) = h - 8 /\ \A i \in 1..(h - 8) : u.host[i] # Colon
      /\ Port(u.port)
  BY <1>1, UrlTyped
<1>3. /\ h \in Nat /\ 9 <= h /\ h <= 263 /\ e \in Nat /\ h <= e /\ e <= Len(url) /\ Len(url) \in Nat
      /\ Cut(url, 1, 8) = Https
  BY <1>1, SMT DEF Parted
<1> DEFINE n == h - 8
           path == Cut(url, e + 1, Len(url))
           named == Cut(url, 9, e)
<1>4. n \in 1..255
  BY <1>3
<1>5. HostOf(AuthorityOf(u)) = u.host /\ PortOf(AuthorityOf(u)) = u.port
  <2>1. Len(u.host) = n /\ \A i \in 1..n : u.host[i] # Colon
    BY <1>2
  <2> HIDE DEF n
  <2> QED BY <1>2, <1>4, <2>1, AuthorityReads
<1>6. HostOf(named) = u.host /\ PortOf(named) = u.port
  BY <1>1, NamedReads
<1>7. u.path = IF path = <<>> THEN <<Slash>> ELSE path
  BY <1>1 DEF Taken
<1>8. Len(path) = Len(url) - e
  <2>1. CASE e = Len(url)
    <3>1. SubSeq(url, e + 1, Len(url)) = <<>>
      BY <1>3, <2>1, SubSeqEmpty
    <3>2. Len(<<>>) = 0
      OBVIOUS
    <3> QED BY <1>3, <2>1, <3>1, <3>2 DEF Cut
  <2>2. CASE e # Len(url)
    <3> DEFINE m == e + 1
               k == Len(url)
    <3>1. m \in Nat \ {0} /\ m <= k /\ k \in Nat /\ k <= Len(url) /\ (k - m) + 1 = Len(url) - e
      BY <1>3, <2>2
    <3> HIDE DEF m, k
    <3>2. IsCut(Nat, url, m, k)
      BY <3>1, Piecewise
    <3>3. Len(Cut(url, m, k)) = (k - m) + 1
      BY <3>2 DEF IsCut
    <3> QED BY <3>1, <3>3 DEF m, k
  <2> QED BY <2>1, <2>2
<1>9. url = Https \o named \o path
  <2> DEFINE k == Len(url)
  <2>1. /\ 1 \in 1..(Len(url) + 1) /\ 8 \in 0..Len(url) /\ e \in 8..Len(url) /\ e \in 0..Len(url) /\ k \in e..Len(url)
        /\ 1 - 1 = 0 /\ 8 + 1 = 9
    BY <1>3
  <2>2. SubSeq(url, 1, 8) \o SubSeq(url, 8 + 1, e) = SubSeq(url, 1, e)
    BY <2>1, ConcatAdjacentSubSeq
  <2>3. SubSeq(url, 1, e) \o SubSeq(url, e + 1, Len(url)) = SubSeq(url, 1, Len(url))
    BY <2>1, ConcatAdjacentSubSeq
  <2>4. SubSeq(url, 1, Len(url)) = url
    BY SubSeqFull
  <2> QED BY <1>3, <2>1, <2>2, <2>3, <2>4 DEF Cut
<1>10. SubSeq(url, 9, Len(url) - Len(path)) = named
  <2>1. Len(url) - Len(path) = e
    BY <1>3, <1>8
  <2> QED BY <2>1 DEF Cut
<1> HIDE DEF named, path
<1>11. path \in {u.path, <<>>} /\ (path = <<>> => u.path = <<Slash>>)
  BY <1>7, Zenon
<1> QED BY <1>5, <1>6, <1>9, <1>10, <1>11, Zenon DEF Names, u

-----------------------------------------------------------------------------
(* The fields of a request *)

\* Bytes that read as a field wherever they stand.
Writes(x, v) ==
  x \in Seq(Nat) /\ Len(x) >= 1 /\ \A d, p : Lies(x, d, p) => RfcField(d, p) = Read(v, p + Len(x))

\* What they are read as.
LEMMA WritesStatic ==
  ASSUME NEW index \in {15, 23}
  PROVE  Writes(wt_qpack_encode_static_index(index), RfcEntry(index)) /\ Len(wt_qpack_encode_static_index(index)) = 1
<1> DEFINE x == wt_qpack_encode_static_index(index)
<1>1. x \in Seq(Nat) /\ Len(x) = 1
  <2>1. IsPrefixed(x, Prefix(6), 192, index)
    BY PrefixedIs DEF wt_qpack_encode_static_index
  <2>2. Prefix(6) = 63
    BY PowersAre DEF Prefix
  <2>3. x = <<192 + index>>
    BY <2>1, <2>2 DEF IsPrefixed
  <2> QED BY <2>3
<1>2. \A d, p : Lies(x, d, p) => RfcField(d, p) = Read(RfcEntry(index), p + Len(x))
  BY StaticThere
<1> HIDE DEF x
<1> QED BY <1>1, <1>2 DEF Writes, x

\* A field with its name reads as it is.
LEMMA WritesHeader ==
  ASSUME NEW name \in Seq(Nat), Len(name) <= Huge, NEW value \in Seq(Nat), Len(value) <= Huge
  PROVE  Writes(wt_qpack_encode_header_field(<<name, value>>), <<name, value>>)
<1> DEFINE x == wt_qpack_encode_header_field(<<name, value>>)
<1>1. x \in Seq(Nat) /\ Len(x) >= 1
  BY HeaderFieldIs
<1>2. \A d, p : Lies(x, d, p) => RfcField(d, p) = Read(<<name, value>>, p + Len(x))
  BY HeaderThere
<1> HIDE DEF x
<1> QED BY <1>1, <1>2, Zenon DEF Writes, x

\* A field with the name of the static table reads with that name.
LEMMA WritesNamed ==
  ASSUME NEW index \in {0, 1}, NEW value \in Seq(Nat), Len(value) <= Huge
  PROVE  Writes(wt_qpack_encode_literal_with_static_name(index, value), <<RfcName(index), value>>)
<1> DEFINE x == wt_qpack_encode_literal_with_static_name(index, value)
<1>1. x \in Seq(Nat) /\ Len(x) >= 1
  BY NamedFieldIs
<1>2. \A d, p : Lies(x, d, p) => RfcField(d, p) = Read(<<RfcName(index), value>>, p + Len(x))
  BY NamedThere
<1> HIDE DEF x
<1> QED BY <1>1, <1>2, Zenon DEF Writes, x

\* The five fields are written in that many bytes, and each is read as it is.
LEMMA FieldsWritten ==
  ASSUME NEW authority \in Seq(Nat), Short(Len(authority)), NEW path \in Seq(Nat), Short(Len(path))
  PROVE  LET e == Written(authority, path)
             w == Wanted(authority, path)
         IN /\ e \in Seq(Seq(Nat)) /\ Len(e) = 5 /\ \A i \in 1..5 : Writes(e[i], w[i])
            /\ Len(FlattenSeq(e)) <= Few
<1> DEFINE e == Written(authority, path)
           w == Wanted(authority, path)
<1>1. /\ DOMAIN w = 1..5
      /\ w[1] = <<Method, Connect>> /\ w[2] = <<Protocol, WebTransport>> /\ w[3] = <<Scheme, HttpsScheme>>
      /\ w[4] = <<Authority, authority>> /\ w[5] = <<Path, path>>
  BY WantedIs
<1>2. /\ DOMAIN e = 1..5
      /\ e[1] = wt_qpack_encode_static_index(15)
      /\ e[2] = wt_qpack_encode_header_field(<<Protocol, WebTransport>>)
      /\ e[3] = wt_qpack_encode_static_index(23)
      /\ e[4] = wt_qpack_encode_literal_with_static_name(0, authority)
      /\ e[5] = wt_qpack_encode_literal_with_static_name(1, path)
  BY WrittenIs
<1>3. e = [i \in 1..5 |-> e[i]]
  BY <1>2 DEF Written
<1> HIDE DEF e, w
<1>4. /\ RfcEntry(15) = <<Method, Connect>> /\ RfcEntry(23) = <<Scheme, HttpsScheme>>
      /\ RfcName(0) = Authority /\ RfcName(1) = Path
  BY DEF RfcEntry, RfcName
<1>5. Writes(e[1], w[1]) /\ Len(e[1]) = 1
  BY <1>1, <1>2, <1>4, WritesStatic
<1>6. Writes(e[3], w[3]) /\ Len(e[3]) = 1
  BY <1>1, <1>2, <1>4, WritesStatic
<1>7. /\ Protocol \in Seq(Nat) /\ WebTransport \in Seq(Nat) /\ Short(Len(Protocol)) /\ Short(Len(WebTransport))
      /\ Len(Protocol) <= 12 /\ Len(WebTransport) <= 12
  <2>1. Protocol \in Texts /\ WebTransport \in Texts
    BY DEF Texts
  <2>2. /\ Protocol \in Seq(Nat) /\ Len(Protocol) <= 12
        /\ WebTransport \in Seq(Nat) /\ Len(WebTransport) <= 12
    BY <2>1, TextsAre
  <2>3. Len(Protocol) \in Nat /\ Len(WebTransport) \in Nat
    BY <2>2
  <2> QED BY <2>2, <2>3, ShortIs
<1>8. Writes(e[2], w[2]) /\ Len(e[2]) <= 30
  <2>1. Len(Protocol) <= Huge /\ Len(WebTransport) <= Huge /\ Small(Len(Protocol)) /\ Small(Len(WebTransport))
    BY <1>7, ShortIs
  <2>2. Writes(e[2], w[2])
    BY <1>1, <1>2, <1>7, <2>1, WritesHeader
  <2>3. Len(e[2]) <= Len(Protocol) + Len(WebTransport) + 6
    BY <1>2, <1>7, <2>1, HeaderFieldIs
  <2>4. Len(e[2]) \in Nat /\ Len(Protocol) \in Nat /\ Len(WebTransport) \in Nat
    BY <1>7, <2>2 DEF Writes
  <2> QED BY <1>7, <2>2, <2>3, <2>4
<1>9. Writes(e[4], w[4]) /\ Len(e[4]) <= 1029
  <2>1. Len(authority) \in Nat /\ Len(authority) <= Huge /\ Small(Len(authority)) /\ Len(authority) + 6 <= 1029
    BY ShortIs
  <2>2. Writes(e[4], w[4])
    BY <1>1, <1>2, <1>4, <2>1, WritesNamed
  <2>3. Len(e[4]) <= Len(authority) + 6
    BY <1>2, <2>1, NamedFieldIs
  <2>4. Len(e[4]) \in Nat
    BY <2>2 DEF Writes
  <2> QED BY <2>1, <2>2, <2>3, <2>4, SMT
<1>10. Writes(e[5], w[5]) /\ Len(e[5]) <= 1029
  <2>1. Len(path) \in Nat /\ Len(path) <= Huge /\ Small(Len(path)) /\ Len(path) + 6 <= 1029
    BY ShortIs
  <2>2. Writes(e[5], w[5])
    BY <1>1, <1>2, <1>4, <2>1, WritesNamed
  <2>3. Len(e[5]) <= Len(path) + 6
    BY <1>2, <2>1, NamedFieldIs
  <2>4. Len(e[5]) \in Nat
    BY <2>2 DEF Writes
  <2> QED BY <2>1, <2>2, <2>3, <2>4, SMT
<1>11. \A i \in 1..5 : Writes(e[i], w[i])
  <2>1. \A i \in 1..5 : i = 1 \/ i = 2 \/ i = 3 \/ i = 4 \/ i = 5
    OBVIOUS
  <2>2. Writes(e[1], w[1]) /\ Writes(e[2], w[2]) /\ Writes(e[3], w[3]) /\ Writes(e[4], w[4]) /\ Writes(e[5], w[5])
    BY <1>5, <1>6, <1>8, <1>9, <1>10, SMT
  <2> QED BY <2>1, <2>2
<1>12. e \in Seq(Seq(Nat)) /\ Len(e) = 5
  <2>1. \A i \in 1..5 : e[i] \in Seq(Nat)
    BY <1>11 DEF Writes
  <2>2. e \in [1..5 -> Seq(Nat)] /\ 5 \in Nat
    BY <1>3, <2>1
  <2> QED BY <2>2, LengthOf
<1>13. Len(FlattenSeq(e)) <= Few
  <2>1. EndIn(e, 0) = 0 /\ EndIn(e, 5) = Len(FlattenSeq(e))
    <3>1. EndIn(e, 0) = 0
      BY <1>12, EndSteps
    <3>2. EndIn(e, Len(e)) = Len(FlattenSeq(e))
      BY <1>12, EndSteps
    <3> QED BY <1>12, <3>1, <3>2
  <2>2. \A i \in 1..Len(e) : EndIn(e, i) = EndIn(e, i - 1) + Len(e[i])
    BY <1>12, EndSteps
  <2>3. /\ EndIn(e, 1) = EndIn(e, 0) + Len(e[1]) /\ EndIn(e, 2) = EndIn(e, 1) + Len(e[2])
        /\ EndIn(e, 3) = EndIn(e, 2) + Len(e[3]) /\ EndIn(e, 4) = EndIn(e, 3) + Len(e[4])
        /\ EndIn(e, 5) = EndIn(e, 4) + Len(e[5])
    <3>1. /\ 1 \in 1..Len(e) /\ 2 \in 1..Len(e) /\ 3 \in 1..Len(e) /\ 4 \in 1..Len(e) /\ 5 \in 1..Len(e)
          /\ 1 - 1 = 0 /\ 2 - 1 = 1 /\ 3 - 1 = 2 /\ 4 - 1 = 3 /\ 5 - 1 = 4
      BY <1>12
    <3> QED BY <2>2, <3>1
  <2>4. \A i \in 1..5 : Len(e[i]) \in Nat
    <3>1. \A i \in 1..5 : e[i] \in Seq(Nat)
      BY <1>11 DEF Writes
    <3>2. \A s \in Seq(Nat) : Len(s) \in Nat
      OBVIOUS
    <3> QED BY <3>1, <3>2
  <2>5. Len(e[1]) \in Nat /\ Len(e[2]) \in Nat /\ Len(e[3]) \in Nat /\ Len(e[4]) \in Nat /\ Len(e[5]) \in Nat
    BY <2>4
  <2>6. Len(e[1]) = 1 /\ Len(e[2]) <= 30 /\ Len(e[3]) = 1 /\ Len(e[4]) <= 1029 /\ Len(e[5]) <= 1029
    BY <1>5, <1>6, <1>8, <1>9, <1>10, SMT
  <2>7. EndIn(e, 1) = 0 + Len(e[1])
    BY <2>1, <2>3, <2>5
  <2>8. EndIn(e, 5) <= 2090
    <3> DEFINE a == EndIn(e, 1)
               b == EndIn(e, 2)
               c == EndIn(e, 3)
               d == EndIn(e, 4)
               f == EndIn(e, 5)
               k == Len(e[1])
               l == Len(e[2])
               m == Len(e[3])
               n == Len(e[4])
               o == Len(e[5])
    <3>1. /\ a = 0 + k /\ b = a + l /\ c = b + m /\ d = c + n /\ f = d + o
          /\ k \in Nat /\ l \in Nat /\ m \in Nat /\ n \in Nat /\ o \in Nat
      BY <2>3, <2>5, <2>7, Zenon
    <3>2. k = 1 /\ l <= 30 /\ m = 1 /\ n <= 1029 /\ o <= 1029
      BY <2>6, SMT
    <3> HIDE DEF a, b, c, d, f, k, l, m, n, o
    <3>3. f <= 2090
      BY <3>1, <3>2, FiveEnds
    <3> QED BY <3>3 DEF f
  <2>9. FlattenSeq(e) \in Seq(Nat)
    BY <1>12, EndSteps
  <2>10. Len(FlattenSeq(e)) \in Nat
    BY <2>9
  <2>11. \A n \in Nat : n <= 2090 => n <= Few
    BY SMT DEF Few
  <2> QED BY <2>1, <2>8, <2>10, <2>11
<1> QED BY <1>11, <1>12, <1>13 DEF e, w

\* What they are.
Told(lines) == [i \in DOMAIN lines |-> Fields(lines[i])]

\* A line is blank, or a name and a value.
LEMMA LineIs ==
  ASSUME NEW line \in Lines
  PROVE  \/ line = <<>> /\ HeaderLine(line) = <<>> /\ Fields(line) = <<>>
         \/ /\ line \in Pairs /\ line[1] \in Seq(Nat) /\ line[2] \in Seq(Nat) /\ line = <<line[1], line[2]>>
            /\ HeaderLine(line) = wt_qpack_encode_header_field(<<line[1], line[2]>>) /\ Fields(line) = <<line>>
<1>1. CASE line = <<>>
  BY <1>1, Zenon DEF HeaderLine, Fields
<1>2. CASE line # <<>>
  <2>1. line \in Seq(Nat) \X Seq(Nat)
    BY <1>2 DEF Lines
  <2>2. line[1] \in Seq(Nat) /\ line[2] \in Seq(Nat) /\ line = <<line[1], line[2]>>
    BY <2>1
  <2>3. HeaderLine(line) = wt_qpack_encode_header_field(line) /\ Fields(line) = <<line>>
    BY <1>2, Zenon DEF HeaderLine, Fields
  <2>4. wt_qpack_encode_header_field(line) = wt_qpack_encode_header_field(<<line[1], line[2]>>)
    BY <2>2, Zenon
  <2> QED BY <2>1, <2>2, <2>3, <2>4, Zenon DEF Pairs
<1> QED BY <1>1, <1>2

\* The types of them.
LEMMA LinesTyped ==
  ASSUME NEW lines \in Seq(Lines)
  PROVE  /\ Spelled(lines) \in Seq(Seq(Nat)) /\ Len(Spelled(lines)) = Len(lines)
         /\ Told(lines) \in Seq(Seq(Pairs)) /\ Len(Told(lines)) = Len(lines)
         /\ \A i \in 1..Len(lines) : /\ lines[i] \in Lines /\ Spelled(lines)[i] = HeaderLine(lines[i])
                                     /\ Told(lines)[i] = Fields(lines[i])
<1> DEFINE n == Len(lines)
<1>1. n \in Nat /\ DOMAIN lines = 1..n /\ \A i \in 1..n : lines[i] \in Lines
  OBVIOUS
<1> HIDE DEF n
<1>2. ASSUME NEW line \in Lines
      PROVE  HeaderLine(line) \in Seq(Nat) /\ Fields(line) \in Seq(Pairs)
  <2>1. <<>> \in Seq(Nat) /\ <<>> \in Seq(Pairs)
    OBVIOUS
  <2>2. line \in Pairs => <<line>> \in Seq(Pairs)
    OBVIOUS
  <2>3. CASE line = <<>> /\ HeaderLine(line) = <<>> /\ Fields(line) = <<>>
    BY <2>1, <2>3, Zenon
  <2>4. CASE /\ line \in Pairs /\ line[1] \in Seq(Nat) /\ line[2] \in Seq(Nat) /\ line = <<line[1], line[2]>>
             /\ HeaderLine(line) = wt_qpack_encode_header_field(<<line[1], line[2]>>) /\ Fields(line) = <<line>>
    <3> DEFINE a == line[1]
               b == line[2]
    <3>1. a \in Seq(Nat) /\ b \in Seq(Nat)
      BY <2>4
    <3> HIDE DEF a, b
    <3>2. wt_qpack_encode_header_field(<<a, b>>) \in Seq(Nat)
      BY <3>1, HeaderFieldIs
    <3> QED BY <2>2, <2>4, <3>2, Zenon DEF a, b
  <2> QED BY <2>3, <2>4, LineIs
<1>3. Spelled(lines) = [i \in 1..n |-> HeaderLine(lines[i])] /\ Told(lines) = [i \in 1..n |-> Fields(lines[i])]
  BY <1>1 DEF Spelled, Told
<1>4. Spelled(lines) \in [1..n -> Seq(Nat)] /\ Told(lines) \in [1..n -> Seq(Pairs)]
  BY <1>1, <1>2, <1>3
<1>5. Spelled(lines) \in Seq(Seq(Nat)) /\ Len(Spelled(lines)) = n
  BY <1>1, <1>4, LengthOf
<1>6. Told(lines) \in Seq(Seq(Pairs)) /\ Len(Told(lines)) = n
  BY <1>1, <1>4, LengthOf
<1>7. \A i \in 1..n : Spelled(lines)[i] = HeaderLine(lines[i]) /\ Told(lines)[i] = Fields(lines[i])
  BY <1>3
<1> QED BY <1>1, <1>5, <1>6, <1>7 DEF n

\* Each line is written so that it is read as it is, or not at all.
WritesOrNot(x, g) == (x = <<>> /\ g = <<>>) \/ \E v : g = <<v>> /\ Writes(x, v)

\* ... when all of them together have a length that can be written.
LEMMA LinesWritten ==
  ASSUME NEW lines \in Seq(Lines), Len(FlattenSeq(Spelled(lines))) <= Huge, NEW i \in 1..Len(lines)
  PROVE  WritesOrNot(Spelled(lines)[i], Told(lines)[i])
<1> DEFINE line == lines[i]
           e == Spelled(lines)
<1>1. line \in Lines /\ e[i] = HeaderLine(line) /\ Told(lines)[i] = Fields(line)
  BY LinesTyped
<1>2. e \in Seq(Seq(Nat)) /\ Len(e) = Len(lines)
  BY LinesTyped
<1>3. Len(e[i]) \in Nat /\ Len(e[i]) <= Len(FlattenSeq(e)) /\ Len(FlattenSeq(e)) \in Nat
  <2> HIDE DEF e
  <2> QED BY <1>2, MemberLen
<1>4. Len(e[i]) <= Huge
  <2>1. Huge \in Nat
    BY SMT DEF Huge
  <2> HIDE DEF e
  <2> QED BY <1>3, <2>1 DEF e
<1> HIDE DEF e, line
<1>5. CASE line = <<>> /\ HeaderLine(line) = <<>> /\ Fields(line) = <<>>
  BY <1>1, <1>5, Zenon DEF WritesOrNot, e
<1>6. CASE /\ line \in Pairs /\ line[1] \in Seq(Nat) /\ line[2] \in Seq(Nat) /\ line = <<line[1], line[2]>>
           /\ HeaderLine(line) = wt_qpack_encode_header_field(<<line[1], line[2]>>) /\ Fields(line) = <<line>>
  <2> DEFINE a == line[1]
             b == line[2]
  <2>1. a \in Seq(Nat) /\ b \in Seq(Nat) /\ line = <<a, b>> /\ e[i] = wt_qpack_encode_header_field(<<a, b>>)
    BY <1>1, <1>6
  <2> HIDE DEF a, b
  <2>2. Len(a) <= Len(e[i]) /\ Len(b) <= Len(e[i]) /\ Len(a) \in Nat /\ Len(b) \in Nat
    BY <2>1, HeaderFieldIs
  <2>3. Len(a) <= Huge /\ Len(b) <= Huge
    <3>1. Huge \in Nat
      BY SMT DEF Huge
    <3> QED BY <1>3, <1>4, <2>2, <3>1
  <2>4. Writes(e[i], line)
    BY <2>1, <2>3, WritesHeader
  <2>5. Told(lines)[i] = <<line>>
    BY <1>1, <1>6
  <2> QED BY <2>4, <2>5, Zenon DEF WritesOrNot, e
<1> QED BY <1>1, <1>5, <1>6, LineIs

\* Written one after the other, parts read as what they are written for.
LEMMA WrittenParts ==
  ASSUME NEW e \in Seq(Seq(Nat)), NEW g, NEW data, Lies(FlattenSeq(e), data, 2),
         \A i \in 1..Len(e) : WritesOrNot(e[i], g[i])
  PROVE  Parts(data, e, g)
<1>1. \A i \in 1..Len(e) : Lies(e[i], data, 2 + EndIn(e, i - 1))
  BY MembersLie
<1>2. \A i \in 1..Len(e) : EndIn(e, i) = EndIn(e, i - 1) + Len(e[i])
  BY EndSteps
<1>3. \A i \in 0..Len(e) : EndIn(e, i) \in Nat
  BY EndSteps
<1> SUFFICES ASSUME NEW i \in 1..Len(e), ~(e[i] = <<>> /\ g[i] = <<>>)
             PROVE  \E v : /\ g[i] = <<v>> /\ Len(e[i]) >= 1
                           /\ RfcField(data, 2 + EndIn(e, i - 1)) = Read(v, 2 + EndIn(e, i))
  BY DEF Parts
<1>4. PICK v : g[i] = <<v>> /\ Writes(e[i], v)
  BY DEF WritesOrNot
<1> DEFINE p == 2 + EndIn(e, i - 1)
<1>5. i - 1 \in 0..Len(e) /\ e[i] \in Seq(Nat)
  OBVIOUS
<1>6. p + Len(e[i]) = 2 + EndIn(e, i)
  <2>1. EndIn(e, i - 1) \in Nat /\ Len(e[i]) \in Nat /\ EndIn(e, i) = EndIn(e, i - 1) + Len(e[i])
    BY <1>2, <1>3, <1>5
  <2> DEFINE x == EndIn(e, i - 1)
             y == EndIn(e, i)
             l == Len(e[i])
  <2>2. x \in Nat /\ l \in Nat /\ y = x + l /\ p = 2 + x
    BY <2>1
  <2> HIDE DEF x, y, l, p
  <2>3. p + l = 2 + y
    BY <2>2
  <2> QED BY <2>3 DEF y, l
<1>7. Lies(e[i], data, p)
  BY <1>1
<1> HIDE DEF p
<1>8. RfcField(data, p) = Read(v, p + Len(e[i])) /\ Len(e[i]) >= 1
  BY <1>4, <1>7, Zenon DEF Writes
<1> QED BY <1>4, <1>6, <1>8 DEF p

\* The section of a request reads as its fields and the caller's headers.
BlockMeant(b, authority, path, lines) ==
  /\ b \in Seq(Nat) /\ b # <<>> /\ Len(b) <= Huge
  /\ RfcFields(b) = Wanted(authority, path) \o FlattenSeq(Told(lines))

\* ... for any authority, path and headers.
LEMMA BlockReads ==
  ASSUME NEW authority \in Seq(Nat), Short(Len(authority)), NEW path \in Seq(Nat), Short(Len(path)),
         NEW lines \in Seq(Lines), ~Nameless(lines),
         Len(wt_http3_append_serialized_headers(<<>>, lines)) <= LongHeaders
  PROVE  BlockMeant(Block(authority, path, lines), authority, path, lines)
<1> DEFINE w == Wanted(authority, path)
           e5 == Written(authority, path)
           el == Spelled(lines)
           g5 == [i \in 1..5 |-> <<w[i]>>]
           gl == Told(lines)
           e == e5 \o el
           g == g5 \o gl
           f == FlattenSeq(e)
           b == Block(authority, path, lines)
           n == Len(lines)
<1>1. /\ e5 \in Seq(Seq(Nat)) /\ Len(e5) = 5 /\ \A i \in 1..5 : Writes(e5[i], w[i])
      /\ Len(FlattenSeq(e5)) <= Few
  BY FieldsWritten
<1>2. el \in Seq(Seq(Nat)) /\ Len(el) = n /\ gl \in Seq(Seq(Pairs)) /\ Len(gl) = n /\ n \in Nat
  <2>1. n \in Nat
    OBVIOUS
  <2> QED BY <2>1, LinesTyped
<1>3. w \in Seq(Pairs) /\ Len(w) = 5
  BY WantedTyped
<1> HIDE DEF w, e5, el, gl, n, b
<1>4. g5 \in Seq(Seq(Pairs)) /\ Len(g5) = 5 /\ \A i \in 1..5 : g5[i] = <<w[i]>>
  <2>1. \A i \in 1..5 : w[i] \in Pairs
    <3>1. \A i \in 1..Len(w) : w[i] \in Pairs
      <4>1. w \in Seq(Pairs)
        BY <1>3
      <4> QED BY <4>1, ElementOfSeq
    <3> QED BY <1>3, <3>1
  <2>2. \A v \in Pairs : <<v>> \in Seq(Pairs)
    OBVIOUS
  <2>3. g5 \in [1..5 -> Seq(Pairs)] /\ 5 \in Nat
    BY <2>1, <2>2
  <2>4. \A i \in 1..5 : g5[i] = <<w[i]>>
    OBVIOUS
  <2> HIDE DEF g5
  <2> QED BY <2>3, <2>4, LengthOf
<1> HIDE DEF g5
<1>5. FlattenSeq(e5) \in Seq(Nat) /\ FlattenSeq(el) \in Seq(Nat)
  BY <1>1, <1>2, EndSteps
<1>6. f = FlattenSeq(e5) \o FlattenSeq(el)
  BY <1>1, <1>2, FlattenBoth
<1>7. FlattenSeq(g) = w \o FlattenSeq(gl)
  <2>1. FlattenSeq(g5) = w
    BY <1>3, <1>4, FlattenOnes
  <2>2. FlattenSeq(g) = FlattenSeq(g5) \o FlattenSeq(gl)
    BY <1>2, <1>4, FlattenBoth
  <2> QED BY <2>1, <2>2
<1>8. JoinedAs(Seq(Nat), e5, el, 5, n)
  BY <1>1, <1>2, JoinedIs
<1>9. JoinedAs(Seq(Pairs), g5, gl, 5, n)
  BY <1>2, <1>4, JoinedIs
<1>10. /\ e \in Seq(Seq(Nat)) /\ Len(e) = 5 + n
       /\ \A i \in 1..(5 + n) : e[i] = IF i <= 5 THEN e5[i] ELSE el[i - 5]
  BY <1>8, Zenon DEF JoinedAs
<1>11. /\ g \in Seq(Seq(Pairs)) /\ Len(g) = 5 + n
       /\ \A i \in 1..(5 + n) : g[i] = IF i <= 5 THEN g5[i] ELSE gl[i - 5]
  BY <1>9, Zenon DEF JoinedAs
<1>12. Len(FlattenSeq(el)) <= LongHeaders /\ Len(FlattenSeq(el)) \in Nat
  <2>1. wt_http3_append_serialized_headers(<<>>, lines) = <<>> \o FlattenSeq(el)
    BY BlockIs DEF el
  <2>2. <<>> \o FlattenSeq(el) = FlattenSeq(el)
    BY <1>5, ConcatEmptySeq
  <2>3. Len(FlattenSeq(el)) \in Nat
    BY <1>5
  <2> QED BY <2>1, <2>2, <2>3
<1>13. Len(FlattenSeq(el)) <= Huge
  <2>1. \A k \in Nat : k <= LongHeaders => k <= Huge
    BY SMT DEF LongHeaders, Huge
  <2> QED BY <1>12, <2>1
<1>14. \A i \in 1..n : WritesOrNot(el[i], gl[i])
  BY <1>13, LinesWritten DEF el, gl, n
<1> HIDE DEF e, g
<1>15. \A i \in 1..Len(e) : WritesOrNot(e[i], g[i])
  <2> SUFFICES ASSUME NEW i \in 1..(5 + n)
               PROVE  WritesOrNot(e[i], g[i])
    BY <1>10
  <2>1. CASE i <= 5
    <3>1. i \in 1..5
      BY <1>2, <2>1
    <3>2. e[i] = e5[i] /\ g[i] = <<w[i]>> /\ Writes(e5[i], w[i])
      BY <1>1, <1>4, <1>10, <1>11, <2>1, <3>1
    <3> QED BY <3>2, Zenon DEF WritesOrNot
  <2>2. CASE ~(i <= 5)
    <3>1. i - 5 \in 1..n
      BY <1>2, <2>2
    <3>2. e[i] = el[i - 5] /\ g[i] = gl[i - 5]
      BY <1>10, <1>11, <2>2
    <3> QED BY <1>14, <3>1, <3>2
  <2> QED BY <2>1, <2>2
<1>16. f \in Seq(Nat)
  BY <1>10, EndSteps
<1> DEFINE z == <<0, 0>>
<1>17. z \in Seq(Nat) /\ Len(z) = 2
  OBVIOUS
<1>18. b = z \o f
  <2>1. b = (z \o FlattenSeq(e5)) \o FlattenSeq(el)
    BY BlockIs DEF b, e5, el
  <2> HIDE DEF z
  <2>2. Grouping(Nat, z, FlattenSeq(e5), FlattenSeq(el))
    BY <1>5, <1>17, Moved
  <2> QED BY <1>6, <2>1, <2>2, Zenon DEF Grouping
<1> HIDE DEF z, f
<1>19. JoinedAs(Nat, z, f, 2, Len(f))
  BY <1>16, <1>17, JoinedIs
<1>20. b \in Seq(Nat) /\ Len(b) = 2 + Len(f)
  BY <1>18, <1>19, Zenon DEF JoinedAs
<1>21. Lies(f, b, 2)
  <2>1. Lies(b, b, 0)
    BY <1>20, LiesWhole
  <2>2. Lies(z \o f, b, 0)
    BY <1>18, <2>1
  <2>3. Lies(f, b, 0 + Len(z))
    BY <1>16, <1>17, <2>2, LiesParts
  <2> QED BY <1>17, <2>3
<1>22. Parts(b, e, g)
  BY <1>10, <1>15, <1>21, WrittenParts DEF f
<1>23. RfcFields(b) = FlattenSeq(g)
  <2>1. Len(g) = Len(e)
    BY <1>10, <1>11
  <2>2. Len(b) = 2 + Len(FlattenSeq(e))
    BY <1>20 DEF f
  <2> QED BY <1>10, <1>11, <1>20, <1>22, <2>1, <2>2, SectionReads
<1>24. Len(b) <= Huge
  <2>1. Len(f) = Len(FlattenSeq(e5)) + Len(FlattenSeq(el))
    <3> DEFINE x == FlattenSeq(e5)
               y == FlattenSeq(el)
    <3>1. x \in Seq(Nat) /\ y \in Seq(Nat) /\ f = x \o y
      BY <1>5, <1>6 DEF f
    <3> HIDE DEF x, y
    <3>2. Len(x \o y) = Len(x) + Len(y)
      BY <3>1, ConcatProperties
    <3> QED BY <3>1, <3>2 DEF x, y
  <2>2. Len(FlattenSeq(e5)) \in Nat
    BY <1>5
  <2>3. \A k, l \in Nat : k <= Few /\ l <= LongHeaders => 2 + (k + l) <= Huge
    BY SMT DEF Few, LongHeaders, Huge
  <2> QED BY <1>1, <1>12, <1>20, <2>1, <2>2, <2>3
<1>25. b # <<>>
  <2>1. Len(f) \in Nat
    BY <1>16
  <2>2. Len(b) # 0
    BY <1>20, <2>1
  <2> QED BY <2>2
<1> QED BY <1>7, <1>20, <1>23, <1>24, <1>25, Zenon DEF BlockMeant, b, w, gl

\* What a request is read as.
RequestRead(r, authority, path, lines) ==
  /\ FrameAt(r, 0).end = Len(r) /\ FrameAt(r, 0).value.type = HEADERS
  /\ RfcFields(FrameAt(r, 0).value.payload) = Wanted(authority, path) \o FlattenSeq(Told(lines))

\* A request is bytes, and it is read as what it was made of.
LEMMA RequestIs ==
  ASSUME NEW authority \in Seq(Nat), authority # <<>>, Short(Len(authority)),
         NEW path \in Seq(Nat), path # <<>>, Short(Len(path)),
         NEW lines \in Seq(Lines), Len(wt_http3_append_serialized_headers(<<>>, lines)) <= LongHeaders
  PROVE  LET r == wt_http3_encode_webtransport_connect(authority, path, lines) IN
         r \in Seq(Nat) /\ (r # <<>> => RequestRead(r, authority, path, lines))
<1> DEFINE r == wt_http3_encode_webtransport_connect(authority, path, lines)
           b == Block(authority, path, lines)
<1>1. r = IF b = <<>> THEN <<>> ELSE Frame(HEADERS, b)
  <2>1. r = IF authority = <<>> \/ path = <<>> \/ b = <<>> THEN <<>> ELSE Frame(HEADERS, b)
    BY Zenon DEF wt_http3_encode_webtransport_connect, Block, Wanted
  <2> HIDE DEF r, b
  <2> QED BY <2>1, Zenon
<1>2. CASE Nameless(lines)
  <2>1. b = <<>>
    BY <1>2, BlockIs
  <2> HIDE DEF r, b
  <2>2. r = <<>> /\ <<>> \in Seq(Nat)
    BY <1>1, <2>1
  <2> QED BY <2>2 DEF r
<1>3. CASE ~Nameless(lines)
  <2>1. BlockMeant(b, authority, path, lines)
    BY <1>3, BlockReads
  <2>2. b \in Seq(Nat) /\ b # <<>> /\ Len(b) <= Huge
        /\ RfcFields(b) = Wanted(authority, path) \o FlattenSeq(Told(lines))
    BY <2>1, Zenon DEF BlockMeant
  <2> HIDE DEF r, b
  <2>3. r = Frame(HEADERS, b)
    BY <1>1, <2>2
  <2>4. HEADERS \in Nat /\ HEADERS <= Huge
    BY SMT DEF HEADERS, Huge
  <2>5. r \in Seq(Nat) /\ Len(r) = FrameLength(HEADERS, b)
    BY <2>2, <2>3, <2>4, FrameIs
  <2>6. Lies(Frame(HEADERS, b), r, 0)
    BY <2>3, <2>5, LiesWhole
  <2>7. Len(r) = 0 + FrameLength(HEADERS, b)
    <3>1. Len(r) \in Nat
      BY <2>5
    <3> QED BY <2>5, <3>1
  <2>8. FrameAt(r, 0) = Framed(HEADERS, b, Len(r))
    BY <2>2, <2>4, <2>6, <2>7, FrameThere
  <2>9. /\ FrameAt(r, 0).end = Len(r) /\ FrameAt(r, 0).value.type = HEADERS
        /\ FrameAt(r, 0).value.payload = b
    <3>1. Framed(HEADERS, b, Len(r)) = Read([type |-> HEADERS, payload |-> b], Len(r))
      BY DEF Framed
    <3> DEFINE v == [type |-> HEADERS, payload |-> b]
    <3>2. v.type = HEADERS /\ v.payload = b
      OBVIOUS
    <3> HIDE DEF v
    <3>3. Read(v, Len(r)).value = v /\ Read(v, Len(r)).end = Len(r)
      BY ReadIs
    <3> QED BY <2>8, <3>1, <3>2, <3>3 DEF v
  <2>10. RequestRead(r, authority, path, lines)
    BY <2>2, <2>9, Zenon DEF RequestRead
  <2> QED BY <2>5, <2>10 DEF r
<1> QED BY <1>2, <1>3

\* What the request of a connect is made of.
LEMMA OfConnect ==
  ASSUME NEW c \in Attempts, wt_url_parse_https(Urls[c]).ok
  PROVE  LET u == wt_url_parse_https(Urls[c]) IN
         /\ AuthorityOf(u) \in Seq(Nat) /\ AuthorityOf(u) # <<>> /\ Short(Len(AuthorityOf(u)))
         /\ u.path \in Seq(Nat) /\ u.path # <<>> /\ Short(Len(u.path))
<1> DEFINE url == Urls[c]
           u == wt_url_parse_https(url)
<1>1. url \in Seq(Nat)
  <2>1. Urls \in Seq(Seq(Nat))
    BY HandshakeAssumption
  <2>2. c \in 1..Len(Urls)
    BY DEF Attempts
  <2> QED BY <2>1, <2>2, ElementOfSeq
<1>2. u.ok
  OBVIOUS
<1> HIDE DEF url
<1>3. PICK h, e : Parted(url, h, e) /\ Taken(u, url, h, e)
  BY <1>1, <1>2, UrlIs
<1> HIDE DEF u
<1>4. /\ u.host \in Seq(Nat) /\ Len(u.host) = h - 8 /\ Port(u.port)
      /\ u.path \in Seq(Nat) /\ u.path # <<>> /\ Len(u.path) <= 1023
  BY <1>3, UrlTyped
<1>5. h \in Nat /\ 9 <= h /\ h <= 263
  BY <1>3, SMT DEF Parted
<1> DEFINE n == h - 8
           l == DigitsFor(u.port)
<1>6. n \in 1..255 /\ Len(u.host) = n
  BY <1>4, <1>5
<1> HIDE DEF n, l
<1>7. IsAuthority(AuthorityOf(u), u, n, l)
  BY <1>4, <1>6, AuthorityIs DEF l
<1>8. AuthorityOf(u) \in Seq(Nat) /\ AuthorityOf(u) # <<>> /\ Len(AuthorityOf(u)) <= 263
  BY <1>7, Zenon DEF IsAuthority
<1>9. Len(AuthorityOf(u)) \in Nat /\ Len(u.path) \in Nat
  BY <1>4, <1>8
<1>10. Short(Len(AuthorityOf(u))) /\ Short(Len(u.path))
  <2>1. \A k \in Nat : k <= 1023 => Short(k)
    BY SMT DEF Short
  <2>2. \A k \in Nat : k <= 263 => k <= 1023
    BY SMT
  <2> QED BY <1>4, <1>8, <1>9, <2>1, <2>2, SMT
<1> QED BY <1>4, <1>8, <1>10 DEF u, url

\* The URL and the headers of a connect.
LEMMA HeadersOf ==
  ASSUME NEW c \in Attempts
  PROVE  /\ Headers[c] \in Seq(Lines)
         /\ Len(wt_http3_append_serialized_headers(<<>>, Headers[c])) <= LongHeaders
         /\ Urls[c] \in Seq(Nat)
<1>1. /\ Headers \in Seq(Seq(Lines)) /\ Len(Headers) = Len(Urls) /\ Urls \in Seq(Seq(Nat))
      /\ \A i \in DOMAIN Headers : Len(wt_http3_append_serialized_headers(<<>>, Headers[i])) <= LongHeaders
  BY HandshakeAssumption DEF Lines
<1>2. c \in 1..Len(Urls) /\ c \in 1..Len(Headers) /\ DOMAIN Headers = 1..Len(Headers)
  BY <1>1 DEF Attempts
<1>3. Headers[c] \in Seq(Lines)
  BY <1>1, <1>2, ElementOfSeq
<1>4. Urls[c] \in Seq(Nat)
  BY <1>1, <1>2, ElementOfSeq
<1> QED BY <1>1, <1>2, <1>3, <1>4

\* A request for the URL and with the headers of a connect is read as that.
THEOREM RequestIsMeant ==
  ASSUME NEW c \in Attempts, wt_url_parse_https(Urls[c]).ok,
         NEW r, r = wt_http3_encode_webtransport_connect(
                      AuthorityOf(wt_url_parse_https(Urls[c])), wt_url_parse_https(Urls[c]).path, Headers[c]),
         r # <<>>
  PROVE  RequestMeant(r, c)
<1> DEFINE u == wt_url_parse_https(Urls[c])
           authority == AuthorityOf(u)
           path == u.path
           lines == Headers[c]
           w == Wanted(authority, path)
           f == FlattenSeq(Told(lines))
           frame == FrameAt(r, 0)
           s == w \o f
<1>1. /\ authority \in Seq(Nat) /\ authority # <<>> /\ Short(Len(authority))
      /\ path \in Seq(Nat) /\ path # <<>> /\ Short(Len(path))
  BY OfConnect
<1>2. lines \in Seq(Lines) /\ Len(wt_http3_append_serialized_headers(<<>>, lines)) <= LongHeaders
  BY HeadersOf
<1>3. Names(authority, path, Urls[c])
  BY HeadersOf, NamesIt
<1>4. r = wt_http3_encode_webtransport_connect(authority, path, lines)
  OBVIOUS
<1> HIDE DEF authority, path, lines
<1>5. RequestRead(r, authority, path, lines)
  BY <1>1, <1>2, <1>4, RequestIs
<1>6. frame.end = Len(r) /\ frame.value.type = HEADERS /\ RfcFields(frame.value.payload) = s
  BY <1>5, Zenon DEF RequestRead
<1>7. w \in Seq(Pairs) /\ Len(w) = 5
  BY <1>1, WantedTyped
<1>8. f \in Seq(Pairs)
  <2>1. Told(lines) \in Seq(Seq(Pairs))
    BY <1>2, LinesTyped
  <2> DEFINE t == Told(lines)
  <2>2. t \in Seq(Seq(Pairs))
    BY <2>1
  <2> HIDE DEF t
  <2>3. FlattenSeq(t) \in Seq(Pairs)
    BY <2>2, EndSteps
  <2> QED BY <2>3 DEF t
<1>9. /\ w[1] = <<Method, Connect>> /\ w[2] = <<Protocol, WebTransport>> /\ w[3] = <<Scheme, HttpsScheme>>
      /\ w[4] = <<Authority, authority>> /\ w[5] = <<Path, path>>
  BY WantedIs
<1> HIDE DEF w, f
<1>10. /\ SubSeq(s, 1, 3) = <<w[1], w[2], w[3]>> /\ s[4] = w[4] /\ s[5] = w[5]
       /\ SubSeq(s, 6, Len(s)) = f
  BY <1>7, <1>8, Apart5
<1> HIDE DEF s, frame
<1>11. s[4][1] = Authority /\ s[4][2] = authority /\ s[5][1] = Path /\ s[5][2] = path
  <2>1. \A a, b : <<a, b>>[1] = a /\ <<a, b>>[2] = b
    OBVIOUS
  <2>2. s[4] = <<Authority, authority>> /\ s[5] = <<Path, path>>
    BY <1>9, <1>10
  <2>3. <<Authority, authority>>[1] = Authority /\ <<Authority, authority>>[2] = authority
    BY <2>1
  <2>4. <<Path, path>>[1] = Path /\ <<Path, path>>[2] = path
    BY <2>1
  <2> QED BY <2>2, <2>3, <2>4
<1>12. f = FlattenSeq([i \in DOMAIN Headers[c] |-> Fields(Headers[c][i])])
  BY Zenon DEF f, Told, lines
<1>13. Names(s[4][2], s[5][2], Urls[c])
  BY <1>3, <1>11, Zenon
<1>14. SubSeq(s, 1, 3) = << <<Method, Connect>>, <<Protocol, WebTransport>>, <<Scheme, HttpsScheme>> >>
  BY <1>9, <1>10, Zenon
<1>15. SubSeq(s, 6, Len(s)) = FlattenSeq([i \in DOMAIN Headers[c] |-> Fields(Headers[c][i])])
  BY <1>10, <1>12, Zenon
<1>16. frame.end = Len(r) /\ frame.value.type = HEADERS
  BY <1>6
<1>17. s = RfcFields(FrameAt(r, 0).value.payload) /\ frame = FrameAt(r, 0)
  BY <1>6 DEF frame
<1> QED BY <1>11, <1>13, <1>14, <1>15, <1>16, <1>17, Zenon DEF RequestMeant

-----------------------------------------------------------------------------
(* The settings *)

\* They are bytes, and a server finds what WebTransport needs.
LEMMA ControlIs == ControlBytes \in Seq(Nat) /\ SettingsMeant(ControlBytes)
<1> DEFINE z == wt_http3_encode_varint(0)
           f == wt_http3_encode_client_settings(TRUE)
<1>1. z = <<0>>
  <2>1. Width(0) = 1
    BY DEF Width
  <2>2. z \in Seq(Bytes) /\ Len(z) = 1 /\ z[1] = Above(0, 1 - 1) + Mark(1)
    BY <2>1, EncodedIs
  <2>3. z[1] = 0
    BY <2>2, Marks DEF Above
  <2> HIDE DEF z
  <2> QED BY <2>2, <2>3
<1>2. f \in Seq(Nat) /\ wt_http3_parse_settings(f) = WANTED
  BY SettingsRead
<1> HIDE DEF z, f
<1>3. z \o f \in Seq(Nat) /\ Head(z \o f) = 0 /\ Tail(z \o f) = f
  BY <1>1, <1>2
<1>4. ControlBytes = z \o f
  BY DEF ControlBytes, z, f
<1>5. wt_http3_validate_peer_settings(wt_http3_parse_settings(f))
  BY <1>2 DEF wt_http3_validate_peer_settings
<1> QED BY <1>3, <1>4, <1>5 DEF SettingsMeant

-----------------------------------------------------------------------------
(* The URL and the authority of a connect *)

\* A URL that can be parsed.
IsValid(c) == wt_url_parse_https(Urls[c]).ok

\* The URL and the authority in the context were parsed, there is no connection and no request
\* stream without them, and those of the last connect are for its own.
Prepared ==
  /\ context.url # 0 => IsValid(context.url)
  /\ context.authority # 0 => IsValid(context.authority)
  /\ context.connection # 0 \/ context.request # 0 => context.url # 0 /\ context.authority # 0
  /\ caller.pc = "name" => context.url = attempt
  /\ \/ caller.pc \in {"close", "open", "start"}
     \/ context.connection = attempt
     \/ context.request = attempt
     => context.url = attempt /\ context.authority = attempt

\* No connect was made at the beginning.
LEMMA PreparedInit == Init => Prepared
BY DEF Init, NoContext, Prepared, attempt

\* The callbacks leave the URL and the authority, and open a request on the connection.
LEMMA PreparedSteps ==
  ASSUME Typed
  PROVE  \A c \in Attempts : Callbacks(c) \/ Steps(c) =>
           /\ context'.url = context.url /\ context'.authority = context.authority
           /\ context'.connection = context.connection /\ caller' = caller
           /\ context'.request \in {context.request, context.connection}
<1>0. context \in Context
  BY DEF Typed
<1> SUFFICES ASSUME NEW c \in Attempts, Callbacks(c) \/ Steps(c)
             PROVE  /\ context'.url = context.url /\ context'.authority = context.authority
                    /\ context'.connection = context.connection /\ caller' = caller
                    /\ context'.request \in {context.request, context.connection}
  OBVIOUS
<1>1. CASE Callbacks(c)
  BY <1>1 DEF Callbacks, Connected, ConnectionEnds, StreamStarted, ServerAnswers, Received, DatagramReceived,
     handshake
<1>2. CASE OpenControl(c)
  BY <1>0, <1>2 DEF OpenControl, Context
<1>3. CASE OpenRequest(c)
  BY <1>0, <1>3 DEF OpenRequest, Context
<1>4. CASE MarkReady(c)
  BY <1>0, <1>4 DEF MarkReady, Context
<1>5. CASE TryEmit(c)
  BY <1>0, <1>5 DEF TryEmit, Context
<1>6. CASE ProcessRequestStream(c)
  BY <1>0, <1>6 DEF ProcessRequestStream, Context
<1>7. CASE SendSettings(c) \/ SendRequest(c) \/ DeliverDatagram(c) \/ EmitError(c) \/ PushEvent(c)
  BY <1>7 DEF SendSettings, SendRequest, DeliverDatagram, EmitError, PushEvent
<1> QED BY <1>1, <1>2, <1>3, <1>4, <1>5, <1>6, <1>7 DEF Steps

\* A connect parses its URL before anything is made of it.
LEMMA PreparedNext ==
  ASSUME Typed, Numbered, Prepared, [Next]_vars
  PROVE  Prepared'
<1>a. /\ attempt \in Nat /\ attempt = caller.attempt /\ context \in Context /\ attempt' = caller'.attempt
      /\ context.connection \in Nat /\ context.request \in Nat
      /\ caller \in [pc : {"idle", "reset", "name", "close", "open", "start"}, attempt : Numbers, replaced : Numbers]
      /\ context.connection <= attempt /\ context.request <= attempt
      /\ caller.pc # "idle" => attempt # 0
      /\ caller.pc \in {"reset", "name", "close", "open"} => context.connection < attempt /\ context.request < attempt
  BY Constants DEF Typed, attempt, Context, Numbered
<1>1. CASE wt_client_connect
  <2>1. /\ attempt' = attempt + 1 /\ caller'.pc = "reset"
        /\ context'.connection = context.connection /\ context'.request = context.request
        /\ context'.url = context.url /\ context'.authority = context.authority
    BY <1>1, <1>a DEF wt_client_connect, Context
  <2>2. context.connection # attempt + 1 /\ context.request # attempt + 1
    BY <1>a
  <2> QED BY <2>1, <2>2 DEF Prepared
<1>2. CASE ConnectRefused
  <2>1. attempt' = attempt /\ caller'.pc = "idle" /\ context' = context
    BY <1>2, <1>a DEF ConnectRefused, Goto, handshake
  <2> QED BY <2>1 DEF Prepared
<1>3. CASE ConnectResets
  <2>1. caller.pc = "reset" /\ attempt' = attempt /\ caller'.pc \in {"idle", "name"} /\ IsValid(attempt)
    BY <1>3, <1>a DEF ConnectResets, Goto, IsValid
  <2>2. /\ Cleared.url = attempt /\ Cleared.authority = context.authority
        /\ Cleared.connection = context.connection /\ Cleared.request = context.request
        /\ [Cleared EXCEPT !.connection = 0].connection = 0
        /\ [Cleared EXCEPT !.connection = 0].request = context.request
        /\ [Cleared EXCEPT !.connection = 0].url = attempt
        /\ [Cleared EXCEPT !.connection = 0].authority = context.authority
    BY <1>a DEF Cleared, Context
  <2>3. /\ context'.connection \in {0, context.connection} /\ context'.request = context.request
        /\ context'.url = attempt /\ context'.authority = context.authority
    BY <1>3, <2>2 DEF ConnectResets
  <2>4. context.connection # attempt /\ context.request # attempt /\ attempt # 0
    BY <1>a, <2>1
  <2> QED BY <2>1, <2>3, <2>4 DEF Prepared
<1>4. CASE ConnectNames
  <2>1. /\ caller.pc = "name" /\ attempt' = attempt /\ caller'.pc \in {"open", "close"}
        /\ context'.connection = context.connection /\ context'.request = context.request
        /\ context'.url = context.url /\ context'.authority = attempt
    BY <1>4, <1>a DEF ConnectNames, Goto, Context
  <2>2. attempt # 0
    BY <1>a, <2>1
  <2> QED BY <2>1, <2>2 DEF Prepared
<1>5. CASE ConnectReplaces
  <2>1. caller.pc = "close" /\ attempt' = attempt /\ caller'.pc = "open" /\ context' = context
    BY <1>5, <1>a DEF ConnectReplaces, Goto, handshake
  <2> QED BY <2>1 DEF Prepared
<1>6. CASE ConnectOpens
  <2>1. /\ caller.pc = "open" /\ attempt' = attempt /\ caller'.pc \in {"idle", "start"}
        /\ context'.connection \in {context.connection, attempt} /\ context'.request = context.request
        /\ context'.url = context.url /\ context'.authority = context.authority
    BY <1>6, <1>a DEF ConnectOpens, Goto, Context
  <2>2. attempt # 0
    BY <1>a, <2>1
  <2> QED BY <2>1, <2>2 DEF Prepared
<1>7. CASE ConnectStarts
  <2>1. /\ caller.pc = "start" /\ attempt' = attempt /\ caller'.pc = "idle"
        /\ context'.connection \in {context.connection, 0} /\ context'.request = context.request
        /\ context'.url = context.url /\ context'.authority = context.authority
    BY <1>7, <1>a DEF ConnectStarts, Goto, Context
  <2>2. attempt # 0
    BY <1>a, <2>1
  <2> QED BY <2>1, <2>2 DEF Prepared
<1>8. CASE wt_msquic_shutdown
  <2>1. /\ caller' = caller /\ context'.connection = context.connection
        /\ context'.request = context.request
        /\ context'.url = context.url /\ context'.authority = context.authority
    BY <1>8, <1>a DEF wt_msquic_shutdown, Context
  <2> QED BY <1>a, <2>1 DEF Prepared
<1>9. CASE UNCHANGED vars
  <2>1. caller' = caller /\ context' = context
    BY <1>9 DEF vars
  <2> QED BY <1>a, <2>1 DEF Prepared
<1>10. ASSUME NEW c \in Attempts, Callbacks(c) \/ Steps(c)
       PROVE  Prepared'
  <2>1. /\ context'.url = context.url /\ context'.authority = context.authority
        /\ context'.connection = context.connection /\ caller' = caller
        /\ context'.request \in {context.request, context.connection}
    BY <1>10, PreparedSteps
  <2> QED BY <1>a, <2>1 DEF Prepared
<1> QED BY <1>1, <1>2, <1>3, <1>4, <1>5, <1>6, <1>7, <1>8, <1>9, <1>10 DEF Next, Connecting

-----------------------------------------------------------------------------
(* What is sent and what is delivered *)

\* The request for the URL, the authority and the headers in the context.
RequestOf(state) ==
  wt_http3_encode_webtransport_connect(AuthorityOf(wt_url_parse_https(Urls[state.authority])),
                                       wt_url_parse_https(Urls[state.url]).path, Headers[state.url])

\* The bytes sent on a connection.
Streamed == [control : Seq(Nat), request : Seq(Nat)]

\* The datagrams queued.
Queued == [connection : Attempts, session : Attempts, payload : Seq(Nat)]

\* The types of the variables that are not in Typed.
SentTyped == wire \in [Attempts -> Streamed] /\ delivered \in SUBSET Queued

\* What is sent on a connection: its settings, or a request.
WireChanges ==
  \/ wire' = wire
  \/ wire' = [wire EXCEPT ![context.control].control = ControlBytes]
  \/ /\ RequestOf(context) # <<>>
     /\ wire' = [wire EXCEPT ![context.request].request = RequestOf(context)]

\* Nothing else is sent.
LEMMA WireChangesIs == [Next]_vars => WireChanges
<1> SUFFICES ASSUME [Next]_vars PROVE WireChanges
  OBVIOUS
<1>1. CASE wt_client_connect \/ ConnectRefused \/ ConnectResets \/ ConnectNames \/ ConnectReplaces
           \/ ConnectOpens \/ ConnectStarts \/ wt_msquic_shutdown \/ UNCHANGED vars
  BY <1>1 DEF wt_client_connect, ConnectRefused, ConnectResets, ConnectNames, ConnectReplaces, ConnectOpens,
     ConnectStarts, wt_msquic_shutdown, vars, peer, WireChanges
<1>2. ASSUME NEW c \in Attempts, Callbacks(c)
      PROVE  WireChanges
  BY <1>2 DEF Callbacks, Connected, ConnectionEnds, StreamStarted, ServerAnswers, Received, DatagramReceived,
     WireChanges
<1>3. ASSUME NEW c \in Attempts, Steps(c)
      PROVE  WireChanges
  <2>1. CASE SendSettings(c)
    BY <2>1, Zenon DEF SendSettings, WireChanges, ControlBytes
  <2>2. CASE SendRequest(c)
    BY <2>2, Zenon DEF SendRequest, WireChanges, RequestOf
  <2>3. CASE \/ OpenControl(c) \/ OpenRequest(c) \/ MarkReady(c) \/ TryEmit(c) \/ ProcessRequestStream(c)
             \/ DeliverDatagram(c) \/ EmitError(c) \/ PushEvent(c)
    BY <2>3 DEF OpenControl, OpenRequest, MarkReady, TryEmit, ProcessRequestStream, DeliverDatagram, EmitError,
       PushEvent, peer, WireChanges
  <2> QED BY <1>3, <2>1, <2>2, <2>3 DEF Steps
<1> QED BY <1>1, <1>2, <1>3 DEF Next, Connecting

\* A request is bytes, whichever connects its URL and its authority come from.
LEMMA RequestTyped ==
  ASSUME Typed, Prepared, context.request # 0
  PROVE  RequestOf(context) \in Seq(Nat)
<1>1. context.url \in Attempts /\ context.authority \in Attempts
  <2>1. context.url \in Numbers /\ context.authority \in Numbers
    BY DEF Typed, Context
  <2> QED BY <2>1, Constants DEF Prepared
<1>2. IsValid(context.url) /\ IsValid(context.authority)
  <2>1. context.url # 0 /\ context.authority # 0
    BY DEF Prepared
  <2> QED BY <2>1 DEF Prepared
<1> DEFINE a == context.authority
           b == context.url
<1>3. a \in Attempts /\ b \in Attempts /\ IsValid(a) /\ IsValid(b)
  BY <1>1, <1>2
<1> HIDE DEF a, b
<1> DEFINE authority == AuthorityOf(wt_url_parse_https(Urls[a]))
           path == wt_url_parse_https(Urls[b]).path
           lines == Headers[b]
<1>4. authority \in Seq(Nat) /\ authority # <<>> /\ Short(Len(authority))
  BY <1>3, OfConnect DEF IsValid
<1>5. path \in Seq(Nat) /\ path # <<>> /\ Short(Len(path))
  BY <1>3, OfConnect DEF IsValid
<1>6. lines \in Seq(Lines) /\ Len(wt_http3_append_serialized_headers(<<>>, lines)) <= LongHeaders
  BY <1>3, HeadersOf
<1>7. RequestOf(context) = wt_http3_encode_webtransport_connect(authority, path, lines)
  BY Zenon DEF RequestOf, a, b
<1> HIDE DEF authority, path, lines
<1> QED BY <1>4, <1>5, <1>6, <1>7, RequestIs

\* Nothing was sent and nothing delivered at the beginning.
LEMMA SentTypedInit == Init => SentTyped
<1>1. <<>> \in Seq(Nat)
  OBVIOUS
<1> QED BY <1>1 DEF Init, SentTyped, Streamed

\* What is sent is bytes, and a datagram is delivered on a connection and for a session there is.
LEMMA SentTypedNext ==
  ASSUME Typed, Planned, Numbered, Lives, Prepared, SentTyped, [Next]_vars
  PROVE  SentTyped'
<1>0. context \in Context /\ attempt \in Numbers /\ Attempts \subseteq Nat /\ attempt \in Nat
  BY Constants DEF Typed, attempt
<1>1. wire' \in [Attempts -> Streamed]
  <2>0. wire \in [Attempts -> Streamed]
    BY DEF SentTyped
  <2>1. CASE wire' = wire
    BY <2>0, <2>1
  <2>2. CASE wire' = [wire EXCEPT ![context.control].control = ControlBytes]
    BY <2>0, <2>2, ControlIs DEF Streamed
  <2>3. CASE wire' = [wire EXCEPT ![context.request].request = RequestOf(context)]
    <3>1. CASE context.request = 0
      <4>1. context.request \notin Attempts
        BY <3>1 DEF Attempts
      <4>2. wire' = wire
        BY <2>0, <2>3, <4>1
      <4> QED BY <2>0, <4>2
    <3>2. CASE context.request # 0
      <4> DEFINE r == RequestOf(context)
      <4>1. r \in Seq(Nat)
        BY <3>2, RequestTyped
      <4>2. wire' = [wire EXCEPT ![context.request].request = r]
        BY <2>3
      <4> HIDE DEF r
      <4> QED BY <2>0, <4>1, <4>2 DEF Streamed
    <3> QED BY <3>1, <3>2
  <2> QED BY <2>1, <2>2, <2>3, WireChangesIs DEF WireChanges
<1>2. delivered' \in SUBSET Queued
  <2>0. delivered \in SUBSET Queued
    BY DEF SentTyped
  <2>1. DeliveredChanges
    BY ChangesIs DEF Changes
  <2>2. ASSUME NEW c \in Attempts, Delivers(c)
        PROVE  delivered' \in SUBSET Queued
    <3> DEFINE read == wt_datagrams_decode(Piece(c))
    <3>1. "datagram" \in Dos(callback[c])
      BY <2>2, StepMoves DEF Delivers, Moves
    <3>2. link[c] = "up" /\ context.session = attempt
      BY <3>1 DEF Lives, Numbered
    <3>3. attempt \in Attempts
      <4>1. ~(c > attempt)
        BY <3>2 DEF Numbered
      <4>2. c \in Nat /\ c # 0
        BY Constants DEF Attempts
      <4>3. attempt # 0
        BY <1>0, <4>1, <4>2
      <4> QED BY <1>0, <4>3, Constants
    <3>4. read.ok
      BY <2>2 DEF Delivers
    <3>5. Piece(c) \in Datagrams
      BY <2>2, DatagramSteps DEF Delivers
    <3>6. Piece(c) \in Seq(Bytes)
      BY <3>5, HandshakeAssumption
    <3>7. read.value.payload \in Seq(Nat)
      <4> DEFINE d == Piece(c)
                 v == wt_http3_decode_varint(d, 0)
      <4>1. v.ok /\ read.value.payload = SubSeq(d, v.end + 1, Len(d))
        BY <3>4 DEF wt_datagrams_decode, Read, Unreadable
      <4>2. d \in Seq(Bytes) /\ Len(d) \in Nat
        BY <3>6
      <4> HIDE DEF d
      <4>3. v.end \in (0 + 1)..Len(d)
        BY <4>1, <4>2, IntegerRead
      <4> HIDE DEF v
      <4>4. v.end \in 0..Len(d)
        BY <4>2, <4>3
      <4>5. SubSeq(d, v.end + 1, Len(d)) \in Seq(Bytes)
        BY <4>2, <4>4, Part
      <4> QED BY <4>1, <4>5, BytesAreNumbers DEF d
    <3>8. delivered' = delivered \union
            {[connection |-> c, session |-> context.session, payload |-> read.value.payload]}
      BY <2>2 DEF Delivers
    <3> HIDE DEF read
    <3>9. [connection |-> c, session |-> context.session, payload |-> read.value.payload] \in Queued
      BY <3>2, <3>3, <3>7 DEF Queued
    <3> QED BY <2>0, <3>8, <3>9
  <2> QED BY <2>0, <2>1, <2>2 DEF DeliveredChanges
<1> QED BY <1>1, <1>2 DEF SentTyped

-----------------------------------------------------------------------------
(* What the client sends: the theorems *)

\* What a client sends and to whom it delivers is typed and prepared as well.
SentInv == Prepared /\ SentTyped

\* The inductive invariant, with what the client sends.
THEOREM SentInvHolds == Spec => [](Inv /\ SentInv)
<1>1. Init => Inv /\ SentInv
  BY InvInit, PreparedInit, SentTypedInit DEF SentInv
<1>2. Inv /\ SentInv /\ [Next]_vars => (Inv /\ SentInv)'
  <2> SUFFICES ASSUME Inv, SentInv, [Next]_vars PROVE Inv' /\ SentInv'
    OBVIOUS
  <2>1. Typed /\ Planned /\ Numbered /\ Lives /\ Prepared /\ SentTyped
    BY DEF Inv, SentInv
  <2> QED BY <2>1, InvNext, PreparedNext, SentTypedNext DEF SentInv
<1> QED BY <1>1, <1>2, PTL DEF Spec

\* The types of all variables.
THEOREM HandshakeTypeOKHolds == Spec => []HandshakeTypeOK
<1>1. Inv /\ SentInv => HandshakeTypeOK
  <2> SUFFICES ASSUME Inv, SentInv PROVE HandshakeTypeOK
    OBVIOUS
  <2>1. Typed /\ SentTyped
    BY DEF Inv, SentInv
  <2>2. /\ {context.session, context.connection, context.control, context.request,
            context.url, context.authority} \subseteq 0..Len(Urls)
        /\ {context.ready, context.accepted, context.emitted, context.closing} \subseteq BOOLEAN
        /\ context.flow \in Nat /\ Len(context.buffer) <= Limit
    BY <2>1 DEF Typed, Context, Numbers
  <2>3. context.buffer \in Seq(Nat)
    <3>1. context.buffer \in Seq(Bytes)
      BY <2>1 DEF Typed, Context
    <3> QED BY <3>1, BytesAreNumbers
  <2>4. callback \in [Attempts -> Seq([do : What, piece : Seq(Nat)])]
    <3>1. Step \subseteq [do : What, piece : Seq(Nat)]
      BY BytesAreNumbers DEF Step
    <3>2. ASSUME NEW s \in Seq(Step)
          PROVE  s \in Seq([do : What, piece : Seq(Nat)])
      <4>1. s \in [1..Len(s) -> Step] /\ Len(s) \in Nat
        OBVIOUS
      <4> DEFINE T == [do : What, piece : Seq(Nat)]
      <4>2. Step \subseteq T
        BY <3>1
      <4> HIDE DEF T
      <4>3. s \in [1..Len(s) -> T]
        BY <4>1, <4>2
      <4>4. s \in Seq(T)
        BY <4>1, <4>3
      <4> QED BY <4>4 DEF T
    <3>3. callback \in [Attempts -> Seq(Step)]
      BY <2>1 DEF Typed
    <3> QED BY <3>2, <3>3
  <2>5. wire \in [Attempts -> [control : Seq(Nat), request : Seq(Nat)]]
        /\ delivered \subseteq [connection : Attempts, session : Attempts, payload : Seq(Nat)]
    BY <2>1 DEF SentTyped, Streamed, Queued
  <2>6. /\ caller.pc \in {"idle", "reset", "name", "close", "open", "start"}
        /\ {caller.attempt, caller.replaced} \subseteq 0..Len(Urls)
        /\ caller.pc = "close" => caller.replaced # 0
    BY <2>1 DEF Typed, Numbers
  <2>7. /\ link \in [Attempts -> {"none", "starting", "up", "ending", "over", "closed"}]
        /\ started \subseteq Attempts /\ greeted \subseteq Attempts
        /\ answer \in [Attempts -> Answers \union {<<>>}]
        /\ arrived \in [Attempts -> Nat]
        /\ connected \in [Attempts -> Nat]
        /\ failed \in BOOLEAN /\ hole \in BOOLEAN
        /\ crossed \subseteq Attempts
    BY <2>1 DEF Typed
  <2> QED BY <2>2, <2>3, <2>4, <2>5, <2>6, <2>7 DEF HandshakeTypeOK
<1> QED BY <1>1, SentInvHolds, PTL

\* What a step sends.
SendsWhatIsMeant ==
  \A c \in Attempts :
    /\ wire'[c].control # wire[c].control => SettingsMeant(wire'[c].control)
    /\ wire'[c].request # wire[c].request /\ attempt = c => RequestMeant(wire'[c].request, c)

\* A server that reads what the client sends as the RFCs say finds the settings WebTransport
\* needs, and a request for the URL and with the headers of the connect, unless a later one
\* has begun: for any URLs and headers.
THEOREM PeerReadsWhatWasMeantHolds == Spec => PeerReadsWhatWasMeant
<1>1. Inv /\ SentInv /\ [Next]_vars => [SendsWhatIsMeant]_vars
  <2> SUFFICES ASSUME Inv, SentInv, [Next]_vars, NEW c \in Attempts
               PROVE  /\ wire'[c].control # wire[c].control => SettingsMeant(wire'[c].control)
                      /\ wire'[c].request # wire[c].request /\ attempt = c => RequestMeant(wire'[c].request, c)
    BY DEF SendsWhatIsMeant
  <2>1. Typed /\ Prepared /\ wire \in [Attempts -> Streamed] /\ wire[c] \in Streamed /\ c # 0
    BY DEF Inv, SentInv, SentTyped, Attempts
  <2>2. CASE wire' = wire
    BY <2>2
  <2>3. CASE wire' = [wire EXCEPT ![context.control].control = ControlBytes]
    <3>1. wire'[c].request = wire[c].request
      BY <2>1, <2>3 DEF Streamed
    <3>2. wire'[c].control \in {wire[c].control, ControlBytes}
      BY <2>1, <2>3 DEF Streamed
    <3> QED BY <3>1, <3>2, ControlIs
  <2>4. CASE RequestOf(context) # <<>> /\ wire' = [wire EXCEPT ![context.request].request = RequestOf(context)]
    <3> DEFINE r == RequestOf(context)
    <3>1. r # <<>> /\ wire' = [wire EXCEPT ![context.request].request = r]
      BY <2>4
    <3>2. attempt = c /\ context.request = c => r = wt_http3_encode_webtransport_connect(
                      AuthorityOf(wt_url_parse_https(Urls[c])), wt_url_parse_https(Urls[c]).path, Headers[c])
      <4>1. attempt = c /\ context.request = c => context.url = c /\ context.authority = c
        BY <2>1 DEF Prepared
      <4> QED BY <4>1, Zenon DEF RequestOf
    <3>3. attempt = c /\ context.request = c => wt_url_parse_https(Urls[c]).ok
      <4>1. attempt = c /\ context.request = c => context.url = c /\ c # 0
        BY <2>1 DEF Prepared
      <4>2. context.url # 0 => IsValid(context.url)
        BY <2>1 DEF Prepared
      <4> QED BY <4>1, <4>2 DEF IsValid
    <3> HIDE DEF r
    <3>4. attempt = c /\ context.request = c => RequestMeant(r, c)
      BY <3>1, <3>2, <3>3, RequestIsMeant
    <3>5. /\ wire'[c].control = wire[c].control
          /\ context.request # c => wire'[c] = wire[c]
          /\ context.request = c => wire'[c].request = r
      BY <2>1, <3>1 DEF Streamed
    <3> QED BY <3>4, <3>5
  <2> QED BY <2>2, <2>3, <2>4, WireChangesIs DEF WireChanges
<1>2. [][SendsWhatIsMeant]_vars => PeerReadsWhatWasMeant
  BY DEF PeerReadsWhatWasMeant, SendsWhatIsMeant
<1>3. Spec => [][Next]_vars
  BY PTL DEF Spec
<1>4. Spec => [][SendsWhatIsMeant]_vars
  BY <1>1, <1>3, SentInvHolds, PTL
<1> QED BY <1>2, <1>4, PTL

=============================================================================
