------------------------- MODULE StreamBuffer_proofs -------------------------
(***************************************************************************)
(* Proofs about the stream buffer for every limit, every size of piece and *)
(* every length a reader asks for.                                         *)
(***************************************************************************)
EXTENDS StreamBuffer, SequenceTheorems, TLAPS

\* The inductive invariant.  What the readers get is in order only if what is
\* left unread is, and a move or a read is right only inside the bounds.
IInv == TypeOK /\ UnreadInBounds /\ NothingLostUnlessRefused

LEMMA InitHolds == Init => IInv
<1> SUFFICES ASSUME Init PROVE IInv
  OBVIOUS
<1>1. <<>> \in Seq(Bytes) /\ Len(<<>>) = 0
  BY EmptySeq
<1>2. TypeOK
  BY <1>1 DEF Init, TypeOK, PushStatuses
<1>3. UnreadInBounds
  BY BufferAssumption DEF Init, UnreadInBounds
<1>4. Unread = <<>>
  BY DEF Init, Unread, Available
<1>5. NothingLostUnlessRefused
  BY <1>1, <1>4 DEF Init, NothingLostUnlessRefused
<1> QED BY <1>2, <1>3, <1>5 DEF IInv

LEMMA Associative ==
  \A S : \A s, t, u \in Seq(S) : (s \o t) \o u = s \o (t \o u)
BY ConcatAssociative

\* The unread bytes as a sequence.
LEMMA UnreadIsSeq ==
  ASSUME TypeOK, UnreadInBounds
  PROVE  /\ Available \in Nat
         /\ Unread \in Seq(Bytes)
         /\ Len(Unread) = Available
         /\ \A i \in 1 .. Available : Unread[i] = buffer[offset + i - 1]
<1>1. Available \in Nat
  BY DEF TypeOK, UnreadInBounds, Available
<1>2. ASSUME NEW i \in 1 .. Available
      PROVE  buffer[offset + i - 1] \in Bytes
  <2>1. offset + i - 1 \in offset .. length - 1
    BY DEF TypeOK, UnreadInBounds, Available
  <2> QED BY <2>1 DEF TypeOK, UnreadInBounds
<1>3. Unread \in [1 .. Available -> Bytes]
  BY <1>2 DEF Unread
<1>4. Unread \in Seq(Bytes) /\ Len(Unread) = Available
  BY <1>1, <1>3
<1> QED BY <1>1, <1>4 DEF Unread

\* What the array holds after a memmove, a realloc and a memcpy: the unread
\* bytes, then the piece.
LEMMA ExtendedCells ==
  ASSUME TypeOK, UnreadInBounds, NEW piece \in Seq(Bytes)
  PROVE  /\ DOMAIN Extended(piece) = 0 .. Available + Len(piece) - 1
         /\ \A i \in 0 .. Available - 1 : Extended(piece)[i] = Unread[i + 1]
         /\ \A i \in 1 .. Len(piece) : Extended(piece)[Available + i - 1] = piece[i]
         /\ Extended(piece) \in [0 .. Available + Len(piece) - 1 -> Bytes]
<1>1. /\ Available \in Nat
      /\ Len(piece) \in Nat
      /\ \A i \in 1 .. Len(piece) : piece[i] \in Bytes
      /\ offset \in Nat
      /\ \A i \in 1 .. Available : Unread[i] \in Bytes
      /\ \A i \in 1 .. Available : Unread[i] = buffer[offset + i - 1]
  BY UnreadIsSeq, LenProperties, ElementOfSeq DEF TypeOK
<1>2. ASSUME NEW i \in 0 .. Available - 1
      PROVE  Front[i] = Unread[i + 1]
  <2>1. i \in DOMAIN buffer
    BY <1>1 DEF TypeOK, UnreadInBounds, Available
  <2>2. Front[i] = buffer[offset + i]
    BY <2>1, <1>1 DEF Front
  <2> QED BY <1>1, <2>2
<1> DEFINE n == Available + Len(piece)
           cells == Reallocated(n)
<1>3. /\ DOMAIN cells = 0 .. n - 1
      /\ \A i \in 0 .. Available - 1 : cells[i] = Unread[i + 1]
  BY <1>1, <1>2 DEF Reallocated
<1>4. Extended(piece) =
        [i \in 0 .. n - 1 |->
           IF Available <= i /\ i < Available + Len(piece)
           THEN piece[i - Available + 1] ELSE cells[i]]
  BY <1>3 DEF Extended, Written
<1> HIDE DEF cells
<1>5. \A i \in 0 .. Available - 1 : Extended(piece)[i] = Unread[i + 1]
  BY <1>1, <1>3, <1>4
<1>6. \A i \in 1 .. Len(piece) : Extended(piece)[Available + i - 1] = piece[i]
  BY <1>1, <1>4
<1>7. ASSUME NEW i \in 0 .. n - 1
      PROVE  Extended(piece)[i] \in Bytes
  <2>1. CASE i < Available
    BY <2>1, <1>1, <1>5
  <2>2. CASE ~(i < Available)
    <3>1. i - Available + 1 \in 1 .. Len(piece)
      BY <2>2, <1>1
    <3> QED BY <3>1, <2>2, <1>1, <1>4
  <2> QED BY <2>1, <2>2
<1>8. Extended(piece) \in [0 .. n - 1 -> Bytes]
  BY <1>4, <1>7
<1>9. DOMAIN Extended(piece) = 0 .. n - 1
  BY <1>4
<1> QED BY <1>1, <1>5, <1>6, <1>8, <1>9

\* An append preserves the invariant.
LEMMA AppendHolds ==
  ASSUME IInv, NEW piece \in Chunks, wt_append_stream_data(piece)
  PROVE  IInv'
<1>1. /\ piece \in Seq(Bytes)
      /\ Len(piece) \in Nat
      /\ arrived' = arrived \o piece
      /\ arrived' \in Seq(Bytes)
      /\ alive' = alive
      /\ delivered' = delivered
      /\ TypeOK /\ UnreadInBounds /\ NothingLostUnlessRefused
  BY BufferAssumption, ConcatProperties, LenProperties DEF wt_append_stream_data, IInv, TypeOK
<1>2. CASE ~alive
  <2>1. /\ UNCHANGED <<buffer, length, offset>>
        /\ refused' \in BOOLEAN
        /\ reply' = "INVALID_ARGUMENT"
    BY <1>2 DEF wt_append_stream_data
  <2> QED BY <1>1, <1>2, <2>1 DEF IInv, TypeOK, UnreadInBounds, NothingLostUnlessRefused, PushStatuses
<1>3. CASE alive /\ piece = <<>>
  <2>1. /\ UNCHANGED <<buffer, length, offset, refused>>
        /\ reply' \in PushStatuses
    BY <1>3 DEF wt_append_stream_data
  <2>2. arrived' = arrived
    BY <1>1, <1>3, ConcatEmptySeq DEF TypeOK
  <2>3. Unread' = Unread
    BY <2>1 DEF Unread, Available
  <2> QED BY <1>1, <1>3, <2>1, <2>2, <2>3
          DEF IInv, TypeOK, UnreadInBounds, NothingLostUnlessRefused
<1>4. CASE alive /\ piece # <<>>
  <2>1. /\ Available \in Nat
        /\ length \in Nat
        /\ Available <= length
        /\ length <= MaxBuffer
        /\ MaxBuffer \in Nat
    BY <1>1, BufferAssumption DEF TypeOK, UnreadInBounds, Available
  <2>2. CASE refused' = TRUE /\ buffer' = Front /\ length' = Available /\ offset' = 0
             /\ reply' = "OUT_OF_MEMORY"
    <3>1. DOMAIN Front = DOMAIN buffer /\ DOMAIN buffer \subseteq Nat
      BY <1>1 DEF Front, TypeOK
    <3>2. ASSUME NEW i \in DOMAIN buffer
          PROVE  Front[i] \in Bytes
      <4>1. CASE i < Available
        <5>1. offset + i \in 0 .. length - 1
          BY <1>1, <3>1, <4>1 DEF TypeOK, UnreadInBounds, Available
        <5>2. offset + i \in DOMAIN buffer
          BY <5>1, <1>1 DEF UnreadInBounds
        <5> QED BY <5>2, <4>1, <1>1 DEF Front, TypeOK
      <4>2. CASE ~(i < Available)
        BY <4>2, <1>1 DEF Front, TypeOK
      <4> QED BY <4>1, <4>2, <2>1, <1>1
    <3>3. Front \in [DOMAIN buffer -> Bytes]
      BY <3>2 DEF Front
    <3>4. TypeOK'
      BY <1>1, <2>1, <2>2, <3>1, <3>3 DEF TypeOK, PushStatuses
    <3>5. UnreadInBounds'
      BY <1>1, <2>1, <2>2, <3>1 DEF UnreadInBounds
    <3> QED BY <2>2, <3>4, <3>5 DEF IInv, NothingLostUnlessRefused
  <2>3. CASE ~TooMuch(piece) /\ reply' \in PushStatuses /\ buffer' = Extended(piece)
             /\ length' = Available + Len(piece) /\ offset' = 0 /\ refused' = refused
    <3>1. length' <= MaxBuffer
      BY <1>1, <2>1, <2>3 DEF TooMuch
    <3>2. /\ DOMAIN buffer' = 0 .. length' - 1
          /\ buffer' \in [0 .. length' - 1 -> Bytes]
          /\ \A i \in 0 .. Available - 1 : buffer'[i] = Unread[i + 1]
          /\ \A i \in 1 .. Len(piece) : buffer'[Available + i - 1] = piece[i]
      <4>1. /\ DOMAIN Extended(piece) = 0 .. Available + Len(piece) - 1
            /\ \A i \in 0 .. Available - 1 : Extended(piece)[i] = Unread[i + 1]
            /\ \A i \in 1 .. Len(piece) : Extended(piece)[Available + i - 1] = piece[i]
            /\ Extended(piece) \in [0 .. Available + Len(piece) - 1 -> Bytes]
        BY <1>1, ExtendedCells
      <4>2. buffer' = Extended(piece) /\ length' = Available + Len(piece)
        BY <2>3
      <4> QED BY <4>1, <4>2, <2>1, <1>1
    <3>3. TypeOK'
      BY <1>1, <2>1, <2>3, <3>2 DEF TypeOK
    <3>4. UnreadInBounds'
      BY <1>1, <2>1, <2>3, <3>1, <3>2 DEF UnreadInBounds
    <3>5. /\ Unread \in Seq(Bytes)
          /\ Len(Unread) = Available
      BY <1>1, UnreadIsSeq
    <3>6. /\ Unread' \in Seq(Bytes)
          /\ Len(Unread') = Available + Len(piece)
          /\ \A i \in 1 .. Available + Len(piece) : Unread'[i] = buffer'[i - 1]
      <4>1. Available' = Available + Len(piece)
        BY <1>1, <2>1, <2>3 DEF Available
      <4>2. (/\ Unread \in Seq(Bytes)
             /\ Len(Unread) = Available
             /\ \A i \in 1 .. Available : Unread[i] = buffer[offset + i - 1])'
        BY <3>3, <3>4, UnreadIsSeq, PTL
      <4>3. \A i \in 1 .. Available + Len(piece) : 0 + i - 1 = i - 1
        BY <1>1, <2>1
      <4> QED BY <4>1, <4>2, <4>3, <2>3
    <3>7. /\ Unread \o piece \in Seq(Bytes)
          /\ Len(Unread \o piece) = Available + Len(piece)
          /\ \A i \in 1 .. Available + Len(piece) :
               (Unread \o piece)[i] = IF i <= Available THEN Unread[i] ELSE piece[i - Available]
      BY <1>1, <3>5, ConcatProperties
    <3>8. ASSUME NEW i \in 1 .. Available + Len(piece)
          PROVE  Unread'[i] = (Unread \o piece)[i]
      <4>1. CASE i <= Available
        <5>1. i - 1 \in 0 .. Available - 1 /\ (i - 1) + 1 = i
          BY <4>1, <2>1, <1>1
        <5>2. buffer'[i - 1] = Unread[i]
          BY <5>1, <3>2
        <5> QED BY <4>1, <5>2, <3>6, <3>7
      <4>2. CASE ~(i <= Available)
        <5>1. i - Available \in 1 .. Len(piece) /\ Available + (i - Available) - 1 = i - 1
          BY <4>2, <2>1, <1>1
        <5>2. buffer'[i - 1] = piece[i - Available]
          BY <5>1, <3>2
        <5> QED BY <4>2, <5>2, <3>6, <3>7
      <4> QED BY <4>1, <4>2
    <3>9. Unread' = Unread \o piece
      BY <3>6, <3>7, <3>8, SeqEqual
    <3>10. ASSUME alive', ~refused'
           PROVE  arrived' = delivered' \o Unread'
      <4>1. arrived = delivered \o Unread
        BY <3>10, <1>1, <1>4, <2>3 DEF NothingLostUnlessRefused
      <4>2. (delivered \o Unread) \o piece = delivered \o (Unread \o piece)
        <5>1. delivered \in Seq(Bytes) /\ Unread \in Seq(Bytes) /\ piece \in Seq(Bytes)
          BY <1>1, <3>5 DEF TypeOK
        <5> QED BY <5>1, Associative
      <4> QED BY <1>1, <3>9, <4>1, <4>2
    <3>11. NothingLostUnlessRefused'
      BY <3>10 DEF NothingLostUnlessRefused
    <3> QED BY <3>3, <3>4, <3>11 DEF IInv
  <2> QED BY <1>4, <2>2, <2>3 DEF wt_append_stream_data
<1> QED BY <1>2, <1>3, <1>4

\* A read of n bytes preserves the invariant: what it hands out leaves the front
\* of the unread bytes.
LEMMA ReadHolds ==
  ASSUME IInv, NEW n \in Lengths, wt_stream_read(n)
  PROVE  IInv'
<1>1. /\ UNCHANGED <<buffer, length, alive, arrived, refused>>
      /\ TypeOK /\ UnreadInBounds /\ NothingLostUnlessRefused
      /\ n \in Nat
  BY BufferAssumption DEF wt_stream_read, IInv
<1>2. CASE UNCHANGED <<offset, delivered>> /\ reply' \in PushStatuses \cup {"NOT_FOUND"}
  <2>1. Unread' = Unread
    BY <1>1, <1>2 DEF Unread, Available
  <2> QED BY <1>1, <1>2, <2>1 DEF IInv, TypeOK, UnreadInBounds, NothingLostUnlessRefused
<1>3. CASE /\ alive
           /\ offset < length
           /\ reply' = "OK"
           /\ offset' = offset + ToCopy(n)
           /\ delivered' = delivered \o [i \in 1 .. ToCopy(n) |-> buffer[offset + i - 1]]
  <2> DEFINE copied == [i \in 1 .. ToCopy(n) |-> buffer[offset + i - 1]]
  <2>1. /\ Available \in Nat
        /\ Unread \in Seq(Bytes)
        /\ Len(Unread) = Available
        /\ \A i \in 1 .. Available : Unread[i] = buffer[offset + i - 1]
    BY <1>1, UnreadIsSeq
  <2>2. /\ ToCopy(n) \in Nat
        /\ ToCopy(n) <= Available
        /\ length \in Nat /\ offset \in Nat
        /\ length = offset + Available
    BY <1>1, <2>1 DEF ToCopy, TypeOK, Available
  <2>3. /\ copied \in Seq(Bytes)
        /\ Len(copied) = ToCopy(n)
        /\ \A i \in 1 .. ToCopy(n) : copied[i] = Unread[i]
    <3>1. \A i \in 1 .. ToCopy(n) : i \in 1 .. Available
      BY <2>1, <2>2
    <3>2. \A i \in 1 .. ToCopy(n) : buffer[offset + i - 1] = Unread[i]
      BY <2>1, <3>1
    <3>3. \A i \in 1 .. ToCopy(n) : Unread[i] \in Bytes
      BY <2>1, <3>1, ElementOfSeq
    <3>4. copied \in [1 .. ToCopy(n) -> Bytes]
      BY <3>2, <3>3
    <3>5. copied \in Seq(Bytes) /\ Len(copied) = ToCopy(n)
      BY <2>2, <3>4
    <3>6. \A i \in 1 .. ToCopy(n) : copied[i] = buffer[offset + i - 1]
      OBVIOUS
    <3> QED BY <3>2, <3>5, <3>6
  <2> HIDE DEF copied
  <2>4. delivered' = delivered \o copied
    BY <1>3 DEF copied
  <2>5. delivered \in Seq(Bytes) /\ delivered' \in Seq(Bytes)
    <3>1. delivered \in Seq(Bytes)
      BY <1>1 DEF TypeOK
    <3> QED BY <3>1, <2>3, <2>4, ConcatProperties
  <2>6. TypeOK'
    BY <1>1, <1>3, <2>2, <2>5 DEF TypeOK, PushStatuses
  <2>7. UnreadInBounds'
    <3>1. offset' <= length'
      BY <1>1, <1>3, <2>1, <2>2
    <3>2. length' = length /\ buffer' = buffer
      BY <1>1
    <3> QED BY <1>1, <3>1, <3>2 DEF UnreadInBounds
  <2>8. /\ Available' = Available - ToCopy(n)
        /\ Unread' \in Seq(Bytes)
        /\ Len(Unread') = Available - ToCopy(n)
        /\ \A i \in 1 .. Available - ToCopy(n) : Unread'[i] = Unread[ToCopy(n) + i]
    <3>1. Available' = Available - ToCopy(n)
      BY <1>1, <1>3, <2>2 DEF Available
    <3>2. (/\ Unread \in Seq(Bytes)
           /\ Len(Unread) = Available
           /\ \A i \in 1 .. Available : Unread[i] = buffer[offset + i - 1])'
      BY <2>6, <2>7, UnreadIsSeq, PTL
    <3>3. ASSUME NEW i \in 1 .. Available - ToCopy(n)
          PROVE  Unread'[i] = Unread[ToCopy(n) + i]
      <4>1. ToCopy(n) + i \in 1 .. Available
        BY <2>1, <2>2
      <4>2. Unread[ToCopy(n) + i] = buffer[offset + (ToCopy(n) + i) - 1]
        BY <2>1, <4>1
      <4>3. Unread'[i] = buffer[offset' + i - 1]
        BY <1>1, <3>1, <3>2
      <4>4. offset' + i - 1 = offset + (ToCopy(n) + i) - 1
        BY <1>3, <2>1, <2>2
      <4> QED BY <4>2, <4>3, <4>4
    <3> QED BY <3>1, <3>2, <3>3
  <2>9. copied \o Unread' = Unread
    <3>1. /\ copied \o Unread' \in Seq(Bytes)
          /\ Len(copied \o Unread') = ToCopy(n) + (Available - ToCopy(n))
          /\ \A i \in 1 .. ToCopy(n) + (Available - ToCopy(n)) :
               (copied \o Unread')[i] =
                 IF i <= ToCopy(n) THEN copied[i] ELSE Unread'[i - ToCopy(n)]
      <4>1. copied \in Seq(Bytes) /\ Len(copied) = ToCopy(n)
        BY <2>3
      <4>2. Unread' \in Seq(Bytes) /\ Len(Unread') = Available - ToCopy(n)
        BY <2>8
      <4>3. /\ copied \o Unread' \in Seq(Bytes)
            /\ Len(copied \o Unread') = Len(copied) + Len(Unread')
            /\ \A i \in 1 .. Len(copied) + Len(Unread') :
                 (copied \o Unread')[i] =
                   IF i <= Len(copied) THEN copied[i] ELSE Unread'[i - Len(copied)]
        BY <4>1, <4>2, ConcatProperties
      <4> QED BY <4>1, <4>2, <4>3
    <3>2. ToCopy(n) + (Available - ToCopy(n)) = Available
      BY <2>1, <2>2
    <3>3. ASSUME NEW i \in 1 .. Available
          PROVE  (copied \o Unread')[i] = Unread[i]
      <4>1. CASE i <= ToCopy(n)
        <5>1. i \in 1 .. ToCopy(n)
          BY <4>1, <2>2
        <5> QED BY <4>1, <5>1, <3>1, <3>2, <2>3
      <4>2. CASE ~(i <= ToCopy(n))
        <5>1. i - ToCopy(n) \in 1 .. Available - ToCopy(n) /\ ToCopy(n) + (i - ToCopy(n)) = i
          BY <4>2, <2>1, <2>2
        <5>2. Unread'[i - ToCopy(n)] = Unread[i]
          BY <5>1, <2>8
        <5> QED BY <4>2, <5>2, <3>1, <3>2
      <4> QED BY <4>1, <4>2
    <3> QED BY <2>1, <3>1, <3>2, <3>3, SeqEqual
  <2>10. ASSUME alive', ~refused'
         PROVE  arrived' = delivered' \o Unread'
    <3>1. arrived' = delivered \o Unread
      BY <2>10, <1>1 DEF NothingLostUnlessRefused
    <3>2. (delivered \o copied) \o Unread' = delivered \o (copied \o Unread')
      <4>1. delivered \in Seq(Bytes) /\ copied \in Seq(Bytes) /\ Unread' \in Seq(Bytes)
        BY <2>3, <2>5, <2>8
      <4> QED BY <4>1, Associative
    <3> QED BY <2>4, <2>9, <3>1, <3>2
  <2> QED BY <2>6, <2>7, <2>10 DEF IInv, NothingLostUnlessRefused
<1> QED BY <1>2, <1>3 DEF wt_stream_read, PushStatuses

LEMMA StepHolds == IInv /\ [Next]_vars => IInv'
<1> SUFFICES ASSUME IInv, [Next]_vars PROVE IInv'
  OBVIOUS
<1>1. CASE wt_release
  <2>1. TypeOK'
    BY <1>1 DEF IInv, TypeOK, wt_release, PushStatuses
  <2>2. UnreadInBounds'
    BY <1>1, BufferAssumption DEF UnreadInBounds, wt_release
  <2>3. NothingLostUnlessRefused'
    BY <1>1 DEF NothingLostUnlessRefused, wt_release
  <2> QED BY <2>1, <2>2, <2>3 DEF IInv
<1>2. CASE UNCHANGED vars
  <2>1. Unread' = Unread
    BY <1>2 DEF vars, Unread, Available
  <2> QED BY <1>2, <2>1 DEF vars, IInv, TypeOK, UnreadInBounds, NothingLostUnlessRefused
<1> QED BY <1>1, <1>2, AppendHolds, ReadHolds DEF Next

\* Appends, reads and the release of the stream preserve types, bounds and
\* content together.
THEOREM Invariance == Spec => []IInv
BY InitHolds, StepHolds, PTL DEF Spec

\* What wt_append_stream_data and wt_stream_read store has its type, and no cell
\* of the buffer stays uninitialized.
THEOREM TypeCorrect == Spec => []TypeOK
BY Invariance, PTL DEF IInv

\* wt_stream_read and the memmove of wt_append_stream_data stay inside the
\* allocation, and the allocation inside WT_MAX_STREAM_BUFFER_BYTES.
THEOREM BufferSafe == Spec => []UnreadInBounds
BY Invariance, PTL DEF IInv

\* Until an append is refused the readers get the stream byte for byte, however
\* appends, partial reads, memmoves and reallocs follow each other.
THEOREM Lossless == Spec => []NothingLostUnlessRefused
BY Invariance, PTL DEF IInv
=============================================================================
