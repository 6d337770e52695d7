------------------------ MODULE DatagramQueue_proofs ------------------------
(***************************************************************************)
(* Proofs about the list of datagrams for every set of payloads, every     *)
(* limit and every number of datagrams: the list is whole, its counters    *)
(* are exact and it delivers first in, first out.                          *)
(***************************************************************************)
EXTENDS DatagramQueue, SequenceTheorems, WellFoundedInduction, TLAPS

\* The list is its n nodes in their order; rest[i] is what the datagrams from the
\* i-th on weigh.
Listed(n, order, rest) ==
  /\ n <= arrived
  /\ \A m \in Allocated : \E i \in 1 .. n : order[i] = m
  /\ \A i, j \in 1 .. n : order[i] = order[j] => i = j
  /\ \A i \in 1 .. n : order[i] \in Allocated
  /\ head = IF n = 0 THEN Null ELSE order[1]
  /\ tail = IF n = 0 THEN Null ELSE order[n]
  /\ \A i \in 1 .. n : heap[order[i]].next = IF i = n THEN Null ELSE order[i + 1]
  /\ count = n
  /\ rest[n + 1] = 0
  /\ \A i \in 1 .. n : rest[i] = LengthOf[heap[order[i]].payload] + rest[i + 1]
  /\ bytes = rest[1]
  /\ alive => queued = received \o [i \in 1 .. n |-> heap[order[i]].payload]

\* The inductive invariant: an order of the nodes is what head, tail and the next
\* pointers have to agree on, and what the counters count.
IInv ==
  /\ TypeOK
  /\ count <= MaxCount /\ bytes <= MaxBytes
  /\ \E n \in Nat : \E order \in [1 .. n -> Nodes], rest \in [1 .. n + 1 -> Nat] :
       Listed(n, order, rest)

LEMMA InitHolds == Init => IInv
<1> SUFFICES ASSUME Init PROVE IInv
  OBVIOUS
<1> PICK order : order = [i \in 1 .. 0 |-> Null]
  OBVIOUS
<1> PICK rest : rest = [i \in 1 .. 1 |-> 0]
  OBVIOUS
<1>1. <<>> \in Seq(Payloads)
  BY EmptySeq
<1>2. TypeOK
  BY <1>1, DatagramAssumption DEF Init, TypeOK, Allocated, PushStatuses
<1>3. [i \in 1 .. 0 |-> heap[order[i]].payload] = <<>>
  OBVIOUS
<1>4. <<>> \o <<>> = <<>>
  OBVIOUS
<1>5. Listed(0, order, rest)
  <2>1. Allocated = {}
    BY DEF Init, Allocated
  <2>2. arrived \in Nat
    BY DEF Init
  <2> QED
    BY <1>3, <1>4, <2>1, <2>2 DEF Init, Listed
<1>6. order \in [1 .. 0 -> Nodes] /\ rest \in [1 .. 0 + 1 -> Nat]
  OBVIOUS
<1>7. \E o \in [1 .. 0 -> Nodes], r \in [1 .. 0 + 1 -> Nat] : Listed(0, o, r)
  BY <1>5, <1>6
<1>8. count <= MaxCount /\ bytes <= MaxBytes
  BY DatagramAssumption DEF Init
<1> QED
  BY <1>2, <1>7, <1>8 DEF IInv

\* The payloads of a list are a sequence of its length.
LEMMA ContentIsSeq ==
  ASSUME TypeOK, NEW n \in Nat, NEW order \in [1 .. n -> Nodes],
         \A i \in 1 .. n : order[i] \in Allocated
  PROVE  /\ [i \in 1 .. n |-> heap[order[i]].payload] \in Seq(Payloads)
         /\ Len([i \in 1 .. n |-> heap[order[i]].payload]) = n
<1>1. \A i \in 1 .. n : heap[order[i]].payload \in Payloads
  BY DEF TypeOK
<1>2. [i \in 1 .. n |-> heap[order[i]].payload] \in [1 .. n -> Payloads]
  BY <1>1
<1> QED
  BY <1>2

\* A refusal, or a release, changes nothing of the list, or empties it.
LEMMA SameList ==
  ASSUME IInv, TypeOK',
         UNCHANGED <<heap, head, tail, count, bytes, queued, received>>,
         alive' => alive, arrived <= arrived', arrived' \in Nat
  PROVE  IInv'
<1> PICK n \in Nat : \E order \in [1 .. n -> Nodes], rest \in [1 .. n + 1 -> Nat] :
                       Listed(n, order, rest)
  BY DEF IInv
<1> PICK order \in [1 .. n -> Nodes], rest \in [1 .. n + 1 -> Nat] : Listed(n, order, rest)
  OBVIOUS
<1>1. Listed(n, order, rest)'
  <2>1. n <= arrived'
    BY DEF Listed, IInv, TypeOK
  <2>2. Allocated' = Allocated
    BY DEF Allocated
  <2> QED
    BY <2>1, <2>2 DEF Listed
<1>2. \E o \in [1 .. n -> Nodes], r \in [1 .. n + 1 -> Nat] : Listed(n, o, r)'
  BY <1>1
<1> QED
  BY <1>2 DEF IInv

-----------------------------------------------------------------------------
\* Two functions that follow the same steps from the same start are the same.
Follows(f, g, N) ==
  f[0] = g[0] /\ \A i \in 1 .. N : f[i - 1] = g[i - 1] => f[i] = g[i]

LEMMA SameSteps ==
  ASSUME NEW N \in Nat, NEW f, NEW g, Follows(f, g, N)
  PROVE  \A i \in 0 .. N : f[i] = g[i]
<1> USE DEF Follows
<1> DEFINE Apart == {i \in 0 .. N : f[i] # g[i]}
<1> SUFFICES ASSUME Apart # {} PROVE FALSE
  OBVIOUS
<1>1. Apart \subseteq Nat
  OBVIOUS
<1>2. \E i \in Apart : \A j \in Apart : ~ (<<j, i>> \in OpToRel(<, Nat))
  BY <1>1, NatLessThanWellFounded, WFMin
<1>3. PICK i \in Apart : \A j \in Apart : ~ (<<j, i>> \in OpToRel(<, Nat))
  BY <1>2
<1>4. i \in 1 .. N
  OBVIOUS
<1>5. i - 1 \notin Apart
  <2> SUFFICES ASSUME i - 1 \in Apart PROVE FALSE
    OBVIOUS
  <2>1. <<i - 1, i>> \in OpToRel(<, Nat)
    BY <1>4 DEF OpToRel
  <2> QED
    BY <1>3, <2>1
<1> QED
  BY <1>4, <1>5

\* The first i of n nodes.
Upto(n, order, i) == [j \in 1 .. (IF i <= n THEN i ELSE n) |-> order[j]]

LEMMA UptoIsSeq ==
  ASSUME NEW n \in Nat, NEW order \in [1 .. n -> Nodes], NEW i \in Nat
  PROVE  /\ Upto(n, order, i) \in Seq(Nodes)
         /\ Len(Upto(n, order, i)) = IF i <= n THEN i ELSE n
         /\ \A j \in 1 .. (IF i <= n THEN i ELSE n) : Upto(n, order, i)[j] = order[j]
BY DEF Upto

LEMMA ExtendIsNext ==
  ASSUME TypeOK, NEW n \in Nat, NEW order \in [1 .. n -> Nodes],
         NEW rest \in [1 .. n + 1 -> Nat], Listed(n, order, rest), NEW k \in Nat
  PROVE  Extend(Upto(n, order, k)) = Upto(n, order, k + 1)
<1> PICK before : before = Upto(n, order, k)
  OBVIOUS
<1>1. /\ before \in Seq(Nodes)
      /\ Len(before) = IF k <= n THEN k ELSE n
      /\ \A j \in 1 .. Len(before) : before[j] = order[j]
  BY UptoIsSeq
<1>2. before = <<>> <=> Len(before) = 0
  <2>1. before # <<>> => Len(before) \in Nat \ {0}
    BY <1>1, EmptySeq
  <2>2. Len(<<>>) = 0
    BY EmptySeq
  <2> QED
    BY <2>1, <2>2
<1>3. CASE k < n
  <2>0. Len(before) = k
    BY <1>1, <1>3
  <2>1. order[k + 1] \in Allocated /\ order[k + 1] \in Nodes
    BY <1>3 DEF Listed
  <2>2. After(before) = order[k + 1]
    <3>1. CASE k = 0
      BY <2>0, <1>2, <1>3, <3>1 DEF Listed, After
    <3>2. CASE k # 0
      <4>1. before[k] = order[k] /\ before # <<>>
        BY <1>1, <1>2, <2>0, <3>2
      <4>2. heap[order[k]].next = order[k + 1]
        <5>1. \A i \in 1 .. n : heap[order[i]].next = IF i = n THEN Null ELSE order[i + 1]
          BY DEF Listed
        <5>2. k \in 1 .. n /\ k # n
          BY <1>3, <3>2
        <5> QED
          BY <5>1, <5>2
      <4> QED
        BY <2>0, <4>1, <4>2 DEF After
    <3> QED
      BY <3>1, <3>2
  <2>3. Append(before, order[k + 1]) = Upto(n, order, k + 1)
    <3> PICK s : s = Append(before, order[k + 1])
      OBVIOUS
    <3>1. s \in Seq(Nodes) /\ Len(s) = k + 1 /\ s[k + 1] = order[k + 1]
      BY <1>1, <2>0, <2>1, AppendProperties
    <3>2. \A j \in 1 .. k : s[j] = order[j]
      BY <1>1, <2>0, <2>1, AppendProperties
    <3>3. s \in [1 .. k + 1 -> Nodes]
      BY <3>1, LenProperties
    <3>4. s = [j \in 1 .. k + 1 |-> order[j]]
      BY <3>1, <3>2, <3>3
    <3> QED
      BY <1>3, <3>4 DEF Upto
  <2> QED
    BY <2>1, <2>2, <2>3 DEF Extend
<1>4. CASE k >= n
  <2>0. Len(before) = n
    BY <1>1, <1>4
  <2>1. Upto(n, order, k) = Upto(n, order, k + 1)
    BY <1>4 DEF Upto
  <2>2. After(before) = Null
    <3>1. CASE n = 0
      BY <1>2, <2>0, <3>1 DEF Listed, After
    <3>2. CASE n # 0
      <4>1. before[n] = order[n] /\ before # <<>>
        BY <1>1, <1>2, <2>0, <3>2
      <4>2. heap[order[n]].next = Null
        BY <3>2 DEF Listed
      <4> QED
        BY <2>0, <4>1, <4>2 DEF After
    <3> QED
      BY <3>1, <3>2
  <2>3. Null \notin Allocated
    BY DatagramAssumption DEF TypeOK
  <2> QED
    BY <2>1, <2>2, <2>3 DEF Extend
<1> QED
  BY <1>3, <1>4

\* Following the next pointers from the head gives the nodes in their order.
LEMMA WalkIsOrder ==
  ASSUME TypeOK, NEW n \in Nat, NEW order \in [1 .. n -> Nodes],
         NEW rest \in [1 .. n + 1 -> Nat], Listed(n, order, rest)
  PROVE  /\ Chain \in Seq(Nodes)
         /\ Len(Chain) = n
         /\ \A i \in 1 .. n : Chain[i] = order[i]
<1> PICK f : f = [i \in 0 .. MaxArriving |-> Upto(n, order, i)]
  OBVIOUS
<1>1. n <= MaxArriving /\ MaxArriving \in Nat
  BY DatagramAssumption DEF Listed, TypeOK
<1>2. f = [i \in 0 .. MaxArriving |-> IF i = 0 THEN <<>> ELSE Extend(f[i - 1])]
  <2>1. Upto(n, order, 0) = <<>>
    BY DEF Upto
  <2>2. ASSUME NEW i \in 0 .. MaxArriving
        PROVE  f[i] = IF i = 0 THEN <<>> ELSE Extend(f[i - 1])
    <3>1. CASE i = 0
      BY <1>1, <2>1, <3>1
    <3>2. CASE i # 0
      <4>1. i - 1 \in Nat /\ f[i - 1] = Upto(n, order, i - 1) /\ f[i] = Upto(n, order, i)
        BY <1>1, <3>2
      <4>2. Extend(Upto(n, order, i - 1)) = Upto(n, order, i - 1 + 1)
        BY <4>1, ExtendIsNext
      <4>3. i - 1 + 1 = i
        BY <1>1
      <4> QED
        BY <3>2, <4>1, <4>2, <4>3
    <3> QED
      BY <3>1, <3>2
  <2> QED
    BY <2>2
<1>3. Walk = [i \in 0 .. MaxArriving |-> IF i = 0 THEN <<>> ELSE Extend(Walk[i - 1])]
  <2>1. Walk = CHOOSE w : w = [i \in 0 .. MaxArriving |-> IF i = 0 THEN <<>> ELSE Extend(w[i - 1])]
    BY Zenon DEF Walk
  <2>2. \E w : w = [i \in 0 .. MaxArriving |-> IF i = 0 THEN <<>> ELSE Extend(w[i - 1])]
    BY <1>2
  <2> QED
    BY <2>1, <2>2, Zenon
<1>4. \A i \in 0 .. MaxArriving : Walk[i] = f[i]
  <2>1. Walk[0] = f[0]
    BY <1>1, <1>2, <1>3
  <2>2. \A i \in 1 .. MaxArriving : Walk[i] = Extend(Walk[i - 1]) /\ f[i] = Extend(f[i - 1])
    BY <1>1, <1>2, <1>3
  <2>3. \A i \in 1 .. MaxArriving : Walk[i - 1] = f[i - 1] => Walk[i] = f[i]
    BY <2>2
  <2>4. Follows(Walk, f, MaxArriving)
    BY <2>1, <2>3 DEF Follows
  <2> QED
    BY <1>1, <2>4, SameSteps
<1>5. Chain = Upto(n, order, MaxArriving)
  <2>1. MaxArriving \in 0 .. MaxArriving
    BY <1>1
  <2>2. Walk[MaxArriving] = f[MaxArriving]
    BY <1>4, <2>1
  <2> QED
    BY <2>1, <2>2 DEF Chain
<1>6. /\ Upto(n, order, MaxArriving) \in Seq(Nodes)
      /\ Len(Upto(n, order, MaxArriving)) = IF MaxArriving <= n THEN MaxArriving ELSE n
      /\ \A j \in 1 .. (IF MaxArriving <= n THEN MaxArriving ELSE n) :
           Upto(n, order, MaxArriving)[j] = order[j]
  BY <1>1, UptoIsSeq
<1>7. (IF MaxArriving <= n THEN MaxArriving ELSE n) = n
  BY <1>1
<1> QED
  BY <1>5, <1>6, <1>7

\* The walk reaches every allocated node.
LEMMA OnChainIsAllocated ==
  ASSUME TypeOK, NEW n \in Nat, NEW order \in [1 .. n -> Nodes],
         NEW rest \in [1 .. n + 1 -> Nat], Listed(n, order, rest)
  PROVE  OnChain = Allocated
<1>1. Len(Chain) = n /\ \A i \in 1 .. n : Chain[i] = order[i]
  BY WalkIsOrder
<1>2. OnChain = {order[i] : i \in 1 .. n}
  BY <1>1 DEF OnChain
<1>3. \A m \in Allocated : \E i \in 1 .. n : order[i] = m
  BY DEF Listed
<1>4. \A i \in 1 .. n : order[i] \in Allocated
  BY DEF Listed
<1> QED
  BY <1>2, <1>3, <1>4

\* The bytes of the list are the sum the counter has to agree with.
LEMMA HeldIsRest ==
  ASSUME TypeOK, NEW n \in Nat, NEW order \in [1 .. n -> Nodes],
         NEW rest \in [1 .. n + 1 -> Nat], Listed(n, order, rest)
  PROVE  Held[1] = rest[1]
<1>1. Len(Chain) = n /\ \A i \in 1 .. n : Chain[i] = order[i]
  BY WalkIsOrder
<1>2. rest = [i \in 1 .. Len(Chain) + 1 |->
                IF i = Len(Chain) + 1 THEN 0 ELSE LengthOf[heap[Chain[i]].payload] + rest[i + 1]]
  <2>1. \A i \in 1 .. n + 1 :
          rest[i] = IF i = n + 1 THEN 0 ELSE LengthOf[heap[Chain[i]].payload] + rest[i + 1]
    <3>1. rest[n + 1] = 0
      BY DEF Listed
    <3>2. \A i \in 1 .. n : rest[i] = LengthOf[heap[order[i]].payload] + rest[i + 1]
      BY DEF Listed
    <3> QED
      BY <1>1, <3>1, <3>2
  <2> QED
    BY <1>1, <2>1
<1>3. Held = [i \in 1 .. Len(Chain) + 1 |->
                IF i = Len(Chain) + 1 THEN 0 ELSE LengthOf[heap[Chain[i]].payload] + Held[i + 1]]
  <2>1. Held = CHOOSE w : w = [i \in 1 .. Len(Chain) + 1 |->
                 IF i = Len(Chain) + 1 THEN 0 ELSE LengthOf[heap[Chain[i]].payload] + w[i + 1]]
    BY Zenon DEF Held
  <2>2. \E w : w = [i \in 1 .. Len(Chain) + 1 |->
                 IF i = Len(Chain) + 1 THEN 0 ELSE LengthOf[heap[Chain[i]].payload] + w[i + 1]]
    BY <1>2
  <2> QED
    BY <2>1, <2>2, Zenon
<1>a PICK f : f = [k \in 0 .. n |-> Held[n + 1 - k]]
  OBVIOUS
<1>b PICK g : g = [k \in 0 .. n |-> rest[n + 1 - k]]
  OBVIOUS
<1>4. Follows(f, g, n)
  <2>1. f[0] = Held[n + 1] /\ g[0] = rest[n + 1]
    BY <1>a, <1>b
  <2>2. Held[n + 1] = 0
    BY <1>1, <1>3
  <2>3. rest[n + 1] = 0
    BY DEF Listed
  <2>4. ASSUME NEW k \in 1 .. n, f[k - 1] = g[k - 1]
        PROVE  f[k] = g[k]
    <3> PICK i \in 1 .. n : i = n + 1 - k
      OBVIOUS
    <3>1. f[k] = Held[i] /\ g[k] = rest[i]
      BY <1>a, <1>b
    <3>2. f[k - 1] = Held[i + 1] /\ g[k - 1] = rest[i + 1]
      <4>1. k - 1 \in 0 .. n /\ n + 1 - (k - 1) = i + 1
        OBVIOUS
      <4> QED
        BY <1>a, <1>b, <4>1
    <3>3. Held[i] = LengthOf[heap[order[i]].payload] + Held[i + 1]
      <4>1. i \in 1 .. Len(Chain) + 1 /\ i # Len(Chain) + 1 /\ Chain[i] = order[i]
        BY <1>1
      <4>2. \A j \in 1 .. Len(Chain) + 1 : Held[j] =
              IF j = Len(Chain) + 1 THEN 0 ELSE LengthOf[heap[Chain[j]].payload] + Held[j + 1]
        BY <1>3, Zenon
      <4>3. Held[i] = LengthOf[heap[Chain[i]].payload] + Held[i + 1]
        BY <4>1, <4>2, Zenon
      <4> QED
        BY <4>1, <4>3, Zenon
    <3>4. rest[i] = LengthOf[heap[order[i]].payload] + rest[i + 1]
      BY DEF Listed
    <3> QED
      BY <2>4, <3>1, <3>2, <3>3, <3>4
  <2> QED
    BY <2>1, <2>2, <2>3, <2>4 DEF Follows
<1>5. f[n] = g[n]
  <2>1. \A k \in 0 .. n : f[k] = g[k]
    BY <1>4, SameSteps
  <2>2. n \in 0 .. n
    OBVIOUS
  <2> QED
    BY <2>1, <2>2
<1>6. n \in 0 .. n /\ n + 1 - n = 1
  OBVIOUS
<1> QED
  BY <1>a, <1>b, <1>5, <1>6

-----------------------------------------------------------------------------
\* Appending to the second of two sequences appends to both of them together.
LEMMA AppendConcat ==
  \A a, b \in Seq(Payloads) : \A x \in Payloads : Append(a \o b, x) = a \o Append(b, x)
OBVIOUS

\* The first of the second sequence moves to the end of the first one.
LEMMA MoveFirst ==
  \A a, b, c \in Seq(Payloads) :
    /\ Len(b) = Len(c) + 1
    /\ \A i \in 1 .. Len(c) : c[i] = b[i + 1]
    => a \o b = Append(a, b[1]) \o c
<1> SUFFICES ASSUME NEW a \in Seq(Payloads), NEW b \in Seq(Payloads), NEW c \in Seq(Payloads),
                    Len(b) = Len(c) + 1, \A i \in 1 .. Len(c) : c[i] = b[i + 1]
             PROVE  a \o b = Append(a, b[1]) \o c
  OBVIOUS
<1>1. b[1] \in Payloads
  OBVIOUS
<1>2. Append(a, b[1]) \in Seq(Payloads) /\ Len(Append(a, b[1])) = Len(a) + 1
  BY <1>1
<1>3. Len(a \o b) = Len(Append(a, b[1]) \o c)
  BY <1>2
<1>4. \A i \in 1 .. Len(a \o b) : (a \o b)[i] = (Append(a, b[1]) \o c)[i]
  BY <1>1, <1>2
<1> QED
  BY <1>1, <1>2, <1>3, <1>4, SeqEqual

LEMMA ReleaseHolds == IInv /\ wt_release => IInv'
<1> SUFFICES ASSUME IInv, wt_release PROVE IInv'
  OBVIOUS
<1> PICK n \in Nat : \E order \in [1 .. n -> Nodes], rest \in [1 .. n + 1 -> Nat] :
                       Listed(n, order, rest)
  BY DEF IInv
<1> PICK order \in [1 .. n -> Nodes], rest \in [1 .. n + 1 -> Nat] : Listed(n, order, rest)
  OBVIOUS
<1>1. OnChain = Allocated
  BY OnChainIsAllocated DEF IInv
<1>2. heap' = [m \in {} |-> heap[m]]
  BY <1>1 DEF wt_release, Freed
<1>3. Allocated' = {}
  BY <1>2 DEF Allocated
<1>4. TypeOK'
  <2>1. heap' \in [Allocated' -> [payload : Payloads, next : Nodes \cup {Null}]]
    BY <1>2, <1>3
  <2> QED
    BY <1>3, <2>1 DEF IInv, TypeOK, wt_release, PushStatuses
<1> PICK empty : empty = [i \in 1 .. 0 |-> Null]
  OBVIOUS
<1> PICK zero : zero = [i \in 1 .. 1 |-> 0]
  OBVIOUS
<1>5. Listed(0, empty, zero)'
  <2>1. arrived' \in Nat
    BY <1>4 DEF TypeOK
  <2> QED
    BY <1>3, <2>1 DEF Listed, wt_release
<1>6. empty \in [1 .. 0 -> Nodes] /\ zero \in [1 .. 0 + 1 -> Nat]
  OBVIOUS
<1>7. \E o \in [1 .. 0 -> Nodes], r \in [1 .. 0 + 1 -> Nat] : Listed(0, o, r)'
  BY <1>5, <1>6
<1>8. count' <= MaxCount /\ bytes' <= MaxBytes
  BY DatagramAssumption DEF wt_release
<1> QED
  BY <1>4, <1>7, <1>8 DEF IInv

-----------------------------------------------------------------------------
\* The list with a node more at its end.
Longer(n, order, x) == [i \in 1 .. n + 1 |-> IF i = n + 1 THEN x ELSE order[i]]

Heavier(n, rest, w) == [i \in 1 .. n + 1 + 1 |-> IF i = n + 1 + 1 THEN 0 ELSE rest[i] + w]

\* A datagram the queue accepts goes into a free node x behind the last one.
LEMMA AcceptHolds ==
  ASSUME IInv, NEW p \in Payloads, NEW x \in Nodes \ Allocated,
         alive, ~Full(p), arrived < MaxArriving, arrived' = arrived + 1,
         heap' = Linked(x, p),
         head' = IF tail = Null THEN x ELSE head,
         tail' = x, count' = count + 1, bytes' = bytes + LengthOf[p],
         queued' = Append(queued, p), reply' \in PushStatuses,
         UNCHANGED <<alive, received>>
  PROVE  IInv'
<1> PICK n \in Nat : \E order \in [1 .. n -> Nodes], rest \in [1 .. n + 1 -> Nat] :
                       Listed(n, order, rest)
  BY DEF IInv
<1> PICK order \in [1 .. n -> Nodes], rest \in [1 .. n + 1 -> Nat] : Listed(n, order, rest)
  OBVIOUS
<1>1. TypeOK
  BY DEF IInv
<1>2. LengthOf[p] \in Nat /\ MaxBytes \in Nat /\ MaxCount \in Nat /\ Null \notin Nodes
  BY DatagramAssumption
<1>3. Allocated' = Allocated \cup {x}
  BY DEF Allocated, Linked
<1>4. count' <= MaxCount /\ bytes' <= MaxBytes
  <2>1. count \in Nat /\ bytes \in Nat
    BY <1>1 DEF TypeOK
  <2> QED
    BY <1>2, <2>1 DEF Full
<1>5. \A m \in Allocated : heap'[m] = IF m = tail THEN [heap[m] EXCEPT !.next = x] ELSE heap[m]
  BY DEF Linked, Allocated
<1>6. heap'[x] = [payload |-> p, next |-> Null]
  BY DEF Linked
<1>7. \A m \in Allocated : /\ heap[m] \in [payload : Payloads, next : Nodes \cup {Null}]
                           /\ heap'[m].payload = heap[m].payload
                           /\ m # tail => heap'[m].next = heap[m].next
                           /\ m = tail => heap'[m].next = x
  <2> TAKE m \in Allocated
  <2>1. heap[m] \in [payload : Payloads, next : Nodes \cup {Null}]
    BY <1>1 DEF TypeOK
  <2> QED
    BY <1>5, <2>1
<1>8. TypeOK'
  <2>1. heap' \in [Allocated' -> [payload : Payloads, next : Nodes \cup {Null}]]
    <3>1. heap' = [m \in Allocated' |-> heap'[m]]
      BY <1>3 DEF Linked
    <3>2. ASSUME NEW m \in Allocated'
          PROVE  heap'[m] \in [payload : Payloads, next : Nodes \cup {Null}]
      <4>1. CASE m = x
        BY <1>6, <4>1
      <4>2. CASE m \in Allocated
        <5>1. heap[m] \in [payload : Payloads, next : Nodes \cup {Null}]
          BY <1>7, <4>2
        <5> QED
          BY <1>5, <4>2, <5>1
      <4> QED
        BY <1>3, <4>1, <4>2
    <3> QED
      BY <3>1, <3>2
  <2>2. Append(queued, p) \in Seq(Payloads)
    BY <1>1, AppendProperties DEF TypeOK
  <2>3. Allocated' \subseteq Nodes
    BY <1>1, <1>3 DEF TypeOK
  <2>4. head' \in Allocated' \cup {Null} /\ tail' \in Allocated' \cup {Null}
    BY <1>1, <1>3 DEF TypeOK
  <2>5. count' \in Nat /\ bytes' \in Nat /\ arrived' \in 0 .. MaxArriving
    BY <1>1, <1>2, DatagramAssumption DEF TypeOK
  <2>6. alive' \in BOOLEAN /\ reply' \in PushStatuses \cup {"NOT_FOUND"} /\ received' \in Seq(Payloads)
    BY <1>1 DEF TypeOK
  <2> QED
    BY <2>1, <2>2, <2>3, <2>4, <2>5, <2>6 DEF TypeOK
<1> PICK o : o = Longer(n, order, x)
  OBVIOUS
<1> PICK r : r = Heavier(n, rest, LengthOf[p])
  OBVIOUS
<1>9. /\ o \in [1 .. n + 1 -> Nodes]
      /\ o[n + 1] = x
      /\ \A i \in 1 .. n : o[i] = order[i] /\ order[i] \in Allocated /\ order[i] # x
  <2>1. \A i \in 1 .. n + 1 : (IF i = n + 1 THEN x ELSE order[i]) \in Nodes
    <3> TAKE i \in 1 .. n + 1
    <3>1. i # n + 1 => i \in 1 .. n
      OBVIOUS
    <3> QED
      BY <3>1
  <2>2. o \in [1 .. n + 1 -> Nodes]
    BY <2>1 DEF Longer
  <2>3. o[n + 1] = x
    BY DEF Longer
  <2>4. \A i \in 1 .. n : o[i] = order[i]
    BY DEF Longer
  <2>5. \A i \in 1 .. n : order[i] \in Allocated
    BY DEF Listed
  <2> QED
    BY <2>2, <2>3, <2>4, <2>5
<1>10. /\ r \in [1 .. n + 1 + 1 -> Nat]
       /\ r[n + 1 + 1] = 0
       /\ \A i \in 1 .. n + 1 : r[i] = rest[i] + LengthOf[p]
  <2>1. \A i \in 1 .. n + 1 + 1 : (IF i = n + 1 + 1 THEN 0 ELSE rest[i] + LengthOf[p]) \in Nat
    <3> TAKE i \in 1 .. n + 1 + 1
    <3>1. i # n + 1 + 1 => i \in 1 .. n + 1
      OBVIOUS
    <3>2. i \in 1 .. n + 1 => rest[i] \in Nat
      OBVIOUS
    <3> QED
      BY <1>2, <3>1, <3>2
  <2>2. r \in [1 .. n + 1 + 1 -> Nat]
    BY <2>1 DEF Heavier
  <2>3. r[n + 1 + 1] = 0
    BY DEF Heavier
  <2>4. \A i \in 1 .. n + 1 : r[i] = rest[i] + LengthOf[p]
    <3> TAKE i \in 1 .. n + 1
    <3>1. i \in 1 .. n + 1 + 1 /\ i # n + 1 + 1
      OBVIOUS
    <3> QED
      BY <3>1 DEF Heavier
  <2> QED
    BY <2>2, <2>3, <2>4
<1>11. Listed(n + 1, o, r)'
  <2>1. n + 1 <= arrived'
    BY <1>1 DEF Listed, TypeOK
  <2>2. \A m \in Allocated' : \E i \in 1 .. n + 1 : o[i] = m
    <3> TAKE m \in Allocated'
    <3>1. CASE m = x
      BY <1>9, <3>1
    <3>2. CASE m \in Allocated
      <4> PICK i \in 1 .. n : order[i] = m
        BY <3>2 DEF Listed
      <4> QED
        BY <1>9
    <3> QED
      BY <1>3, <3>1, <3>2
  <2>3. \A i, j \in 1 .. n + 1 : o[i] = o[j] => i = j
    <3>1. \A i, j \in 1 .. n : order[i] = order[j] => i = j
      BY DEF Listed
    <3> QED
      BY <1>9, <3>1
  <2>4. \A i \in 1 .. n + 1 : o[i] \in Allocated'
    BY <1>3, <1>9
  <2>5. head' = IF n + 1 = 0 THEN Null ELSE o[1]
    <3>1. CASE n = 0
      BY <1>9, <3>1 DEF Listed
    <3>2. CASE n # 0
      <4>1. tail = order[n] /\ head = order[1] /\ n \in 1 .. n /\ 1 \in 1 .. n
        BY <3>2 DEF Listed
      <4>2. tail # Null
        BY <1>1, <1>2, <1>9, <4>1 DEF TypeOK
      <4> QED
        BY <1>9, <4>1, <4>2
    <3> QED
      BY <3>1, <3>2
  <2>6. tail' = IF n + 1 = 0 THEN Null ELSE o[n + 1]
    BY <1>9
  <2>7. \A i \in 1 .. n + 1 : heap'[o[i]].next = IF i = n + 1 THEN Null ELSE o[i + 1]
    <3> TAKE i \in 1 .. n + 1
    <3>1. CASE i = n + 1
      BY <1>6, <1>9, <3>1
    <3>2. CASE i = n /\ i # n + 1
      <4>1. o[i] = tail /\ o[i] \in Allocated
        BY <1>9, <3>2 DEF Listed
      <4> QED
        BY <1>7, <1>9, <3>2, <4>1
    <3>3. CASE i # n /\ i # n + 1
      <4>1. i \in 1 .. n /\ i + 1 \in 1 .. n
        BY <3>3
      <4>2. heap[order[i]].next = order[i + 1]
        BY <3>3, <4>1 DEF Listed
      <4>3. order[i] # tail
        <5>1. tail = order[n] /\ n \in 1 .. n
          BY <4>1 DEF Listed
        <5> QED
          BY <3>3, <4>1, <5>1 DEF Listed
      <4> QED
        BY <1>7, <1>9, <3>3, <4>1, <4>2, <4>3
    <3> QED
      BY <3>1, <3>2, <3>3
  <2>8. count' = n + 1
    BY DEF Listed
  <2>9. \A i \in 1 .. n + 1 : r[i] = LengthOf[heap'[o[i]].payload] + r[i + 1]
    <3> TAKE i \in 1 .. n + 1
    <3>1. CASE i = n + 1
      <4>1. rest[n + 1] = 0
        BY DEF Listed
      <4> QED
        BY <1>2, <1>6, <1>9, <1>10, <3>1, <4>1
    <3>2. CASE i \in 1 .. n
      <4>1. rest[i] = LengthOf[heap[order[i]].payload] + rest[i + 1]
        BY <3>2 DEF Listed
      <4>2. heap'[o[i]].payload = heap[order[i]].payload /\ heap[order[i]].payload \in Payloads
        BY <1>7, <1>9, <3>2
      <4>3. r[i] = rest[i] + LengthOf[p] /\ r[i + 1] = rest[i + 1] + LengthOf[p]
        BY <1>10, <3>2
      <4>4. LengthOf[heap[order[i]].payload] \in Nat /\ rest[i] \in Nat /\ rest[i + 1] \in Nat
        <5>1. i \in 1 .. n + 1 /\ i + 1 \in 1 .. n + 1
          BY <3>2
        <5>2. rest[i] \in Nat /\ rest[i + 1] \in Nat
          BY <5>1
        <5>3. LengthOf \in [Payloads -> Nat]
          BY DatagramAssumption
        <5> QED
          BY <4>2, <5>2, <5>3
      <4> QED
        BY <1>2, <4>1, <4>2, <4>3, <4>4
    <3> QED
      BY <3>1, <3>2
  <2>10. bytes' = r[1]
    <3>1. bytes = rest[1] /\ 1 \in 1 .. n + 1
      BY DEF Listed
    <3> QED
      BY <1>10, <3>1
  <2>11. queued' = received' \o [i \in 1 .. n + 1 |-> heap'[o[i]].payload]
    <3>a PICK c : c = [i \in 1 .. n |-> heap[order[i]].payload]
      OBVIOUS
    <3>1. c \in Seq(Payloads) /\ Len(c) = n
      BY <1>1, <1>9, <3>a, ContentIsSeq
    <3>2. queued = received \o c
      BY <3>a DEF Listed
    <3>3. Append(queued, p) = received \o Append(c, p)
      <4>1. received \in Seq(Payloads)
        BY <1>1 DEF TypeOK
      <4>2. Append(received \o c, p) = received \o Append(c, p)
        BY <3>1, <4>1, AppendConcat, Zenon
      <4> QED
        BY <3>2, <4>2
    <3>4. Append(c, p) = [i \in 1 .. n + 1 |-> heap'[o[i]].payload]
      <4> PICK d : d = Append(c, p)
        OBVIOUS
      <4>1. /\ d \in Seq(Payloads) /\ Len(d) = n + 1 /\ d[n + 1] = p
            /\ \A i \in 1 .. n : d[i] = c[i]
        BY <3>1, AppendProperties
      <4>2. d \in [1 .. n + 1 -> Payloads]
        BY <4>1, LenProperties
      <4>3. \A i \in 1 .. n + 1 : d[i] = heap'[o[i]].payload
        <5> TAKE i \in 1 .. n + 1
        <5>1. CASE i = n + 1
          BY <1>6, <1>9, <4>1, <5>1
        <5>2. CASE i \in 1 .. n
          <6>1. o[i] = order[i] /\ order[i] \in Allocated
            BY <1>9, <5>2
          <6>2. heap'[o[i]].payload = heap[order[i]].payload
            BY <1>7, <6>1
          <6>3. c[i] = heap[order[i]].payload
            BY <3>a, <5>2
          <6>4. d[i] = c[i]
            BY <4>1, <5>2
          <6> QED
            BY <6>2, <6>3, <6>4, Zenon
        <5>3. i = n + 1 \/ i \in 1 .. n
          OBVIOUS
        <5> QED
          BY <5>1, <5>2, <5>3, Zenon
      <4> QED
        BY <4>2, <4>3
    <3> QED
      BY <3>3, <3>4
  <2> QED
    BY <1>10, <2>1, <2>2, <2>3, <2>4, <2>5, <2>6, <2>7, <2>8, <2>9, <2>10, <2>11 DEF Listed
<1>12. \E o2 \in [1 .. n + 1 -> Nodes], r2 \in [1 .. n + 1 + 1 -> Nat] : Listed(n + 1, o2, r2)'
  BY <1>9, <1>10, <1>11
<1>13. n + 1 \in Nat
  OBVIOUS
<1> QED
  BY <1>4, <1>8, <1>12, <1>13 DEF IInv

-----------------------------------------------------------------------------
\* The list without its first node.
Shorter(m, order) == [i \in 1 .. m |-> order[i + 1]]

Lighter(m, rest) == [i \in 1 .. m + 1 |-> rest[i + 1]]

\* A datagram that is taken leaves the list at its head.
LEMMA TakeHolds ==
  ASSUME IInv, alive, head # Null,
         received' = Append(received, heap[head].payload),
         tail' = NextTail, head' = heap[head].next,
         count' = IF count # 0 THEN count - 1 ELSE 0,
         bytes' = BytesWithout(heap[head].payload),
         heap' = [a \in Allocated \ {head} |-> heap[a]],
         reply' = "OK",
         UNCHANGED <<alive, arrived, queued>>
  PROVE  IInv'
<1> PICK n \in Nat : \E order \in [1 .. n -> Nodes], rest \in [1 .. n + 1 -> Nat] :
                       Listed(n, order, rest)
  BY DEF IInv
<1> PICK order \in [1 .. n -> Nodes], rest \in [1 .. n + 1 -> Nat] : Listed(n, order, rest)
  OBVIOUS
<1>1. TypeOK
  BY DEF IInv
<1>2. MaxBytes \in Nat /\ MaxCount \in Nat /\ Null \notin Nodes /\ LengthOf \in [Payloads -> Nat]
  BY DatagramAssumption
<1>3. n # 0
  BY DEF Listed
<1> PICK m \in Nat : m + 1 = n
  <2>1. n - 1 \in Nat /\ n - 1 + 1 = n
    BY <1>3
  <2> QED
    BY <2>1
<1>4. /\ head = order[1] /\ tail = order[n]
      /\ 1 \in 1 .. n /\ n \in 1 .. n
      /\ order[1] \in Allocated
  BY <1>3 DEF Listed
<1>5. Allocated' = Allocated \ {head}
  BY DEF Allocated
<1>6. \A a \in Allocated : heap[a] \in [payload : Payloads, next : Nodes \cup {Null}]
  BY <1>1 DEF TypeOK
<1>7. \A i \in 1 .. m : /\ i + 1 \in 1 .. n /\ i \in 1 .. n /\ i # n
                        /\ order[i + 1] \in Allocated'
                        /\ heap'[order[i + 1]] = heap[order[i + 1]]
  <2> TAKE i \in 1 .. m
  <2>1. i + 1 \in 1 .. n /\ i \in 1 .. n /\ i # n /\ i + 1 # 1
    OBVIOUS
  <2>2. order[i + 1] \in Allocated /\ order[i + 1] # order[1]
    BY <1>4, <2>1 DEF Listed
  <2>3. order[i + 1] \in Allocated \ {head}
    BY <1>4, <2>2
  <2> QED
    BY <1>5, <2>1, <2>3
<1>a PICK o : o = Shorter(m, order)
  OBVIOUS
<1>b PICK r : r = Lighter(m, rest)
  OBVIOUS
<1>8. o \in [1 .. m -> Nodes] /\ \A i \in 1 .. m : o[i] = order[i + 1]
  <2>1. \A i \in 1 .. m : order[i + 1] \in Nodes
    BY <1>7
  <2> QED
    BY <1>a, <2>1 DEF Shorter
<1>9. r \in [1 .. m + 1 -> Nat] /\ \A i \in 1 .. m + 1 : r[i] = rest[i + 1]
  <2>1. \A i \in 1 .. m + 1 : rest[i + 1] \in Nat
    <3> TAKE i \in 1 .. m + 1
    <3>1. i + 1 \in 1 .. n + 1
      OBVIOUS
    <3> QED
      BY <3>1
  <2> QED
    BY <1>b, <2>1 DEF Lighter
<1>10. heap[head].payload \in Payloads /\ LengthOf[heap[head].payload] \in Nat
  BY <1>2, <1>4, <1>6
<1>11. heap[head].next = IF n = 1 THEN Null ELSE order[1 + 1]
  <2>1. \A i \in 1 .. n : heap[order[i]].next = IF i = n THEN Null ELSE order[i + 1]
    BY DEF Listed
  <2> QED
    BY <1>4, <2>1
<1>12. bytes' = r[1] /\ bytes' <= bytes
  <2>1. rest[1] = LengthOf[heap[order[1]].payload] + rest[1 + 1]
    BY <1>4 DEF Listed
  <2>2. bytes = rest[1]
    BY DEF Listed
  <2>3. 1 + 1 \in 1 .. n + 1
    BY <1>3
  <2>4. rest[1 + 1] \in Nat
    BY <2>3
  <2>5. r[1] = rest[1 + 1]
    BY <1>9
  <2>6. bytes' = rest[1 + 1] /\ bytes' <= bytes
    <3> PICK w \in Nat : w = LengthOf[heap[head].payload]
      BY <1>10
    <3> PICK v \in Nat : v = rest[1 + 1]
      BY <2>4
    <3>1. bytes = w + v
      BY <1>4, <2>1, <2>2
    <3>2. bytes' = IF bytes >= w THEN bytes - w ELSE 0
      BY DEF BytesWithout
    <3> PICK u \in Nat : u = bytes
      BY <1>1 DEF TypeOK
    <3>3. u >= w /\ u - w = v /\ v <= u
      <4>1. u = w + v
        BY <3>1, Zenon
      <4>2. u >= w
        BY <4>1
      <4>3. u - w = v
        BY <4>1
      <4>4. v <= u
        BY <4>1
      <4> QED
        BY <4>2, <4>3, <4>4
    <3> QED
      BY <3>2, <3>3, Zenon
  <2> QED
    BY <2>5, <2>6
<1>13. count' = m
  BY <1>3 DEF Listed
<1>14. head' = IF m = 0 THEN Null ELSE o[1]
  <2>1. CASE m = 0
    BY <1>11, <2>1
  <2>2. CASE m # 0
    <3>1. o[1] = order[1 + 1] /\ n # 1
      BY <1>8, <2>2
    <3> QED
      BY <1>11, <2>2, <3>1
  <2> QED
    BY <2>1, <2>2
<1>15. tail' = IF m = 0 THEN Null ELSE o[m]
  <2>1. CASE m = 0
    BY <1>11, <2>1 DEF NextTail
  <2>2. CASE m # 0
    <3>1. o[m] = order[n] /\ n # 1 /\ 1 \in 1 .. m
      BY <1>8, <2>2
    <3>2. order[1 + 1] \in Nodes
      BY <1>7, <3>1
    <3> QED
      BY <1>2, <1>4, <1>11, <2>2, <3>1, <3>2 DEF NextTail
  <2> QED
    BY <2>1, <2>2
<1>16. \A a \in Allocated' : \E i \in 1 .. m : o[i] = a
  <2> TAKE a \in Allocated'
  <2>1. a \in Allocated /\ a # order[1]
    BY <1>4, <1>5
  <2> PICK j \in 1 .. n : order[j] = a
    BY <2>1 DEF Listed
  <2>2. j # 1
    BY <2>1
  <2> PICK i \in 1 .. m : i + 1 = j
    <3>1. j - 1 \in 1 .. m /\ j - 1 + 1 = j
      BY <2>2
    <3> QED
      BY <3>1
  <2> QED
    BY <1>8
<1>17. TypeOK'
  <2>1. heap' \in [Allocated' -> [payload : Payloads, next : Nodes \cup {Null}]]
    BY <1>5, <1>6
  <2>2. Allocated' \subseteq Nodes
    BY <1>1, <1>5 DEF TypeOK
  <2>3. head' \in Allocated' \cup {Null}
    <3>1. m # 0 => 1 \in 1 .. m
      OBVIOUS
    <3> QED
      BY <1>7, <1>8, <1>14, <3>1
  <2>4. tail' \in Allocated' \cup {Null}
    <3>1. m # 0 => m \in 1 .. m
      OBVIOUS
    <3> QED
      BY <1>7, <1>8, <1>15, <3>1
  <2>5. bytes' \in Nat
    <3>1. 1 \in 1 .. m + 1
      OBVIOUS
    <3> QED
      BY <1>9, <1>12, <3>1
  <2>6. Append(received, heap[head].payload) \in Seq(Payloads)
    BY <1>1, <1>10, AppendProperties DEF TypeOK
  <2> QED
    BY <1>1, <1>13, <2>1, <2>2, <2>3, <2>4, <2>5, <2>6 DEF TypeOK, PushStatuses
<1>18. Listed(m, o, r)'
  <2>1. m <= arrived'
    BY <1>1 DEF Listed, TypeOK
  <2>2. \A i, j \in 1 .. m : o[i] = o[j] => i = j
    <3> TAKE i, j \in 1 .. m
    <3>1. order[i + 1] = order[j + 1] => i + 1 = j + 1
      <4>1. i + 1 \in 1 .. n /\ j + 1 \in 1 .. n
        BY <1>7
      <4>2. \A a, b \in 1 .. n : order[a] = order[b] => a = b
        BY DEF Listed
      <4> QED
        BY <4>1, <4>2
    <3>2. o[i] = order[i + 1] /\ o[j] = order[j + 1]
      BY <1>8
    <3> QED
      BY <3>1, <3>2
  <2>3. \A i \in 1 .. m : o[i] \in Allocated'
    BY <1>7, <1>8
  <2>4. \A i \in 1 .. m : heap'[o[i]].next = IF i = m THEN Null ELSE o[i + 1]
    <3> TAKE i \in 1 .. m
    <3>1. heap'[o[i]] = heap[order[i + 1]]
      BY <1>7, <1>8
    <3>2. heap[order[i + 1]].next = IF i + 1 = n THEN Null ELSE order[i + 1 + 1]
      <4>1. i + 1 \in 1 .. n
        BY <1>7
      <4> QED
        BY <4>1 DEF Listed
    <3>3. i # m => o[i + 1] = order[i + 1 + 1]
      BY <1>8
    <3>4. i = m <=> i + 1 = n
      OBVIOUS
    <3> QED
      BY <3>1, <3>2, <3>3, <3>4
  <2>5. r[m + 1] = 0
    <3>1. m + 1 \in 1 .. m + 1 /\ rest[n + 1] = 0
      BY DEF Listed
    <3> QED
      BY <1>9, <3>1
  <2>6. \A i \in 1 .. m : r[i] = LengthOf[heap'[o[i]].payload] + r[i + 1]
    <3> TAKE i \in 1 .. m
    <3>1. heap'[o[i]] = heap[order[i + 1]]
      BY <1>7, <1>8
    <3>2. rest[i + 1] = LengthOf[heap[order[i + 1]].payload] + rest[i + 1 + 1]
      <4>1. i + 1 \in 1 .. n
        BY <1>7
      <4> QED
        BY <4>1 DEF Listed
    <3>3. r[i] = rest[i + 1] /\ r[i + 1] = rest[i + 1 + 1]
      <4>1. i \in 1 .. m + 1 /\ i + 1 \in 1 .. m + 1
        OBVIOUS
      <4> QED
        BY <1>9, <4>1
    <3> QED
      BY <3>1, <3>2, <3>3
  <2>7. queued' = received' \o [i \in 1 .. m |-> heap'[o[i]].payload]
    <3>a PICK b : b = [i \in 1 .. n |-> heap[order[i]].payload]
      OBVIOUS
    <3>b PICK c : c = [i \in 1 .. m |-> heap'[o[i]].payload]
      OBVIOUS
    <3>1. b \in Seq(Payloads) /\ Len(b) = n
      <4>1. \A i \in 1 .. n : order[i] \in Allocated
        BY DEF Listed
      <4> QED
        BY <1>1, <3>a, <4>1, ContentIsSeq
    <3>2. c \in Seq(Payloads) /\ Len(c) = m
      <4>1. \A i \in 1 .. m : heap'[o[i]].payload \in Payloads
        <5> TAKE i \in 1 .. m
        <5>1. heap'[o[i]] = heap[order[i + 1]] /\ order[i + 1] \in Allocated
          BY <1>5, <1>7, <1>8
        <5> QED
          BY <1>6, <5>1
      <4>2. c \in [1 .. m -> Payloads]
        BY <3>b, <4>1
      <4> QED
        BY <4>2
    <3>3. \A i \in 1 .. m : c[i] = b[i + 1]
      <4> TAKE i \in 1 .. m
      <4>1. i + 1 \in 1 .. n /\ heap'[o[i]] = heap[order[i + 1]]
        BY <1>7, <1>8
      <4>2. b[i + 1] = heap[order[i + 1]].payload
        BY <3>a, <4>1
      <4>3. c[i] = heap'[o[i]].payload
        BY <3>b
      <4> QED
        BY <4>1, <4>2, <4>3
    <3>4. b[1] = heap[head].payload
      BY <1>4, <3>a
    <3>5. received \in Seq(Payloads)
      BY <1>1 DEF TypeOK
    <3>6. received \o b = Append(received, b[1]) \o c
      <4>1. Len(b) = Len(c) + 1 /\ \A i \in 1 .. Len(c) : c[i] = b[i + 1]
        BY <3>1, <3>2, <3>3
      <4> QED
        BY <3>1, <3>2, <3>5, <4>1, MoveFirst, Zenon
    <3>7. queued = received \o b
      BY <3>a DEF Listed
    <3> QED
      BY <3>b, <3>4, <3>6, <3>7
  <2> QED
    BY <1>12, <1>13, <1>14, <1>15, <1>16, <2>1, <2>2, <2>3, <2>4, <2>5, <2>6, <2>7 DEF Listed
<1>19. \E o2 \in [1 .. m -> Nodes], r2 \in [1 .. m + 1 -> Nat] : Listed(m, o2, r2)'
  BY <1>8, <1>9, <1>18
<1>20. count' <= MaxCount /\ bytes' <= MaxBytes
  <2>1. count = n /\ count <= MaxCount /\ bytes <= MaxBytes
    BY DEF IInv, Listed
  <2>2. bytes \in Nat /\ bytes' \in Nat
    BY <1>1, <1>17 DEF TypeOK
  <2> QED
    BY <1>2, <1>12, <1>13, <2>1, <2>2
<1> QED
  BY <1>17, <1>19, <1>20 DEF IInv

-----------------------------------------------------------------------------
\* The invariant holds of every reachable state.
LEMMA Invariance == Spec => []IInv
<1>1. Init => IInv
  BY InitHolds
<1>2. IInv /\ [Next]_vars => IInv'
  <2> SUFFICES ASSUME IInv, [Next]_vars PROVE IInv'
    OBVIOUS
  <2>0. TypeOK
    BY DEF IInv
  <2>1. ASSUME NEW p \in Payloads, wt_enqueue_datagram(p) PROVE IInv'
    <3>0. arrived \in Nat /\ arrived < MaxArriving /\ arrived' = arrived + 1
      BY <2>0, <2>1 DEF TypeOK, wt_enqueue_datagram
    <3>1. CASE UNCHANGED <<heap, head, tail, count, bytes, queued>>
               /\ reply' \in {"INVALID_ARGUMENT", "OUT_OF_MEMORY"}
      <4>1. UNCHANGED <<alive, received>>
        BY <2>1 DEF wt_enqueue_datagram
      <4>2. arrived' \in 0 .. MaxArriving /\ arrived <= arrived' /\ arrived' \in Nat
        BY <3>0, DatagramAssumption
      <4>3. reply' \in PushStatuses
        BY <3>1 DEF PushStatuses
      <4>4. TypeOK'
        BY <2>0, <3>1, <4>1, <4>2, <4>3 DEF TypeOK, Allocated
      <4> QED
        BY <3>1, <4>1, <4>2, <4>4, SameList
    <3>2. CASE /\ alive /\ ~Full(p)
               /\ \E n \in Nodes \ Allocated :
                    /\ heap' = Linked(n, p)
                    /\ head' = IF tail = Null THEN n ELSE head
                    /\ tail' = n
               /\ count' = count + 1
               /\ bytes' = bytes + LengthOf[p]
               /\ queued' = Append(queued, p)
               /\ reply' \in PushStatuses
      <4> PICK x \in Nodes \ Allocated :
                    /\ heap' = Linked(x, p)
                    /\ head' = IF tail = Null THEN x ELSE head
                    /\ tail' = x
        BY <3>2
      <4>1. UNCHANGED <<alive, received>>
        BY <2>1 DEF wt_enqueue_datagram
      <4> QED
        BY <3>0, <3>2, <4>1, AcceptHolds
    <3> QED
      BY <2>1, <3>1, <3>2 DEF wt_enqueue_datagram
  <2>2. ASSUME NEW n \in BufferLengths, wt_session_receive_datagram(n) PROVE IInv'
    <3>1. CASE UNCHANGED <<heap, head, tail, count, bytes, alive, arrived, queued, received>>
               /\ reply' \in {"INVALID_ARGUMENT", "NOT_FOUND"}
      <4>1. TypeOK'
        BY <2>0, <3>1 DEF TypeOK, Allocated, PushStatuses
      <4>2. arrived \in Nat
        BY <2>0 DEF TypeOK
      <4> QED
        BY <3>1, <4>1, <4>2, SameList
    <3>2. CASE ~ (UNCHANGED <<heap, head, tail, count, bytes, alive, arrived, queued, received>>
               /\ reply' \in {"INVALID_ARGUMENT", "NOT_FOUND"})
      <4>1. /\ alive /\ head # Null
            /\ reply' = "OK"
            /\ received' = Append(received, heap[head].payload)
            /\ tail' = NextTail
            /\ head' = heap[head].next
            /\ count' = IF count # 0 THEN count - 1 ELSE 0
            /\ bytes' = BytesWithout(heap[head].payload)
            /\ heap' = [m \in Allocated \ {head} |-> heap[m]]
            /\ UNCHANGED <<alive, arrived, queued>>
        BY <2>2, <3>2 DEF wt_session_receive_datagram
      <4> QED
        BY <4>1, TakeHolds
    <3> QED
      BY <3>1, <3>2
  <2>3. CASE wt_release
    BY <2>3, ReleaseHolds
  <2>4. CASE UNCHANGED vars
    <3>1. TypeOK'
      BY <2>0, <2>4 DEF TypeOK, Allocated, vars
    <3>2. arrived \in Nat
      BY <2>0 DEF TypeOK
    <3> QED
      BY <2>4, <3>1, <3>2, SameList DEF vars
  <2> QED
    BY <2>1, <2>2, <2>3, <2>4 DEF Next
<1> QED
  BY <1>1, <1>2, PTL DEF Spec

\* The addresses, the counters and the histories have their types; the head and
\* the tail are null or allocated, never a node wt_session_receive_datagram freed.
THEOREM TypeCorrect == Spec => []TypeOK
<1>1. IInv => TypeOK
  BY DEF IInv
<1> QED
  BY <1>1, Invariance, PTL

\* Appending, taking and freeing keep the linked list whole: no node leaks and
\* none is reached after it was freed, for any number of datagrams.
THEOREM Whole == Spec => []ListIsWhole
<1>1. IInv => ListIsWhole
  <2> SUFFICES ASSUME IInv PROVE ListIsWhole
    OBVIOUS
  <2> PICK n \in Nat : \E order \in [1 .. n -> Nodes], rest \in [1 .. n + 1 -> Nat] :
                         Listed(n, order, rest)
    BY DEF IInv
  <2> PICK order \in [1 .. n -> Nodes], rest \in [1 .. n + 1 -> Nat] : Listed(n, order, rest)
    OBVIOUS
  <2>0. TypeOK
    BY DEF IInv
  <2>1. OnChain = Allocated
    BY <2>0, OnChainIsAllocated
  <2>2. Chain \in Seq(Nodes) /\ Len(Chain) = n /\ \A i \in 1 .. n : Chain[i] = order[i]
    BY <2>0, WalkIsOrder
  <2>3. Chain = <<>> <=> n = 0
    BY <2>2, EmptySeq
  <2>4. tail = IF Chain = <<>> THEN Null ELSE Chain[Len(Chain)]
    BY <2>2, <2>3 DEF Listed
  <2>5. head = Null <=> tail = Null
    <3>1. n # 0 => 1 \in 1 .. n /\ n \in 1 .. n
      OBVIOUS
    <3>2. n # 0 => order[1] \in Nodes /\ order[n] \in Nodes
      BY <3>1
    <3>3. head = IF n = 0 THEN Null ELSE order[1]
      BY DEF Listed
    <3>4. tail = IF n = 0 THEN Null ELSE order[n]
      BY DEF Listed
    <3> QED
      BY <3>2, <3>3, <3>4, DatagramAssumption
  <2> QED
    BY <2>1, <2>4, <2>5 DEF ListIsWhole
<1> QED
  BY <1>1, Invariance, PTL

\* The two counters are exact, so the two limits wt_enqueue_datagram_from_msquic
\* checks bound what a peer can make the client keep, whatever the lengths.
THEOREM Limits == Spec => []LimitsHold
<1>1. IInv => LimitsHold
  <2> SUFFICES ASSUME IInv PROVE LimitsHold
    OBVIOUS
  <2> PICK n \in Nat : \E order \in [1 .. n -> Nodes], rest \in [1 .. n + 1 -> Nat] :
                         Listed(n, order, rest)
    BY DEF IInv
  <2> PICK order \in [1 .. n -> Nodes], rest \in [1 .. n + 1 -> Nat] : Listed(n, order, rest)
    OBVIOUS
  <2>0. TypeOK
    BY DEF IInv
  <2>1. Len(Chain) = n
    BY <2>0, WalkIsOrder
  <2>2. Held[1] = rest[1]
    BY <2>0, HeldIsRest
  <2>3. count = n /\ bytes = rest[1]
    BY DEF Listed
  <2> QED
    BY <2>1, <2>2, <2>3 DEF LimitsHold, IInv
<1> QED
  BY <1>1, Invariance, PTL

\* What the receivers got and what the list holds are what the queue accepted, in
\* order, as long as the session lives.
THEOREM InOrder == Spec => []FirstInFirstOut
<1>1. IInv => FirstInFirstOut
  <2> SUFFICES ASSUME IInv PROVE FirstInFirstOut
    OBVIOUS
  <2> PICK n \in Nat : \E order \in [1 .. n -> Nodes], rest \in [1 .. n + 1 -> Nat] :
                         Listed(n, order, rest)
    BY DEF IInv
  <2> PICK order \in [1 .. n -> Nodes], rest \in [1 .. n + 1 -> Nat] : Listed(n, order, rest)
    OBVIOUS
  <2>0. TypeOK
    BY DEF IInv
  <2>1. Len(Chain) = n /\ \A i \in 1 .. n : Chain[i] = order[i]
    BY <2>0, WalkIsOrder
  <2>2. [i \in 1 .. Len(Chain) |-> heap[Chain[i]].payload] = [i \in 1 .. n |-> heap[order[i]].payload]
    BY <2>1
  <2> QED
    BY <2>2 DEF FirstInFirstOut, Listed
<1> QED
  BY <1>1, Invariance, PTL
=============================================================================
