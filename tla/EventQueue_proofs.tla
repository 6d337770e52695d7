-------------------------- MODULE EventQueue_proofs --------------------------
(***************************************************************************)
(* Proofs about the event ring for every set of events, every limit and    *)
(* every initial capacity: the window never leaves the array, it holds     *)
(* accepted events only, and the ring implements the bounded FIFO queue.   *)
(***************************************************************************)
EXTENDS EventQueue, SequenceTheorems, TLAPS

\* The inductive invariant: each conjunct needs the others.  A write in bounds
\* needs the window's bounds, and initialized cells need the write in bounds.
IInv == TypeOK /\ WindowInBounds /\ WindowInitialized

LEMMA NextCapacityBounds ==
  ASSUME TypeOK, WindowInBounds, capacity < MaxPending
  PROVE  /\ NextCapacity \in Nat
         /\ NextCapacity > capacity
         /\ NextCapacity <= MaxPending
  BY CapacityAssumption DEF TypeOK, WindowInBounds, NextCapacity

\* After an optional compaction the window starts at a slot and holds the same events.
LEMMA CompactionKeepsWindow ==
  ASSUME IInv,
         NEW start, start = IF MustCompact THEN 0 ELSE offset,
         NEW cells, cells = IF MustCompact THEN CompactedSlots ELSE slots
  PROVE  /\ start \in Nat
         /\ start + count <= capacity
         /\ start + count = capacity => count = capacity
         /\ cells \in [0 .. capacity - 1 -> Events \cup {Garbage}]
         /\ \A i \in 0 .. count - 1 : cells[start + i] = slots[offset + i]
<1>1. CASE MustCompact
  <2>1. \A i \in 0 .. count - 1 : offset + i \in 0 .. capacity - 1
    BY DEF IInv, TypeOK, WindowInBounds
  <2>2. CompactedSlots \in [0 .. capacity - 1 -> Events \cup {Garbage}]
    BY <2>1 DEF IInv, TypeOK, CompactedSlots
  <2>3. \A i \in 0 .. count - 1 : CompactedSlots[i] = slots[offset + i]
    BY DEF IInv, TypeOK, WindowInBounds, CompactedSlots
  <2> QED BY <1>1, <2>2, <2>3 DEF IInv, TypeOK, WindowInBounds
<1>2. CASE ~MustCompact
  BY <1>2 DEF IInv, TypeOK, WindowInBounds, MustCompact
<1> QED BY <1>1, <1>2

\* What a store that succeeds does to the window: it appends e to it.
LEMMA StoreAppends ==
  ASSUME IInv, phase = "open", count < MaxPending,
         NEW e \in Events, Store(e), reply' = Reply("OK", NoEvent)
  PROVE  /\ offset' \in Nat
         /\ count' = count + 1
         /\ capacity' \in Nat
         /\ offset' + count' <= capacity'
         /\ capacity' <= MaxPending
         /\ capacity' > capacity => count = capacity
         /\ slots' \in [0 .. capacity' - 1 -> Events \cup {Garbage}]
         /\ slots'[offset' + count] = e
         /\ \A i \in 0 .. count - 1 : slots'[offset' + i] = slots[offset + i]
<1> DEFINE start == IF MustCompact THEN 0 ELSE offset
           cells == IF MustCompact THEN CompactedSlots ELSE slots
<1>1. /\ start \in Nat
      /\ start + count <= capacity
      /\ start + count = capacity => count = capacity
      /\ cells \in [0 .. capacity - 1 -> Events \cup {Garbage}]
      /\ \A i \in 0 .. count - 1 : cells[start + i] = slots[offset + i]
  <2> HIDE DEF start, cells
  <2>1. start = IF MustCompact THEN 0 ELSE offset
    BY DEF start
  <2>2. cells = IF MustCompact THEN CompactedSlots ELSE slots
    BY DEF cells
  <2> QED BY <2>1, <2>2, CompactionKeepsWindow
<1>2. offset' = start
  BY DEF Store
<1>3. /\ count \in Nat
      /\ capacity \in Nat
      /\ capacity <= MaxPending
      /\ MaxPending \in Nat
  BY CapacityAssumption DEF IInv, TypeOK, WindowInBounds
<1>4. \/ /\ start + count # capacity
         /\ slots' = [cells EXCEPT ![start + count] = e]
         /\ capacity' = capacity
         /\ count' = count + 1
      \/ /\ start + count = capacity
         /\ capacity' = NextCapacity
         /\ slots' = [GrownSlots(cells, NextCapacity) EXCEPT ![start + count] = e]
         /\ count' = count + 1
  BY DEF Store, Reply
<1> HIDE DEF start, cells
<1>5. CASE /\ start + count # capacity
           /\ slots' = [cells EXCEPT ![start + count] = e]
           /\ capacity' = capacity
           /\ count' = count + 1
  <2>1. start + count \in 0 .. capacity - 1
    BY <1>1, <1>3, <1>5
  <2>2. slots' \in [0 .. capacity - 1 -> Events \cup {Garbage}]
    BY <1>1, <1>5, <2>1
  <2>3. slots'[start + count] = e
    BY <1>1, <1>5, <2>1
  <2>4. \A i \in 0 .. count - 1 : slots'[start + i] = cells[start + i]
    BY <1>1, <1>3, <1>5, <2>1
  <2> QED BY <1>1, <1>2, <1>3, <1>5, <2>1, <2>2, <2>3, <2>4
<1>6. CASE /\ start + count = capacity
           /\ capacity' = NextCapacity
           /\ slots' = [GrownSlots(cells, NextCapacity) EXCEPT ![start + count] = e]
           /\ count' = count + 1
  <2>1. /\ NextCapacity \in Nat
        /\ NextCapacity > capacity
        /\ NextCapacity <= MaxPending
    BY <1>1, <1>3, <1>6, NextCapacityBounds DEF IInv
  <2>2. start = 0 /\ count = capacity
    BY <1>1, <1>3, <1>6
  <2>3. /\ GrownSlots(cells, NextCapacity) \in [0 .. NextCapacity - 1 -> Events \cup {Garbage}]
        /\ \A i \in 0 .. capacity - 1 : GrownSlots(cells, NextCapacity)[i] = cells[i]
    BY <1>1, <1>3, <2>1 DEF GrownSlots
  <2>4. start + count \in 0 .. NextCapacity - 1
    BY <1>3, <2>1, <2>2
  <2>5. slots' \in [0 .. NextCapacity - 1 -> Events \cup {Garbage}]
    BY <1>6, <2>3, <2>4
  <2>6. slots'[start + count] = e
    BY <1>6, <2>3, <2>4
  <2>7. \A i \in 0 .. count - 1 : slots'[start + i] = cells[start + i]
    BY <1>3, <1>6, <2>1, <2>2, <2>3
  <2> QED BY <1>1, <1>2, <1>3, <1>6, <2>1, <2>2, <2>4, <2>5, <2>6, <2>7
<1> QED BY <1>4, <1>5, <1>6

\* A store that fails leaves the window as it was, compacted or not.
LEMMA FailedStoreKeepsWindow ==
  ASSUME IInv, NEW e \in Events, Store(e), reply' # Reply("OK", NoEvent)
  PROVE  /\ offset' \in Nat
         /\ count' = count
         /\ count = capacity
         /\ capacity' = capacity
         /\ offset' + count' <= capacity'
         /\ slots' \in [0 .. capacity' - 1 -> Events \cup {Garbage}]
         /\ \A i \in 0 .. count - 1 : slots'[offset' + i] = slots[offset + i]
         /\ reply' = Reply("OUT_OF_MEMORY", NoEvent)
<1> DEFINE start == IF MustCompact THEN 0 ELSE offset
           cells == IF MustCompact THEN CompactedSlots ELSE slots
<1>1. /\ start + count = capacity
      /\ offset' = start
      /\ slots' = cells
      /\ capacity' = capacity
      /\ count' = count
      /\ reply' = Reply("OUT_OF_MEMORY", NoEvent)
  BY DEF Store, Reply
<1> HIDE DEF start, cells
<1>2. start = IF MustCompact THEN 0 ELSE offset
  BY DEF start
<1>3. cells = IF MustCompact THEN CompactedSlots ELSE slots
  BY DEF cells
<1> QED BY <1>1, <1>2, <1>3, CompactionKeepsWindow

LEMMA InitIInv == Init => IInv
  BY CapacityAssumption DEF Init, wt_client_create, IInv, TypeOK, WindowInBounds,
                            WindowInitialized, Reply, Garbage

LEMMA RefusalPreservesIInv ==
  ASSUME IInv,
         NEW s \in {"NOT_FOUND", "CANCELLED", "OUT_OF_MEMORY", "INVALID_ARGUMENT"},
         Refused(s)
  PROVE  IInv'
<1>1. TypeOK'
  BY DEF IInv, TypeOK, Refused, Reply
<1>2. WindowInBounds' /\ WindowInitialized'
  BY DEF IInv, WindowInBounds, WindowInitialized, Refused
<1> QED BY <1>1, <1>2 DEF IInv

LEMMA PushPreservesIInv ==
  ASSUME IInv, NEW e \in Events, wt_push_event(e)
  PROVE  IInv'
<1> USE DEF IInv, Garbage
<1>1. CASE phase # "open" \/ count >= MaxPending
  <2>1. \E s \in {"INVALID_ARGUMENT", "CANCELLED", "OUT_OF_MEMORY"} : Refused(s)
    BY <1>1, CapacityAssumption DEF wt_push_event, TypeOK
  <2> QED BY <2>1, RefusalPreservesIInv
<1>2. CASE phase = "open" /\ count < MaxPending
  <2>1. Store(e) /\ phase' = phase
    BY <1>2, CapacityAssumption DEF wt_push_event, Store, TypeOK
  <2>2. CASE reply' = Reply("OK", NoEvent)
    <3>1. TypeOK'
      BY <1>2, <2>1, <2>2, StoreAppends DEF TypeOK, Reply
    <3>2. WindowInBounds'
      BY <1>2, <2>1, <2>2, StoreAppends DEF WindowInBounds
    <3>3. WindowInitialized'
      <4>1. SUFFICES ASSUME NEW i \in 0 .. count
                     PROVE  slots'[offset' + i] \in Events
        <5>1. count' - 1 = count
          BY <1>2, <2>1, <2>2, StoreAppends DEF TypeOK
        <5> QED BY <5>1 DEF WindowInitialized
      <4>2. CASE i = count
        BY <1>2, <2>1, <2>2, <4>2, StoreAppends
      <4>3. CASE i \in 0 .. count - 1
        BY <1>2, <2>1, <2>2, <4>3, StoreAppends DEF WindowInitialized, TypeOK
      <4> QED BY <4>2, <4>3 DEF TypeOK
    <3> QED BY <3>1, <3>2, <3>3
  <2>3. CASE reply' # Reply("OK", NoEvent)
    <3>1. TypeOK'
      BY <2>1, <2>3, FailedStoreKeepsWindow DEF TypeOK, Reply
    <3>2. WindowInBounds'
      BY <2>1, <2>3, FailedStoreKeepsWindow DEF WindowInBounds
    <3>3. WindowInitialized'
      <4>1. SUFFICES ASSUME NEW i \in 0 .. count - 1
                     PROVE  slots'[offset' + i] \in Events
        BY <2>1, <2>3, FailedStoreKeepsWindow DEF WindowInitialized, TypeOK
      <4> QED BY <2>1, <2>3, FailedStoreKeepsWindow DEF WindowInitialized, TypeOK
    <3> QED BY <3>1, <3>2, <3>3
  <2> QED BY <2>2, <2>3
<1> QED BY <1>1, <1>2, CapacityAssumption DEF TypeOK

LEMMA NextPreservesIInv == IInv /\ [Next]_vars => IInv'
<1> SUFFICES ASSUME IInv, [Next]_vars
             PROVE  IInv'
  OBVIOUS
<1>1. ASSUME NEW e \in Events, wt_push_event(e)
      PROVE  IInv'
  BY <1>1, PushPreservesIInv
<1>2. CASE wt_poll_event
  <2>1. CASE phase = "released" \/ count = 0
    <3>1. \E s \in {"INVALID_ARGUMENT", "NOT_FOUND"} : Refused(s)
      BY <1>2, <2>1 DEF wt_poll_event
    <3> QED BY <3>1, RefusalPreservesIInv
  <2>2. CASE phase # "released" /\ count # 0
    <3>1. /\ count' = count - 1
          /\ offset' = IF count' = 0 THEN 0 ELSE offset + 1
          /\ UNCHANGED <<slots, capacity, phase>>
          /\ reply' = Reply("OK", slots[offset])
      BY <1>2, <2>2 DEF wt_poll_event
    <3>2. slots[offset] \in Events
      BY <2>2 DEF IInv, TypeOK, WindowInitialized
    <3> QED
      BY <2>2, <3>1, <3>2 DEF Reply, IInv, TypeOK, WindowInBounds, WindowInitialized
  <2> QED BY <2>1, <2>2
<1>3. CASE wt_client_shutdown
  BY <1>3 DEF wt_client_shutdown, Reply, IInv, TypeOK, WindowInBounds, WindowInitialized
<1>4. CASE wt_release
  BY <1>4, CapacityAssumption
     DEF wt_release, Reply, IInv, TypeOK, WindowInBounds, WindowInitialized, Garbage
<1>5. CASE UNCHANGED vars
  BY <1>5 DEF vars, IInv, TypeOK, WindowInBounds, WindowInitialized
<1> QED BY <1>1, <1>2, <1>3, <1>4, <1>5 DEF Next

\* The inductive invariant holds in every reachable state.
THEOREM Invariance == Spec => []IInv
  BY InitIInv, NextPreservesIInv, PTL DEF Spec

\* The ring never indexes outside its array, whatever the interleaving of pushes,
\* polls, failed reallocations, shutdown and release (webtransport_native.c:189-232, 694-720).
THEOREM WindowSafe == Spec => []WindowInBounds
  BY Invariance, PTL DEF IInv

\* No poll hands out a cell that a failing realloc, a compaction or a growth left
\* without the event that was accepted for it (webtransport_native.c:205-232).
THEOREM Initialized == Spec => []WindowInitialized
  BY Invariance, PTL DEF IInv

\* Every variable keeps its type, and the slots are a function on [0, capacity).
THEOREM TypeCorrect == Spec => []TypeOK
  BY Invariance, PTL DEF IInv

-----------------------------------------------------------------------------
\* Memory and refusals follow the backlog (webtransport_native.c:201-227).
LEMMA StepGrowsOrRefusesOnlyWhenFull ==
  ASSUME IInv, [Next]_vars
  PROVE  [(capacity' > capacity \/ reply'.status = "OUT_OF_MEMORY") => count = capacity]_vars
<1> SUFFICES ASSUME Next, capacity' > capacity \/ reply'.status = "OUT_OF_MEMORY"
             PROVE  count = capacity
  OBVIOUS
<1>1. ASSUME NEW e \in Events, wt_push_event(e)
      PROVE  count = capacity
  <2>1. CASE phase = "open" /\ count < MaxPending
    <3>1. Store(e)
      BY <1>1, <2>1, CapacityAssumption DEF wt_push_event, IInv, TypeOK
    <3>2. CASE reply' = Reply("OK", NoEvent)
      <4>1. capacity' > capacity
        BY <3>2 DEF Reply
      <4> QED BY <2>1, <3>1, <3>2, <4>1, StoreAppends
    <3>3. CASE reply' # Reply("OK", NoEvent)
      BY <3>1, <3>3, FailedStoreKeepsWindow
    <3> QED BY <3>2, <3>3
  <2>2. CASE phase # "open" \/ count >= MaxPending
    BY <1>1, <2>2, CapacityAssumption
       DEF wt_push_event, Refused, Reply, IInv, TypeOK, WindowInBounds
  <2> QED BY <2>1, <2>2, CapacityAssumption DEF IInv, TypeOK
<1>2. CASE wt_poll_event
  BY <1>2 DEF wt_poll_event, Refused, Reply, IInv, TypeOK
<1>3. CASE wt_client_shutdown
  BY <1>3 DEF wt_client_shutdown, Reply, IInv, TypeOK
<1>4. CASE wt_release
  BY <1>4 DEF wt_release, Reply, IInv, TypeOK
<1> QED BY <1>1, <1>2, <1>3, <1>4 DEF Next

\* A push asks for more memory, or is refused for want of room, only when the
\* backlog fills the array (webtransport_native.c:201-227).
THEOREM BacklogBound == Spec => GrowsOrRefusesOnlyWhenFull
  BY Invariance, StepGrowsOrRefusesOnlyWhenFull, PTL
     DEF Spec, GrowsOrRefusesOnlyWhenFull

-----------------------------------------------------------------------------
\* The events of the window form a sequence of length count.
PendingFacts ==
  /\ Pending \in Seq(Events)
  /\ Len(Pending) = count
  /\ \A i \in 1 .. count : Pending[i] = slots[offset + (i - 1)]

LEMMA PendingIsSequence == IInv => PendingFacts
<1> SUFFICES ASSUME IInv
             PROVE  PendingFacts
  OBVIOUS
<1>1. count \in Nat /\ offset \in Nat
  BY DEF IInv, TypeOK
<1>2. \A i \in 1 .. count : i - 1 \in 0 .. count - 1 /\ offset + i - 1 = offset + (i - 1)
  BY <1>1
<1>3. \A i \in 1 .. count : slots[offset + i - 1] \in Events
  BY <1>2 DEF IInv, WindowInitialized
<1> QED BY <1>1, <1>2, <1>3 DEF Pending, PendingFacts

LEMMA PendingIsSequencePrimed == IInv' => PendingFacts'
  BY PendingIsSequence, PTL

LEMMA InitRefines == Init => Abstract!Init
  BY DEF Init, wt_client_create, Pending, Reply, Abstract!Init, Abstract!Reply

LEMMA SameWindowSamePending ==
  ASSUME IInv, IInv', count' = count,
         \A i \in 0 .. count - 1 : slots'[offset' + i] = slots[offset + i]
  PROVE  Pending' = Pending
<1>1. \A i \in 1 .. count : i - 1 \in 0 .. count - 1
  BY DEF IInv, TypeOK
<1>2. \A i \in 1 .. count : Pending'[i] = Pending[i]
  BY <1>1, PendingIsSequence, PendingIsSequencePrimed DEF PendingFacts
<1> QED BY <1>2, PendingIsSequence, PendingIsSequencePrimed, SeqEqual DEF PendingFacts

LEMMA PushRefines ==
  ASSUME IInv, IInv', NEW e \in Events, wt_push_event(e)
  PROVE  Abstract!Next \/ UNCHANGED Abstract!qvars
<1> USE DEF Reply, Abstract!Reply
<1>1. CASE phase = "open" /\ count < MaxPending
  <2>1. Store(e) /\ phase' = phase
    BY <1>1, CapacityAssumption DEF wt_push_event, Store, IInv, TypeOK
  <2>2. CASE reply' = Reply("OK", NoEvent)
    <3>1. count' = count + 1 /\ slots'[offset' + count] = e
      BY <1>1, <2>1, <2>2, StoreAppends
    <3>2. \A i \in 0 .. count - 1 : slots'[offset' + i] = slots[offset + i]
      BY <1>1, <2>1, <2>2, StoreAppends
    <3>3. /\ Pending \in Seq(Events) /\ Pending' \in Seq(Events)
          /\ Len(Pending) = count /\ Len(Pending') = count + 1
          /\ \A i \in 1 .. count : Pending[i] = slots[offset + (i - 1)]
          /\ \A i \in 1 .. count + 1 : Pending'[i] = slots'[offset' + (i - 1)]
      BY <3>1, PendingIsSequence, PendingIsSequencePrimed DEF PendingFacts
    <3>4. \A i \in 1 .. count : i - 1 \in 0 .. count - 1 /\ i \in 1 .. count + 1
      BY DEF IInv, TypeOK
    <3>5. \A i \in 1 .. count : Pending'[i] = Pending[i]
      BY <3>2, <3>3, <3>4
    <3>6. Pending'[count + 1] = e
      <4>1. count + 1 \in 1 .. count + 1 /\ (count + 1) - 1 = count
        BY DEF IInv, TypeOK
      <4> QED BY <3>1, <3>3, <4>1
    <3>7. Pending' = Append(Pending, e)
      <4>1. /\ Append(Pending, e) \in Seq(Events)
            /\ Len(Append(Pending, e)) = count + 1
            /\ \A i \in 1 .. count : Append(Pending, e)[i] = Pending[i]
            /\ Append(Pending, e)[count + 1] = e
        BY <3>3, AppendProperties
      <4>2. \A i \in 1 .. count + 1 : Pending'[i] = Append(Pending, e)[i]
        BY <3>5, <3>6, <4>1 DEF IInv, TypeOK
      <4> QED BY <3>3, <4>1, <4>2, SeqEqual
    <3>8. Abstract!Accept(e)
      BY <1>1, <2>1, <2>2, <3>3, <3>7 DEF Abstract!Accept
    <3> QED BY <3>8 DEF Abstract!Next
  <2>3. CASE reply' # Reply("OK", NoEvent)
    <3>1. /\ count' = count
          /\ \A i \in 0 .. count - 1 : slots'[offset' + i] = slots[offset + i]
          /\ reply' = Reply("OUT_OF_MEMORY", NoEvent)
      BY <2>1, <2>3, FailedStoreKeepsWindow
    <3>2. Pending' = Pending
      BY <3>1, SameWindowSamePending
    <3>3. Abstract!Refuse("OUT_OF_MEMORY")
      BY <1>1, <2>1, <3>1, <3>2 DEF Abstract!Refuse
    <3> QED BY <3>3 DEF Abstract!Next, Abstract!Statuses
  <2> QED BY <2>2, <2>3
<1>2. CASE phase # "open" \/ count >= MaxPending
  <2>1. PICK s \in {"INVALID_ARGUMENT", "CANCELLED", "OUT_OF_MEMORY"} :
          /\ Refused(s)
          /\ \/ s = "INVALID_ARGUMENT" /\ phase = "released"
             \/ s = "CANCELLED" /\ phase = "closing"
             \/ s = "OUT_OF_MEMORY" /\ phase = "open"
    BY <1>2, CapacityAssumption DEF wt_push_event, IInv, TypeOK
  <2>2. Pending' = Pending
    BY <2>1 DEF Refused, Pending
  <2>3. Abstract!Refuse(s)
    BY <2>1, <2>2 DEF Refused, Abstract!Refuse
  <2> QED BY <2>3 DEF Abstract!Next, Abstract!Statuses
<1> QED BY <1>1, <1>2, CapacityAssumption DEF IInv, TypeOK

LEMMA PollRefines ==
  ASSUME IInv, IInv', wt_poll_event
  PROVE  Abstract!Next \/ UNCHANGED Abstract!qvars
<1> USE DEF Reply, Abstract!Reply
<1>0. /\ Pending \in Seq(Events) /\ Pending' \in Seq(Events)
      /\ Len(Pending) = count /\ Len(Pending') = count'
      /\ \A i \in 1 .. count : Pending[i] = slots[offset + (i - 1)]
      /\ \A i \in 1 .. count' : Pending'[i] = slots'[offset' + (i - 1)]
      /\ count \in Nat
      /\ offset \in Nat
  BY PendingIsSequence, PendingIsSequencePrimed DEF PendingFacts, IInv, TypeOK
<1>1. CASE phase = "released" \/ count = 0
  <2>1. Pending' = Pending /\ phase' = phase
    BY <1>1, wt_poll_event DEF wt_poll_event, Refused, Pending
  <2>2. Abstract!DeliverNothing
    BY <1>0, <1>1, <2>1, wt_poll_event DEF wt_poll_event, Refused, Abstract!DeliverNothing
  <2> QED BY <2>2 DEF Abstract!Next
<1>2. CASE phase # "released" /\ count # 0
  <2>1. /\ count' = count - 1
        /\ offset' = IF count' = 0 THEN 0 ELSE offset + 1
        /\ slots' = slots
        /\ phase' = phase
        /\ reply' = Reply("OK", slots[offset])
    BY <1>2, wt_poll_event DEF wt_poll_event
  <2>2. Pending # <<>> /\ Head(Pending) = slots[offset]
    BY <1>0, <1>2
  <2>3. /\ Tail(Pending) \in Seq(Events)
        /\ Len(Tail(Pending)) = count'
        /\ \A i \in 1 .. count' : Tail(Pending)[i] = Pending[i + 1]
    BY <1>0, <2>1, <2>2, HeadTailProperties
  <2>4. \A i \in 1 .. count' : Pending'[i] = Pending[i + 1]
    <3>1. SUFFICES ASSUME NEW i \in 1 .. count'
                   PROVE  Pending'[i] = Pending[i + 1]
      OBVIOUS
    <3>2. offset' = offset + 1 /\ i + 1 \in 1 .. count
      BY <1>0, <2>1
    <3>3. offset' + (i - 1) = offset + ((i + 1) - 1)
      BY <1>0, <3>2
    <3> QED BY <1>0, <2>1, <3>2, <3>3
  <2>5. Pending' = Tail(Pending)
    BY <1>0, <2>3, <2>4, SeqEqual
  <2>6. Abstract!Deliver
    BY <1>2, <2>1, <2>2, <2>5 DEF Abstract!Deliver
  <2> QED BY <2>6 DEF Abstract!Next
<1> QED BY <1>1, <1>2

LEMMA StepRefines ==
  ASSUME IInv, IInv', [Next]_vars
  PROVE  [Abstract!Next]_(Abstract!qvars)
<1>1. ASSUME NEW e \in Events, wt_push_event(e)
      PROVE  Abstract!Next \/ UNCHANGED Abstract!qvars
  BY <1>1, PushRefines
<1>2. CASE wt_poll_event
  BY <1>2, PollRefines
<1>3. CASE wt_client_shutdown
  <2>1. Abstract!Close
    BY <1>3 DEF wt_client_shutdown, Abstract!Close, Reply, Abstract!Reply, Pending
  <2> QED BY <2>1 DEF Abstract!Next
<1>4. CASE wt_release
  <2>1. Pending' = <<>>
    BY <1>4 DEF wt_release, Pending
  <2>2. Abstract!Release
    BY <1>4, <2>1 DEF wt_release, Abstract!Release, Reply, Abstract!Reply
  <2> QED BY <2>2 DEF Abstract!Next
<1>5. CASE UNCHANGED vars
  BY <1>5 DEF vars, Pending, Abstract!qvars
<1> QED BY <1>1, <1>2, <1>3, <1>4, <1>5 DEF Next

\* The ring with its compaction, growth and clamp delivers exactly what a
\* bounded FIFO queue delivers, for every capacity and limit.
THEOREM Refinement == Spec => ImplementsBoundedQueue
<1>1. Init => Abstract!Init
  BY InitRefines
<1>2. IInv /\ IInv' /\ [Next]_vars => [Abstract!Next]_(Abstract!qvars)
  BY StepRefines
<1> QED BY <1>1, <1>2, Invariance, PTL DEF Spec, Abstract!Spec, ImplementsBoundedQueue
=============================================================================
