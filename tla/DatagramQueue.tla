---------------------------- MODULE DatagramQueue ----------------------------
(***************************************************************************)
(* The datagrams of one session that nobody received yet                   *)
(* (webtransport_native.c): a linked list in the C heap with a head and a  *)
(* tail pointer, and two counters that the limits are checked against.     *)
(* MsQuic's worker appends, the managed receiver takes the head, the       *)
(* release of the session or of its client frees what is left.  Each is    *)
(* one critical section of the process-wide lock.                          *)
(***************************************************************************)
EXTENDS Naturals, Sequences

CONSTANTS
  Payloads,      \* what is sent; the code looks at its length only
  LengthOf,      \* payload_length of each
  Null,          \* the null pointer
  MaxCount,      \* WT_MAX_DATAGRAM_QUEUE_COUNT (1024)
  MaxBytes,      \* WT_MAX_DATAGRAM_QUEUE_BYTES (4 MiB)
  BufferLengths, \* bound: the buffer lengths receivers pass
  MaxArriving    \* bound: datagrams that arrive; one node of the heap for each

Nodes == 1 .. MaxArriving

ASSUME DatagramAssumption ==
  /\ LengthOf \in [Payloads -> Nat]
  /\ Null \notin Nodes
  /\ MaxCount \in Nat \ {0} /\ MaxBytes \in Nat
  /\ BufferLengths \subseteq Nat
  /\ MaxArriving \in Nat

VARIABLES
  heap,      \* the allocated nodes: address |-> [payload, next]
  head,      \* datagram_head
  tail,      \* datagram_tail
  count,     \* datagram_count
  bytes,     \* datagram_bytes
  alive,     \* the session handle and its context are still there
  reply,     \* the status of the last call
  arrived,   \* history: how many datagrams the peer sent
  queued,    \* history: the payloads the queue accepted
  received   \* history: the payloads receivers got

vars == <<heap, head, tail, count, bytes, alive, reply, arrived, queued, received>>

Init ==
  /\ heap = [n \in {} |-> Null]
  /\ head = Null /\ tail = Null
  /\ count = 0 /\ bytes = 0
  /\ alive = TRUE
  /\ reply = "OK"
  /\ arrived = 0
  /\ queued = <<>> /\ received = <<>>

Allocated == DOMAIN heap

(* An operator named after a definition, with a suffix, is that definition  *)
(* with a plausible bug: the invariants must notice it.                     *)

\* Compares the payload alone with the limit.
Full_AlreadyQueued(p) == LengthOf[p] > MaxBytes \/ count >= MaxCount

Full(p) ==
  \/ LengthOf[p] > MaxBytes
  \/ count >= MaxCount
  \/ bytes > MaxBytes - LengthOf[p]

\* Moves the tail without linking the old one to the new node.
Linked_TailOnly(n, p) ==
  [m \in Allocated \cup {n} |-> IF m = n THEN [payload |-> p, next |-> Null] ELSE heap[m]]

\* The list with a new node n behind the tail.
Linked(n, p) ==
  [m \in Allocated \cup {n} |->
     IF m = n THEN [payload |-> p, next |-> Null]
     ELSE IF m = tail THEN [heap[m] EXCEPT !.next = n] ELSE heap[m]]

\* The pushes of the event that may fail after the datagram is queued.
PushStatuses == {"OK", "INVALID_ARGUMENT", "CANCELLED", "OUT_OF_MEMORY"}

\* wt_enqueue_datagram_from_msquic: a datagram whose event is refused stays queued.
wt_enqueue_datagram(p) ==
  /\ arrived < MaxArriving
  /\ arrived' = arrived + 1
  /\ UNCHANGED <<alive, received>>
  /\ \/ /\ \/ ~alive /\ reply' = "INVALID_ARGUMENT"
           \/ alive /\ reply' = "OUT_OF_MEMORY"      \* Full(p), or calloc or malloc fails
        /\ UNCHANGED <<heap, head, tail, count, bytes, queued>>
     \/ /\ alive /\ ~Full(p)
        /\ \E n \in Nodes \ Allocated :
             /\ heap' = Linked(n, p)
             /\ head' = IF tail = Null THEN n ELSE head
             /\ tail' = n
        /\ count' = count + 1
        /\ bytes' = bytes + LengthOf[p]
        /\ queued' = Append(queued, p)
        /\ reply' \in PushStatuses

\* Leaves the tail at the node it frees.
NextTail_Kept == tail

\* The tail once the head is gone.
NextTail == IF heap[head].next = Null THEN Null ELSE tail

\* Forgets to take the length off.
BytesWithout_Kept(p) == bytes

\* datagram_bytes once p is gone, never below zero.
BytesWithout(p) == IF bytes >= LengthOf[p] THEN bytes - LengthOf[p] ELSE 0

\* wt_session_receive_datagram into a buffer of n bytes.
wt_session_receive_datagram(n) ==
  \/ /\ \/ ~alive /\ reply' = "INVALID_ARGUMENT"
        \/ alive /\ head = Null /\ reply' = "NOT_FOUND"
        \/ /\ alive /\ head # Null /\ n < LengthOf[heap[head].payload]
           /\ reply' = "INVALID_ARGUMENT"
     /\ UNCHANGED <<heap, head, tail, count, bytes, alive, arrived, queued, received>>
  \/ /\ alive /\ head # Null
     /\ n >= LengthOf[heap[head].payload]
     /\ reply' = "OK"
     /\ received' = Append(received, heap[head].payload)
     /\ tail' = NextTail
     /\ head' = heap[head].next
     /\ count' = IF count # 0 THEN count - 1 ELSE 0
     /\ bytes' = BytesWithout(heap[head].payload)
     /\ heap' = [m \in Allocated \ {head} |-> heap[m]]
     /\ UNCHANGED <<alive, arrived, queued>>

\* The node behind a beginning of the list, and that beginning with it, if there is one.
After(before) == IF before = <<>> THEN head ELSE heap[before[Len(before)]].next

Extend(before) == IF After(before) \in Allocated THEN Append(before, After(before)) ELSE before

\* The first i nodes of the list, if it has so many.
Walk[i \in 0 .. MaxArriving] == IF i = 0 THEN <<>> ELSE Extend(Walk[i - 1])

Chain == Walk[MaxArriving]

OnChain == {Chain[i] : i \in 1 .. Len(Chain)}

\* The head alone: the rest of the list is forgotten.
Freed_HeadOnly == {head}

\* The nodes wt_session_free_datagrams walks over and frees.
Freed == OnChain

\* wt_release of the session, or of its client.
wt_release ==
  /\ alive
  /\ alive' = FALSE
  /\ heap' = [m \in Allocated \ Freed |-> heap[m]]
  /\ head' = Null /\ tail' = Null
  /\ count' = 0 /\ bytes' = 0
  /\ reply' = "OK"
  /\ UNCHANGED <<arrived, queued, received>>

Next ==
  \/ \E p \in Payloads : wt_enqueue_datagram(p)
  \/ \E n \in BufferLengths : wt_session_receive_datagram(n)
  \/ wt_release

Spec == Init /\ [][Next]_vars

-----------------------------------------------------------------------------
\* Types; the head and the tail never point at memory that was freed.
TypeOK ==
  /\ Allocated \subseteq Nodes
  /\ heap \in [Allocated -> [payload : Payloads, next : Nodes \cup {Null}]]
  /\ head \in Allocated \cup {Null} /\ tail \in Allocated \cup {Null}
  /\ count \in Nat /\ bytes \in Nat
  /\ alive \in BOOLEAN
  /\ reply \in PushStatuses \cup {"NOT_FOUND"}
  /\ arrived \in 0 .. MaxArriving
  /\ queued \in Seq(Payloads) /\ received \in Seq(Payloads)

\* The list is the whole heap: following the next pointers from the head reaches
\* every allocated node, so none leaks, and ends at the tail, so the next append
\* goes behind the last one.
ListIsWhole ==
  /\ OnChain = Allocated
  /\ tail = IF Chain = <<>> THEN Null ELSE Chain[Len(Chain)]
  /\ head = Null <=> tail = Null

\* The bytes of the list from its i-th node on.
Held[i \in 1 .. Len(Chain) + 1] ==
  IF i = Len(Chain) + 1 THEN 0 ELSE LengthOf[heap[Chain[i]].payload] + Held[i + 1]

\* The counters are exactly what the list holds, so that the limits, which are
\* checked against the counters, bound the memory a peer can make the client
\* keep; the guards against going below zero never have to act.
LimitsHold ==
  /\ count = Len(Chain)
  /\ bytes = Held[1]
  /\ count <= MaxCount /\ bytes <= MaxBytes

\* Receivers get the datagrams that were queued, each once, in order, with their
\* content; what is left is in the list.
FirstInFirstOut ==
  alive => queued = received \o [i \in 1 .. Len(Chain) |-> heap[Chain[i]].payload]
=============================================================================
