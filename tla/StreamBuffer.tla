---------------------------- MODULE StreamBuffer ----------------------------
(***************************************************************************)
(* The receive buffer of one stream (webtransport_native.c): an array with *)
(* a read offset.  MsQuic's worker appends what arrives, the managed       *)
(* reader takes a prefix, wt_release frees it.  Each operation is one      *)
(* critical section of the process-wide lock.                              *)
(*                                                                         *)
(* The transport has acknowledged the bytes by the time they get here: the *)
(* stream callback ignores the status of an append, so nothing a refused   *)
(* append drops is ever sent again.                                        *)
(***************************************************************************)
EXTENDS Naturals, Sequences

CONSTANTS
  Bytes,        \* what is read and written; the code never looks inside
  NoByte,       \* a cell realloc added and nobody wrote yet
  MaxBuffer,    \* WT_MAX_STREAM_BUFFER_BYTES (1 MiB)
  Chunks,       \* bound: the pieces of data the peer sends, out of Seq(Bytes)
  Lengths,      \* bound: the buffer lengths readers pass, out of Nat
  MaxArriving,  \* bound: bytes that arrive on the stream
  MemoryShort   \* whether realloc may fail

ASSUME BufferAssumption ==
  /\ NoByte \notin Bytes
  /\ MaxBuffer \in Nat
  /\ Chunks \subseteq Seq(Bytes)
  /\ Lengths \subseteq Nat
  /\ MaxArriving \in Nat
  /\ MemoryShort \in BOOLEAN

VARIABLES
  buffer,      \* buffer: cell number |-> content, as long as the last realloc made it
  length,      \* buffer_length
  offset,      \* read_offset
  alive,       \* the stream handle and its context are still there
  reply,       \* the status of the last call
  arrived,     \* history: what the peer sent and the transport acknowledged
  delivered,   \* history: what readers got
  refused      \* history: an append was refused with data in it

vars == <<buffer, length, offset, alive, reply, arrived, delivered, refused>>

Init ==
  /\ buffer = [i \in {} |-> NoByte]
  /\ length = 0 /\ offset = 0
  /\ alive = TRUE
  /\ reply = "OK"
  /\ arrived = <<>> /\ delivered = <<>>
  /\ refused = FALSE

Available == length - offset

(* An operator named after a definition, with a suffix, is that definition  *)
(* with a plausible bug: the invariants must notice it.                     *)

\* Slides the unread bytes and forgets that they moved.
Front_NotMoved == buffer

\* The append's memmove: the unread bytes go to the front, what lies behind
\* them keeps its old content.
Front ==
  [i \in DOMAIN buffer |-> IF i < Available THEN buffer[offset + i] ELSE buffer[i]]

\* Compares the piece alone with the limit.
TooMuch_AlreadyBuffered(piece) == Len(piece) > MaxBuffer

\* The check against the limit, after the memmove and in size_t arithmetic that
\* cannot wrap.
TooMuch(piece) ==
  \/ Len(piece) > MaxBuffer
  \/ Available > MaxBuffer - Len(piece)

\* realloc to exactly n cells, which may be fewer than before.
Reallocated(n) == [i \in 0 .. n - 1 |-> IF i < Available THEN Front[i] ELSE NoByte]

\* memcpy of the piece into these cells, from the given one on.
Written(cells, at, piece) ==
  [i \in DOMAIN cells |->
     IF at <= i /\ i < at + Len(piece) THEN piece[i - at + 1] ELSE cells[i]]

\* Copies the piece over the unread bytes.
Extended_AtFront(piece) == Written(Reallocated(Available + Len(piece)), 0, piece)

Extended(piece) == Written(Reallocated(Available + Len(piece)), Available, piece)

\* The pushes that may fail after the data is stored: the session is gone, the
\* client is closing, its event queue is full or short of memory.
PushStatuses == {"OK", "INVALID_ARGUMENT", "CANCELLED", "OUT_OF_MEMORY"}

\* wt_append_stream_data_from_msquic.  The memmove happens before the checks, so
\* a refused append leaves the unread bytes at the front.
wt_append_stream_data(piece) ==
  /\ Len(arrived) + Len(piece) <= MaxArriving
  /\ arrived' = arrived \o piece
  /\ UNCHANGED <<alive, delivered>>
  /\ \/ /\ ~alive
        /\ reply' = "INVALID_ARGUMENT"
        /\ refused' = (refused \/ piece # <<>>)
        /\ UNCHANGED <<buffer, length, offset>>
     \/ /\ alive
        /\ piece = <<>>
        /\ reply' \in PushStatuses
        /\ UNCHANGED <<buffer, length, offset, refused>>
     \/ /\ alive
        /\ piece # <<>>
        /\ offset' = 0
        /\ \/ /\ TooMuch(piece) \/ MemoryShort
              /\ reply' = "OUT_OF_MEMORY"
              /\ buffer' = Front
              /\ length' = Available
              /\ refused' = TRUE
           \/ /\ ~TooMuch(piece)
              /\ reply' \in PushStatuses
              /\ buffer' = Extended(piece)
              /\ length' = Available + Len(piece)
              /\ UNCHANGED refused

ToCopy(n) == IF Available < n THEN Available ELSE n

\* wt_stream_read into a buffer of n bytes.
wt_stream_read(n) ==
  /\ UNCHANGED <<buffer, length, alive, arrived, refused>>
  /\ \/ /\ ~alive
        /\ reply' = "INVALID_ARGUMENT"
        /\ UNCHANGED <<offset, delivered>>
     \/ /\ alive
        /\ offset >= length
        /\ reply' = "NOT_FOUND"
        /\ UNCHANGED <<offset, delivered>>
     \/ /\ alive
        /\ offset < length
        /\ reply' = "OK"
        /\ offset' = offset + ToCopy(n)
        /\ delivered' = delivered \o [i \in 1 .. ToCopy(n) |-> buffer[offset + i - 1]]

\* wt_release of the stream handle.
wt_release ==
  /\ alive
  /\ alive' = FALSE
  /\ buffer' = [i \in {} |-> NoByte]
  /\ length' = 0 /\ offset' = 0
  /\ reply' = "OK"
  /\ UNCHANGED <<arrived, delivered, refused>>

Next ==
  \/ \E piece \in Chunks : wt_append_stream_data(piece)
  \/ \E n \in Lengths : wt_stream_read(n)
  \/ wt_release

Spec == Init /\ [][Next]_vars

-----------------------------------------------------------------------------
\* Types; every cell of the buffer holds a byte that arrived: memory realloc
\* returned uninitialized is always written before the lock is given up.
TypeOK ==
  /\ length \in Nat /\ offset \in Nat
  /\ DOMAIN buffer \subseteq Nat
  /\ buffer \in [DOMAIN buffer -> Bytes]
  /\ alive \in BOOLEAN /\ refused \in BOOLEAN
  /\ reply \in PushStatuses \cup {"NOT_FOUND"}
  /\ arrived \in Seq(Bytes) /\ delivered \in Seq(Bytes)

\* Every cell that wt_stream_read may copy from and wt_append_stream_data may move
\* from or to is allocated, and there are never more than the limit.
UnreadInBounds ==
  /\ offset <= length /\ length <= MaxBuffer
  /\ \A i \in 0 .. length - 1 : i \in DOMAIN buffer

\* The unread bytes, first to last.
Unread == [i \in 1 .. Available |-> buffer[offset + i - 1]]

\* As long as no append was refused, the readers got, and are about to get, the
\* very bytes that arrived, in order: no memmove, realloc or partial read loses,
\* repeats or reorders any.
NothingLostUnlessRefused == alive /\ ~refused => arrived = delivered \o Unread

\* A reliable stream: what readers got is a prefix of what the peer sent.
DeliversPrefix ==
  /\ Len(delivered) <= Len(arrived)
  /\ \A i \in 1 .. Len(delivered) : delivered[i] = arrived[i]
=============================================================================
