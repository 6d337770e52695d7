------------------------ MODULE NativeHandles_proofs ------------------------
(***************************************************************************)
(* Proofs about NativeHandles, for any number of threads, clients and      *)
(* handles and whatever the application overlaps. First the types, and     *)
(* that no session or stream outlives its client. Then what needs to know  *)
(* who is who: which id and which address a call or a callback goes on     *)
(* with after the lock, and whose they are by then. Peer streams stay with *)
(* the client they were opened to, and the release under the process-wide  *)
(* lock closes nothing.                                                    *)
(***************************************************************************)
EXTENDS NativeHandles, WellFoundedInduction, TLAPS

\* Ids are handed out in order, so those ahead are free.
NothingAhead == \A i \in Ids : i >= next => handles[i] = NoHandle

\* A client's handle names itself, so releasing one client takes no other with it.
ClientsNameThemselves ==
  \A i \in Ids : handles[i].kind = "client" => handles[i].client = i

\* The steps of the calls that allocate, up to the undo.
Allocating == {"connect", "replace", "dial", "start", "forget",
               "open", "opening", "list", "prefix", "unlist", "undo"}

\* A call that may have to undo its allocation holds the id of a child, or of a child
\* that is gone.
UndoesChildren ==
  \A t \in Threads :
    call[t].pc \in Allocating =>
      /\ call[t].id \in Ids /\ call[t].id < next
      /\ handles[call[t].id].kind # "client"

\* A call is on a client; what is put on a list is a stream, under an id.
WhatCallsHold ==
  /\ \A t \in Threads : call[t].pc # "idle" => call[t].client \in Ids
  /\ \A t \in Threads :
       call[t].pc \in {"list", "prefix", "unlist", "sending", "close"} => call[t].native \in NativeStreams
  /\ \A c \in Ids : callback[c].pc \in {"accept", "list", "data", "complete"} => callback[c].native \in NativeStreams
  /\ \A c \in Ids : callback[c].pc = "list" => callback[c].id \in Ids

IInv ==
  /\ TypeOK
  /\ NothingAhead
  /\ ClientsNameThemselves
  /\ ChildrenHaveClient
  /\ UndoesChildren
  /\ WhatCallsHold

TableOK == NothingAhead /\ ClientsNameThemselves /\ ChildrenHaveClient

\* The tables of calls and callbacks, and what they hold.
CallsOK == call \in [Threads -> Calls] /\ callback \in [Ids -> CallbackStates] /\ UndoesChildren /\ WhatCallsHold

\* Everything else that TypeOK speaks of.
RestOK ==
  /\ known \in SUBSET Ids
  /\ quic \in [Ids -> Quics]
  /\ connections \in [Ids -> Connections]
  /\ native \in [NativeStreams -> Natives]
  /\ abandoned \in SUBSET NativeStreams
  /\ overlapped \in BOOLEAN
  /\ misused \in BOOLEAN

\* Ids grow, and what was a child, or free, among the old ones does not become a client.
KeepsChildren ==
  /\ next <= next'
  /\ \A i \in Ids : i < next /\ handles[i].kind # "client" => handles'[i].kind # "client"

LEMMA Allocated ==
  ASSUME TypeOK, TableOK, NEW h \in Handles, Allocate(h),
         \/ h = ClientHandle(next)
         \/ h.kind \in {"session", "stream"} /\ Found(h.client, "client")
  PROVE  /\ next' \in 1 .. MaxHandles + 1 /\ handles' \in [Ids -> Handles]
         /\ TableOK' /\ KeepsChildren
         /\ next' = next + 1 /\ next \in Ids /\ handles'[next] = h
<1>1. /\ next \in Ids /\ next' = next + 1 /\ handles' = [handles EXCEPT ![next] = h]
      /\ handles \in [Ids -> Handles]
  BY DEF Allocate, TypeOK
<1>2. /\ next' \in 1 .. MaxHandles + 1 /\ handles' \in [Ids -> Handles]
      /\ handles'[next] = h
      /\ \A i \in Ids : i # next => handles'[i] = handles[i]
  BY <1>1, HandlesAssumption DEF Ids
<1>3. NothingAhead'
  BY <1>1, <1>2, HandlesAssumption DEF TableOK, NothingAhead, Ids
<1>4. ClientsNameThemselves'
  BY <1>1, <1>2 DEF TableOK, ClientsNameThemselves, ClientHandle
<1>5. handles[next].kind = "none"
  BY <1>1 DEF TableOK, NothingAhead, NoHandle, Ids
<1>6. ChildrenHaveClient'
  BY <1>1, <1>2, <1>5 DEF TableOK, ChildrenHaveClient, Found, ClientHandle
<1>7. KeepsChildren
  BY <1>1, <1>2 DEF KeepsChildren, Ids
<1> QED BY <1>1, <1>2, <1>3, <1>4, <1>6, <1>7 DEF TableOK

LEMMA Removed ==
  ASSUME TypeOK, TableOK, NEW i \in Ids, handles[i].kind # "client",
         handles' = [handles EXCEPT ![i] = NoHandle], next' = next
  PROVE  /\ next' \in 1 .. MaxHandles + 1 /\ handles' \in [Ids -> Handles]
         /\ TableOK' /\ KeepsChildren
<1>1. NoHandle \in Handles /\ NoHandle.kind = "none"
  BY HandlesAssumption DEF NoHandle, Handles
<1>2. /\ handles \in [Ids -> Handles] /\ next \in 1 .. MaxHandles + 1
      /\ handles'[i] = NoHandle
      /\ \A j \in Ids : j # i => handles'[j] = handles[j]
  BY DEF TypeOK
<1>3. handles' \in [Ids -> Handles] /\ next' \in 1 .. MaxHandles + 1
  BY <1>1, <1>2
<1>4. TableOK'
  BY <1>1, <1>2 DEF TableOK, NothingAhead, ClientsNameThemselves, ChildrenHaveClient, Found
<1>5. KeepsChildren
  BY <1>1, <1>2, HandlesAssumption DEF KeepsChildren
<1> QED BY <1>3, <1>4, <1>5

LEMMA ClientRemoved ==
  ASSUME TypeOK, TableOK, NEW c \in Ids, handles' = WithoutClient(c), next' = next
  PROVE  /\ next' \in 1 .. MaxHandles + 1 /\ handles' \in [Ids -> Handles]
         /\ TableOK' /\ KeepsChildren
<1>1. NoHandle \in Handles /\ NoHandle.kind = "none"
  BY HandlesAssumption DEF NoHandle, Handles
<1>2. /\ handles \in [Ids -> Handles] /\ next \in 1 .. MaxHandles + 1
      /\ \A j \in Ids : handles'[j] = IF handles[j].client = c THEN NoHandle ELSE handles[j]
  BY DEF TypeOK, WithoutClient
<1>3. handles' \in [Ids -> Handles] /\ next' \in 1 .. MaxHandles + 1
  BY <1>1, <1>2 DEF WithoutClient
<1>4. NothingAhead' /\ ClientsNameThemselves'
  BY <1>1, <1>2 DEF TableOK, NothingAhead, ClientsNameThemselves
<1>5. ASSUME NEW i \in Ids, handles'[i].kind \in {"session", "stream"}
      PROVE  handles'[i].client \in Ids /\ handles'[handles'[i].client].kind = "client"
  <2>1. handles'[i] = handles[i] /\ handles[i].client # c
    BY <1>1, <1>2, <1>5
  <2>2. Found(handles[i].client, "client")
    BY <1>5, <2>1 DEF TableOK, ChildrenHaveClient
  <2>3. handles[handles[i].client].client # c
    BY <2>1, <2>2 DEF TableOK, ClientsNameThemselves, Found
  <2> QED BY <1>2, <2>1, <2>2, <2>3 DEF Found
<1>6. KeepsChildren
  BY <1>1, <1>2, HandlesAssumption DEF KeepsChildren
<1>7. ChildrenHaveClient'
  BY <1>5 DEF ChildrenHaveClient, Found
<1> QED BY <1>3, <1>4, <1>6, <1>7 DEF TableOK

LEMMA TableKept ==
  ASSUME TypeOK, TableOK, UNCHANGED <<handles, next>>
  PROVE  /\ next' \in 1 .. MaxHandles + 1 /\ handles' \in [Ids -> Handles]
         /\ TableOK' /\ KeepsChildren
  BY HandlesAssumption DEF TypeOK, TableOK, NothingAhead, ClientsNameThemselves, ChildrenHaveClient, Found, KeepsChildren

\* What one thread's step leaves alone of the other threads' calls.
LEMMA CallsKept ==
  ASSUME TypeOK, UndoesChildren, WhatCallsHold, KeepsChildren,
         next' \in 1 .. MaxHandles + 1, NEW t \in Threads, NEW r \in Calls,
         call' = [call EXCEPT ![t] = r],
         UNCHANGED callback,
         r.pc \in Allocating =>
           /\ r.id \in Ids /\ r.id < next'
           /\ handles'[r.id].kind # "client",
         r.pc # "idle" => r.client \in Ids,
         r.pc \in {"list", "prefix", "unlist", "sending", "close"} => r.native \in NativeStreams
  PROVE  CallsOK'
<1>1. /\ call \in [Threads -> Calls] /\ next \in 1 .. MaxHandles + 1
      /\ call'[t] = r
      /\ \A u \in Threads : u # t => call'[u] = call[u]
  BY DEF TypeOK
<1>2. next \in Nat /\ next' \in Nat /\ next <= next'
  BY <1>1, HandlesAssumption DEF KeepsChildren
<1>3. call' \in [Threads -> Calls] /\ callback' \in [Ids -> CallbackStates]
  BY <1>1 DEF TypeOK
<1>4. ASSUME NEW u \in Threads, call'[u].pc \in Allocating
      PROVE  /\ call'[u].id \in Ids /\ call'[u].id < next'
             /\ handles'[call'[u].id].kind # "client"
  <2>1. CASE u = t
    BY <1>1, <1>4, <2>1
  <2>2. CASE u # t
    <3>1. call'[u] = call[u]
      BY <1>1, <2>2
    <3>2. /\ call[u].id \in Ids /\ call[u].id < next
          /\ handles[call[u].id].kind # "client"
      BY <1>4, <3>1 DEF UndoesChildren
    <3>3. call[u].id < next'
      BY <1>2, <3>2, HandlesAssumption DEF Ids
    <3> QED BY <3>1, <3>2, <3>3 DEF KeepsChildren
  <2> QED BY <2>1, <2>2
<1>5. UndoesChildren'
  BY <1>4 DEF UndoesChildren
<1>6. WhatCallsHold'
  BY <1>1 DEF WhatCallsHold
<1> QED BY <1>3, <1>5, <1>6 DEF CallsOK

\* A callback's step, and the steps of a destroy, leave the calls alone.
LEMMA CallbacksKept ==
  ASSUME TypeOK, UndoesChildren, WhatCallsHold, KeepsChildren,
         next' \in 1 .. MaxHandles + 1, NEW c \in Ids, NEW r \in CallbackStates,
         callback' = [callback EXCEPT ![c] = r],
         UNCHANGED call,
         r.pc \in {"accept", "list", "data", "complete"} => r.native \in NativeStreams,
         r.pc = "list" => r.id \in Ids
  PROVE  CallsOK'
<1>1. /\ callback \in [Ids -> CallbackStates] /\ call \in [Threads -> Calls] /\ next \in 1 .. MaxHandles + 1
      /\ callback'[c] = r
      /\ \A d \in Ids : d # c => callback'[d] = callback[d]
  BY DEF TypeOK
<1>2. callback' \in [Ids -> CallbackStates] /\ call' \in [Threads -> Calls]
  BY <1>1
<1>3. next \in Nat /\ next' \in Nat /\ next <= next'
  BY <1>1, HandlesAssumption DEF KeepsChildren
<1>4. ASSUME NEW u \in Threads, call[u].pc \in Allocating
      PROVE  /\ call[u].id \in Ids /\ call[u].id < next'
             /\ handles'[call[u].id].kind # "client"
  <2>1. /\ call[u].id \in Ids /\ call[u].id < next
        /\ handles[call[u].id].kind # "client"
    BY <1>4 DEF UndoesChildren
  <2>2. call[u].id < next'
    BY <1>3, <2>1, HandlesAssumption DEF Ids
  <2> QED BY <2>1, <2>2 DEF KeepsChildren
<1>6. UndoesChildren'
  BY <1>4 DEF UndoesChildren
<1>5. WhatCallsHold'
  BY <1>1 DEF WhatCallsHold
<1> QED BY <1>2, <1>6, <1>5 DEF CallsOK

LEMMA StillBelow ==
  ASSUME NEW a \in Ids, NEW b \in 1 .. MaxHandles + 1, NEW d \in 1 .. MaxHandles + 1, a < b, b <= d
  PROVE  a < d
  BY HandlesAssumption DEF Ids

LEMMA ZeroFits == 0 \in 0 .. MaxHandles /\ Ids \subseteq 0 .. MaxHandles
  BY HandlesAssumption DEF Ids

LEMMA CallKinds ==
  /\ NoCall \in Calls /\ NoCall.pc = "idle"
  /\ NoCallback \in CallbackStates /\ NoCallback.pc = "idle"
  /\ NoQuic \in Quics
  /\ NoConnection \in Connections
  /\ NoHandle \in Handles
<1>1. 0 \in 0 .. MaxHandles
  BY ZeroFits
<1>2. NoCall \in Calls /\ NoCall.pc = "idle"
  BY <1>1 DEF NoCall, Calls
<1>3. NoCallback \in CallbackStates /\ NoCallback.pc = "idle"
  BY <1>1 DEF NoCallback, CallbackStates
<1>4. NoQuic \in Quics
  BY <1>1 DEF NoQuic, Quics
<1>5. NoConnection \in Connections
  BY <1>1 DEF NoConnection, Connections
<1>6. NoHandle \in Handles
  BY <1>1 DEF NoHandle, Handles
<1> QED BY <1>2, <1>3, <1>4, <1>5, <1>6

\* The shapes a call can take.
LEMMA Began ==
  ASSUME TypeOK, UndoesChildren, WhatCallsHold, KeepsChildren, next' \in 1 .. MaxHandles + 1,
         UNCHANGED callback,
         NEW t \in Threads, NEW c \in Ids, NEW i \in 0 .. MaxHandles,
         NEW pc \in {"connect", "open", "send", "datagram", "shutdown", "released", "closing"},
         Begin(t, pc, c, i),
         pc \in {"connect", "open"} => i \in Ids /\ i < next' /\ handles'[i].kind # "client"
  PROVE  CallsOK'
<1> DEFINE r == [NoCall EXCEPT !.pc = pc, !.client = c, !.id = i]
<1>1. call' = [call EXCEPT ![t] = r]
  BY DEF Begin, Become
<1>3. c \in 0 .. MaxHandles
  BY ZeroFits
<1>2. r \in Calls /\ r.pc = pc /\ r.id = i /\ r.client = c
  BY <1>3, ZeroFits DEF NoCall, Calls
<1> HIDE DEF r
<1> QED BY <1>1, <1>2, CallsKept DEF Allocating

LEMMA Returned ==
  ASSUME TypeOK, UndoesChildren, WhatCallsHold, KeepsChildren, next' \in 1 .. MaxHandles + 1,
         UNCHANGED callback,
         NEW t \in Threads, Return(t)
  PROVE  CallsOK'
<1>1. call' = [call EXCEPT ![t] = NoCall]
  BY DEF Return, Become
<1> QED BY <1>1, CallKinds, CallsKept DEF Allocating

\* A call that goes on keeps its id and, unless it just found one, its stream.
LEMMA GoesOn ==
  ASSUME TypeOK, UndoesChildren, WhatCallsHold, KeepsChildren, next' \in 1 .. MaxHandles + 1,
         UNCHANGED callback,
         NEW t \in Threads, NEW r \in Calls, call[t].pc # "idle",
         r.id = call[t].id, r.client = call[t].client,
         call' = [call EXCEPT ![t] = r],
         r.pc \in Allocating => call[t].pc \in Allocating,
         r.pc \in {"list", "prefix", "unlist", "sending", "close"} => r.native \in NativeStreams
  PROVE  CallsOK'
<1>1. r.client \in Ids
  BY DEF WhatCallsHold
<1>2. ASSUME r.pc \in Allocating
      PROVE  r.id \in Ids /\ r.id < next' /\ handles'[r.id].kind # "client"
  <2>1. /\ r.id \in Ids /\ r.id < next
        /\ handles[r.id].kind # "client"
    BY <1>2 DEF UndoesChildren
  <2>2. next \in 1 .. MaxHandles + 1 /\ next <= next'
    BY DEF KeepsChildren, TypeOK
  <2>3. r.id < next'
    BY <2>1, <2>2, StillBelow
  <2> QED BY <2>1, <2>3 DEF KeepsChildren
<1> QED BY <1>1, <1>2, CallsKept

\* The parts a step is checked for, put together.
LEMMA Together ==
  ASSUME next' \in 1 .. MaxHandles + 1, handles' \in [Ids -> Handles], TableOK', CallsOK', RestOK'
  PROVE  IInv'
  BY DEF TableOK, CallsOK, RestOK, IInv, TypeOK

LEMMA Apart ==
  ASSUME IInv
  PROVE  TypeOK /\ TableOK /\ UndoesChildren /\ WhatCallsHold /\ CallsOK /\ RestOK
  BY DEF TableOK, CallsOK, RestOK, IInv, TypeOK

LEMMA InCall ==
  ASSUME IInv, NEW t \in Threads
  PROVE  call[t] \in Calls /\ (call[t].pc # "idle" => call[t].client \in Ids)
  BY DEF IInv, TypeOK, WhatCallsHold

\* One field of a client's context changes at a time.
LEMMA QuicFields ==
  ASSUME NEW r \in Quics
  PROVE  /\ \A b \in BOOLEAN : /\ [r EXCEPT !.attached = b] \in Quics
                              /\ [r EXCEPT !.closing = b] \in Quics
         /\ \A k \in 0 .. MaxHandles : [r EXCEPT !.connection = k] \in Quics
         /\ [r EXCEPT !.address = NoNative] \in Quics
         /\ \A l \in {"destroying", "closing", "freed"} : [r EXCEPT !.life = l] \in Quics
         /\ \A S \in SUBSET Entries : [r EXCEPT !.streams = S] \in Quics
         /\ \A S \in SUBSET NativeStreams : [r EXCEPT !.doomed = S] \in Quics
         /\ r.streams \in SUBSET Entries /\ r.doomed \in SUBSET NativeStreams
         /\ r.connection \in 0 .. MaxHandles
  BY DEF Quics

LEMMA QuicChanged ==
  ASSUME NEW f \in [Ids -> Quics], NEW c \in Ids
  PROVE  /\ \A b \in BOOLEAN : /\ [f EXCEPT ![c].attached = b] \in [Ids -> Quics]
                              /\ [f EXCEPT ![c].closing = b] \in [Ids -> Quics]
         /\ \A k \in 0 .. MaxHandles : [f EXCEPT ![c].connection = k] \in [Ids -> Quics]
         /\ [f EXCEPT ![c].address = NoNative] \in [Ids -> Quics]
         /\ \A l \in {"destroying", "closing", "freed"} : [f EXCEPT ![c].life = l] \in [Ids -> Quics]
         /\ \A S \in SUBSET Entries : [f EXCEPT ![c].streams = S] \in [Ids -> Quics]
         /\ \A S \in SUBSET NativeStreams : [f EXCEPT ![c].doomed = S] \in [Ids -> Quics]
  BY QuicFields

LEMMA OnTheList ==
  ASSUME RestOK, NEW c \in Ids
  PROVE  /\ quic[c].streams \in SUBSET Entries
         /\ Listed(c) \in SUBSET NativeStreams
         /\ \A e \in quic[c].streams : e.native \in NativeStreams /\ e.id \in Ids
<1>1. quic[c].streams \in SUBSET Entries
  BY QuicFields DEF RestOK, table, history
<1>2. \A e \in quic[c].streams : e.native \in NativeStreams /\ e.id \in Ids
  BY <1>1 DEF Entries
<1> QED BY <1>1, <1>2 DEF Listed

LEMMA StreamsClosed ==
  ASSUME native \in [NativeStreams -> Natives], misused \in BOOLEAN, NEW qs, Close(qs)
  PROVE  native' \in [NativeStreams -> Natives] /\ misused' \in BOOLEAN
  BY DEF Close, Uses, Natives

LEMMA ConnectionClosed ==
  ASSUME native \in [NativeStreams -> Natives], connections \in [Ids -> Connections], misused \in BOOLEAN,
         NEW k, CloseConnection(k)
  PROVE  /\ native' \in [NativeStreams -> Natives] /\ connections' \in [Ids -> Connections]
         /\ misused' \in BOOLEAN
<1>1. misused' \in BOOLEAN
  BY DEF CloseConnection, Uses
<1>2. native' \in [NativeStreams -> Natives]
  BY DEF CloseConnection, Natives
<1>3. connections' \in [Ids -> Connections]
  <2>1. \A r \in Connections : [r EXCEPT !.state = "closed"] \in Connections
    <3>1. Ids \subseteq 0 .. MaxHandles
      BY HandlesAssumption DEF Ids
    <3> QED BY <3>1 DEF Connections
  <2>2. connections' = [connections EXCEPT ![k].state = "closed"]
    BY DEF CloseConnection
  <2> QED BY <2>1, <2>2
<1> QED BY <1>1, <1>2, <1>3

LEMMA NobodyMoves ==
  ASSUME TypeOK, UndoesChildren, WhatCallsHold, KeepsChildren, next' \in 1 .. MaxHandles + 1,
         UNCHANGED <<call, callback>>
  PROVE  CallsOK'
<1>1. ASSUME NEW u \in Threads, call[u].pc \in Allocating
      PROVE  /\ call[u].id \in Ids /\ call[u].id < next'
             /\ handles'[call[u].id].kind # "client"
  <2>1. /\ call[u].id \in Ids /\ call[u].id < next
        /\ handles[call[u].id].kind # "client"
    BY <1>1 DEF UndoesChildren
  <2>2. next \in 1 .. MaxHandles + 1 /\ next <= next'
    BY DEF KeepsChildren, TypeOK
  <2>3. call[u].id < next'
    BY <2>1, <2>2, StillBelow
  <2> QED BY <2>1, <2>3 DEF KeepsChildren
<1>2. UndoesChildren'
  BY <1>1 DEF UndoesChildren
<1>3. WhatCallsHold'
  BY DEF WhatCallsHold
<1> QED BY <1>2, <1>3 DEF CallsOK, TypeOK

\* A call goes on where Go says, ...
LEMMA Went ==
  ASSUME TypeOK, UndoesChildren, WhatCallsHold, KeepsChildren, next' \in 1 .. MaxHandles + 1,
         UNCHANGED callback,
         NEW t \in Threads, NEW pc \in {"undo", "forget", "list", "prefix", "unlist"},
         Go(t, pc), call[t].pc \in Allocating,
         pc \in {"list", "prefix", "unlist"} => call[t].native \in NativeStreams
  PROVE  CallsOK'
<1> DEFINE r == [call[t] EXCEPT !.pc = pc]
<1>1. call \in [Threads -> Calls]
  BY DEF TypeOK
<1>2. call' = [call EXCEPT ![t] = r]
  BY <1>1 DEF Go
<1>3. r \in Calls /\ r.pc = pc /\ r.id = call[t].id /\ r.client = call[t].client /\ r.native = call[t].native
  BY <1>1 DEF Calls
<1> HIDE DEF r
<1>4. call[t].pc # "idle"
  BY DEF Allocating
<1> QED BY <1>2, <1>3, <1>4, GoesOn

\* ... takes up a stream it found, ...
LEMMA TookUp ==
  ASSUME TypeOK, UndoesChildren, WhatCallsHold, KeepsChildren, next' \in 1 .. MaxHandles + 1,
         UNCHANGED callback,
         NEW t \in Threads, NEW pc \in {"sending", "close"}, NEW q \in NativeStreams,
         Become(t, [call[t] EXCEPT !.pc = pc, !.native = q]), call[t].pc # "idle"
  PROVE  CallsOK'
<1> DEFINE r == [call[t] EXCEPT !.pc = pc, !.native = q]
<1>1. call \in [Threads -> Calls]
  BY DEF TypeOK
<1>2. call' = [call EXCEPT ![t] = r]
  BY DEF Become
<1>3. r \in Calls /\ r.pc = pc /\ r.id = call[t].id /\ r.client = call[t].client /\ r.native = q
  BY <1>1 DEF Calls
<1> HIDE DEF r
<1>4. r.pc \notin Allocating
  BY <1>3 DEF Allocating
<1> QED BY <1>2, <1>3, <1>4, GoesOn

\* ... or copies, or lets go of, a connection.
LEMMA Copied ==
  ASSUME TypeOK, UndoesChildren, WhatCallsHold, KeepsChildren, next' \in 1 .. MaxHandles + 1,
         UNCHANGED callback,
         NEW t \in Threads, NEW k \in 0 .. MaxHandles,
         NEW pc \in {"replace", "dial", "start", "undo", "opening", "datagram out"},
         Become(t, [call[t] EXCEPT !.pc = pc, !.connection = k]), call[t].pc # "idle",
         pc = "datagram out" \/ call[t].pc \in Allocating
  PROVE  CallsOK'
<1> DEFINE r == [call[t] EXCEPT !.pc = pc, !.connection = k]
<1>1. call \in [Threads -> Calls]
  BY DEF TypeOK
<1>2. call' = [call EXCEPT ![t] = r]
  BY DEF Become
<1>3. r \in Calls /\ r.pc = pc /\ r.id = call[t].id /\ r.client = call[t].client
  BY <1>1 DEF Calls
<1> HIDE DEF r
<1>4. r.pc \in Allocating => call[t].pc \in Allocating
  BY <1>3 DEF Allocating
<1> QED BY <1>2, <1>3, <1>4, GoesOn

-----------------------------------------------------------------------------
\* What a thread does to clients and their connections.
LEMMA ClientStep ==
  ASSUME IInv, NEW t \in Threads, ClientCalls(t)
  PROVE  IInv'
<1>0. /\ TypeOK /\ TableOK /\ UndoesChildren /\ WhatCallsHold /\ CallsOK /\ RestOK
      /\ \A i \in Ids : i \in 0 .. MaxHandles
      /\ call[t] \in Calls
      /\ call[t].pc # "idle" => call[t].client \in Ids
  BY Apart, ZeroFits, InCall
<1>1. CASE wt_client_create(t)
  <2>1. /\ next \in Ids
        /\ ClientHandle(next) \in Handles
    BY <1>0, <1>1, HandlesAssumption DEF wt_client_create, ClientHandle, Handles, Allocate
  <2>2. /\ next' \in 1 .. MaxHandles + 1 /\ handles' \in [Ids -> Handles]
        /\ TableOK' /\ KeepsChildren
    BY <1>0, <1>1, <2>1, Allocated DEF wt_client_create, table
  <2>3. CallsOK'
    BY <1>0, <1>1, <2>2, NobodyMoves DEF wt_client_create, table
  <2>4. \A a \in Addresses :
          [NoQuic EXCEPT !.life = "live", !.attached = TRUE, !.address = a] \in Quics
    BY CallKinds DEF Quics
  <2>5. RestOK'
    BY <1>0, <1>1, <2>1, <2>4 DEF wt_client_create, RestOK, table, history
  <2> QED BY <2>2, <2>3, <2>5, Together
<1>2. ASSUME NEW c \in Ids, wt_client_connect(t, c) PROVE IInv'
  <2>1. /\ next \in Ids /\ Found(c, "client")
        /\ SessionHandle(c) \in Handles
        /\ SessionHandle(c).kind = "session" /\ SessionHandle(c).client = c
    BY <1>0, <1>2, HandlesAssumption DEF wt_client_connect, SessionHandle, Handles, Usable, Allocate
  <2>2. /\ next' \in 1 .. MaxHandles + 1 /\ handles' \in [Ids -> Handles]
        /\ TableOK' /\ KeepsChildren
        /\ next' = next + 1 /\ handles'[next] = SessionHandle(c)
    BY <1>0, <1>2, <2>1, Allocated DEF wt_client_connect, table
  <2>3. next < next'
    BY <2>1, <2>2, HandlesAssumption DEF Ids
  <2>4. CallsOK'
    BY <1>0, <1>2, <2>1, <2>2, <2>3, Began DEF wt_client_connect
  <2>5. RestOK'
    BY <1>0, <1>2 DEF wt_client_connect, RestOK, table, history
  <2> QED BY <2>2, <2>4, <2>5, Together
<1>3. ASSUME NEW c \in Ids, wt_client_shutdown(t, c) PROVE IInv'
  <2>1. /\ next' \in 1 .. MaxHandles + 1 /\ handles' \in [Ids -> Handles]
        /\ TableOK' /\ KeepsChildren
    BY <1>0, <1>3, TableKept DEF wt_client_shutdown, table
  <2>2. CallsOK'
    BY <1>0, <1>3, <2>1, Began, ZeroFits DEF wt_client_shutdown
  <2>3. RestOK'
    BY <1>0, <1>3, QuicChanged DEF wt_client_shutdown, RestOK, table, history
  <2> QED BY <2>1, <2>2, <2>3, Together
<1>4. ASSUME NEW c \in Ids, ReleaseClient(t, c) PROVE IInv'
  <2>1. /\ next' \in 1 .. MaxHandles + 1 /\ handles' \in [Ids -> Handles]
        /\ TableOK' /\ KeepsChildren
    BY <1>0, <1>4, ClientRemoved DEF ReleaseClient, table
  <2>2. CallsOK'
    BY <1>0, <1>4, <2>1, ZeroFits, Began DEF ReleaseClient
  <2>3. RestOK'
    BY <1>0, <1>4, QuicChanged DEF ReleaseClient, RestOK, table, history
  <2> QED BY <2>1, <2>2, <2>3, Together
<1>5. CASE ConnectRefused(t)
  <2>1. /\ next' \in 1 .. MaxHandles + 1 /\ handles' \in [Ids -> Handles]
        /\ TableOK' /\ KeepsChildren
    BY <1>0, <1>5, TableKept DEF ConnectRefused, table
  <2>2. CallsOK'
    BY <1>0, <1>5, <2>1, Went DEF ConnectRefused, Running, Allocating
  <2>3. RestOK'
    BY <1>0, <1>5 DEF ConnectRefused, RestOK, Uses, table, history
  <2> QED BY <2>1, <2>2, <2>3, Together
<1>6. CASE ConnectTakes(t)
  <2>1. /\ next' \in 1 .. MaxHandles + 1 /\ handles' \in [Ids -> Handles]
        /\ TableOK' /\ KeepsChildren
    BY <1>0, <1>6, TableKept DEF ConnectTakes, table
  <2>2. call[t].pc = "connect" /\ call[t].client \in Ids /\ UNCHANGED callback
    BY <1>0, <1>6 DEF ConnectTakes, Running
  <2>3. /\ quic[call[t].client].connection \in 0 .. MaxHandles
        /\ 0 \in 0 .. MaxHandles
    BY <1>0, <2>2, QuicFields, ZeroFits DEF RestOK
  <2>4. CallsOK'
    <3>1. CASE quic[call[t].client].connection = 0
      BY <1>0, <1>6, <2>1, <2>2, <2>3, <3>1, Copied DEF ConnectTakes, Allocating
    <3>2. CASE quic[call[t].client].connection # 0
      BY <1>0, <1>6, <2>1, <2>2, <2>3, <3>2, Copied DEF ConnectTakes, Allocating
    <3> QED BY <3>1, <3>2
  <2>5. quic' \in [Ids -> Quics]
    BY <1>0, <1>6, <2>2, <2>3, QuicChanged DEF ConnectTakes, RestOK, table, history
  <2>6. RestOK'
    BY <1>0, <1>6, <2>5 DEF ConnectTakes, RestOK, Uses, table, history
  <2> QED BY <2>1, <2>4, <2>6, Together
<1>7. CASE ConnectReplaces(t)
  <2>1. /\ next' \in 1 .. MaxHandles + 1 /\ handles' \in [Ids -> Handles]
        /\ TableOK' /\ KeepsChildren
    BY <1>0, <1>7, TableKept DEF ConnectReplaces, table
  <2>2. /\ call[t].pc = "replace" /\ UNCHANGED callback
        /\ Become(t, [call[t] EXCEPT !.pc = "dial", !.connection = 0])
    BY <1>7 DEF ConnectReplaces, Running
  <2>4. CallsOK'
    BY <1>0, <2>1, <2>2, Copied, ZeroFits DEF Allocating
  <2>3. RestOK'
    BY <1>0, <1>7, ConnectionClosed DEF ConnectReplaces, RestOK, table, history
  <2> QED BY <2>1, <2>4, <2>3, Together
<1>8. CASE ConnectOpens(t)
  <2>1. /\ next' \in 1 .. MaxHandles + 1 /\ handles' \in [Ids -> Handles]
        /\ TableOK' /\ KeepsChildren
    BY <1>0, <1>8, TableKept DEF ConnectOpens, table
  <2>2. /\ call[t].pc = "dial" /\ call[t].client \in Ids /\ call[t].id \in Ids
        /\ UNCHANGED callback /\ UNCHANGED <<known, native, abandoned, overlapped>>
        /\ misused' \in BOOLEAN
    BY <1>0, <1>8 DEF ConnectOpens, Running, UndoesChildren, Allocating, table, history, Uses, RestOK
  <2>3. CASE Go(t, "undo") /\ UNCHANGED <<quic, connections>>
    <3>1. CallsOK'
      BY <1>0, <2>1, <2>2, <2>3, Went DEF Allocating
    <3>2. RestOK'
      BY <1>0, <2>2, <2>3 DEF RestOK, table, history
    <3> QED BY <2>1, <3>1, <3>2, Together
  <2>4. CASE /\ quic' = [quic EXCEPT ![call[t].client].connection = call[t].id]
             /\ connections' = [connections EXCEPT ![call[t].id] = [state |-> "open", client |-> call[t].client]]
             /\ Become(t, [call[t] EXCEPT !.pc = "start", !.connection = call[t].id])
    <3>1. CallsOK'
      BY <1>0, <2>1, <2>2, <2>4, Copied DEF Allocating
    <3>2. quic' \in [Ids -> Quics]
      BY <1>0, <2>2, <2>4, QuicChanged DEF RestOK, table, history
    <3>3. connections' \in [Ids -> Connections]
      <4>1. [state |-> "open", client |-> call[t].client] \in Connections
        BY <1>0, <2>2 DEF Connections
      <4> QED BY <1>0, <2>4, <4>1 DEF RestOK
    <3>4. RestOK'
      BY <1>0, <2>2, <3>2, <3>3 DEF RestOK, table, history
    <3> QED BY <2>1, <3>1, <3>4, Together
  <2> QED BY <1>8, <2>3, <2>4 DEF ConnectOpens
<1>9. CASE ConnectStarts(t)
  <2>1. /\ next' \in 1 .. MaxHandles + 1 /\ handles' \in [Ids -> Handles]
        /\ TableOK' /\ KeepsChildren
    BY <1>0, <1>9, TableKept DEF ConnectStarts, table
  <2>2. CallsOK'
    BY <1>0, <1>9, <2>1, Returned DEF ConnectStarts, ReturnId
  <2>3. known' \in SUBSET Ids
    <3>1. call[t].id \in Ids
      BY <1>0, <1>9 DEF ConnectStarts, Running, UndoesChildren, Allocating
    <3> QED BY <1>0, <1>9, <3>1 DEF ConnectStarts, ReturnId, RestOK
  <2>4. connections' \in [Ids -> Connections]
    <3>1. connections \in [Ids -> Connections] /\ call[t].id \in Ids
      BY <1>0, <1>9 DEF ConnectStarts, Running, UndoesChildren, Allocating, RestOK
    <3>2. [connections[call[t].id] EXCEPT !.state = IF @ = "open" THEN "started" ELSE @] \in Connections
      BY <3>1 DEF Connections
    <3> QED BY <1>9, <3>1, <3>2 DEF ConnectStarts
  <2>5. RestOK'
    BY <1>0, <1>9, <2>3, <2>4 DEF ConnectStarts, RestOK, Uses, history, table
  <2> QED BY <2>1, <2>2, <2>5, Together
<1>10. CASE ConnectFails(t)
  <2>1. /\ next' \in 1 .. MaxHandles + 1 /\ handles' \in [Ids -> Handles]
        /\ TableOK' /\ KeepsChildren
    BY <1>0, <1>10, TableKept DEF ConnectFails, table
  <2>2. CallsOK'
    BY <1>0, <1>10, <2>1, Went DEF ConnectFails, Running, Allocating
  <2>3. RestOK'
    BY <1>0, <1>10, ConnectionClosed DEF ConnectFails, RestOK, table, history
  <2> QED BY <2>1, <2>2, <2>3, Together
<1>11. CASE ConnectForgets(t)
  <2>1. /\ next' \in 1 .. MaxHandles + 1 /\ handles' \in [Ids -> Handles]
        /\ TableOK' /\ KeepsChildren
    BY <1>0, <1>11, TableKept DEF ConnectForgets, table
  <2>2. call[t].pc = "forget" /\ call[t].client \in Ids /\ UNCHANGED callback /\ 0 \in 0 .. MaxHandles
    BY <1>0, <1>11, HandlesAssumption DEF ConnectForgets, Running
  <2>3. CallsOK'
    BY <1>0, <1>11, <2>1, <2>2, Copied DEF ConnectForgets, Allocating
  <2>4. quic' \in [Ids -> Quics]
    BY <1>0, <1>11, <2>2, QuicChanged DEF ConnectForgets, RestOK, table, history
  <2>5. RestOK'
    BY <1>0, <1>11, <2>4 DEF ConnectForgets, RestOK, Uses, table, history
  <2> QED BY <2>1, <2>3, <2>5, Together
<1>12. CASE Undo(t)
  <2>1. call[t].id \in Ids /\ handles[call[t].id].kind # "client"
    BY <1>0, <1>12 DEF Undo, Running, UndoesChildren, Allocating
  <2>2. /\ next' \in 1 .. MaxHandles + 1 /\ handles' \in [Ids -> Handles]
        /\ TableOK' /\ KeepsChildren
    BY <1>0, <1>12, <2>1, Removed DEF Undo, table
  <2>3. CallsOK'
    BY <1>0, <1>12, <2>2, Returned DEF Undo
  <2>4. quic' \in [Ids -> Quics]
    <3>1. quic[call[t].client].streams \ {e \in EntriesOf(call[t].client, call[t].id) : Found(e.id, "stream")}
            \in SUBSET Entries
      BY <1>0, <1>12, QuicFields DEF RestOK, Undo, Running, table, history
    <3> QED BY <1>0, <1>12, <3>1, QuicChanged DEF Undo, RestOK, Running
  <2>5. native' \in [NativeStreams -> Natives] /\ misused' \in BOOLEAN
    BY <1>0, <1>12, StreamsClosed DEF Undo, RestOK, table, history
  <2>6. RestOK'
    BY <1>0, <1>12, <2>4, <2>5 DEF Undo, RestOK, history, table
  <2> QED BY <2>2, <2>3, <2>6, Together
<1>13. CASE Shutdown(t)
  <2>1. /\ next' \in 1 .. MaxHandles + 1 /\ handles' \in [Ids -> Handles]
        /\ TableOK' /\ KeepsChildren
    BY <1>0, <1>13, TableKept DEF Shutdown, table
  <2>2. CallsOK'
    <3> DEFINE c == call[t].client
               pc == IF call[t].pc = "shutdown" THEN "abort" ELSE "abort released"
               r == [call[t] EXCEPT !.pc = pc, !.rest = Listed(c), !.connection = quic[c].connection]
    <3>1. call[t].pc \in {"shutdown", "released"} /\ UNCHANGED callback /\ call' = [call EXCEPT ![t] = r]
      BY <1>0, <1>13 DEF Shutdown, Become, Calls
    <3>2. c \in Ids /\ Listed(c) \in SUBSET NativeStreams /\ quic[c].connection \in 0 .. MaxHandles
      BY <1>0, <3>1, OnTheList, QuicFields DEF RestOK, table, history
    <3>3. pc \in {"abort", "abort released"}
      OBVIOUS
    <3> HIDE DEF pc
    <3>4. r \in Calls /\ r.pc = pc /\ r.id = call[t].id /\ r.client = call[t].client
      BY <1>0, <3>2, <3>3 DEF Calls
    <3> HIDE DEF r
    <3> QED BY <1>0, <2>1, <3>1, <3>3, <3>4, GoesOn DEF Allocating
  <2>3. RestOK'
    BY <1>0, <1>13, QuicChanged DEF Shutdown, RestOK, Uses, table, history
  <2> QED BY <2>1, <2>2, <2>3, Together
<1>14. CASE ShutdownReturns(t)
  <2>1. /\ next' \in 1 .. MaxHandles + 1 /\ handles' \in [Ids -> Handles]
        /\ TableOK' /\ KeepsChildren
    BY <1>0, <1>14, TableKept DEF ShutdownReturns, table
  <2>2. CallsOK'
    BY <1>0, <1>14, <2>1, Returned DEF ShutdownReturns
  <2>3. RestOK'
    BY <1>0, <1>14 DEF ShutdownReturns, RestOK, Uses, table, history
  <2> QED BY <2>1, <2>2, <2>3, Together
<1>15. CASE FreeContext(t)
  <2>1. /\ next' \in 1 .. MaxHandles + 1 /\ handles' \in [Ids -> Handles]
        /\ TableOK' /\ KeepsChildren
    BY <1>0, <1>15, TableKept DEF FreeContext, table
  <2>2. CallsOK'
    BY <1>0, <1>15, <2>1, Returned DEF FreeContext
  <2>3. RestOK'
    BY <1>0, <1>15, QuicChanged DEF FreeContext, RestOK, Running, Uses, table, history
  <2> QED BY <2>1, <2>2, <2>3, Together
<1>16. ASSUME NEW q \in NativeStreams, Abort(t, q) PROVE IInv'
  <2>1. /\ next' \in 1 .. MaxHandles + 1 /\ handles' \in [Ids -> Handles]
        /\ TableOK' /\ KeepsChildren
    BY <1>0, <1>16, TableKept DEF Abort, table
  <2>2. CallsOK'
    <3> DEFINE r == [call[t] EXCEPT !.rest = @ \ {q}]
    <3>1. call[t].pc \in {"abort", "abort released"} /\ UNCHANGED callback /\ call' = [call EXCEPT ![t] = r]
      BY <1>0, <1>16 DEF Abort
    <3>2. r \in Calls /\ r.pc = call[t].pc /\ r.id = call[t].id /\ r.client = call[t].client
      BY <1>0 DEF Calls
    <3> HIDE DEF r
    <3> QED BY <1>0, <2>1, <3>1, <3>2, GoesOn DEF Allocating
  <2>3. RestOK'
    BY <1>0, <1>16 DEF Abort, RestOK, Uses, table, history
  <2> QED BY <2>1, <2>2, <2>3, Together
<1> QED BY <1>1, <1>2, <1>3, <1>4, <1>5, <1>6, <1>7, <1>8, <1>9, <1>10, <1>11,
           <1>12, <1>13, <1>14, <1>15, <1>16 DEF ClientCalls

\* What a thread does with sessions, up to the streams it opens.
LEMMA SessionStep ==
  ASSUME IInv, NEW t \in Threads, SessionCalls(t)
  PROVE  IInv'
<1>0. /\ TypeOK /\ TableOK /\ UndoesChildren /\ WhatCallsHold /\ CallsOK /\ RestOK
      /\ \A i \in Ids : i \in 0 .. MaxHandles
      /\ call[t] \in Calls
      /\ call[t].pc # "idle" => call[t].client \in Ids
  BY Apart, ZeroFits, InCall
<1>1. ASSUME NEW s \in Ids, wt_session_open_bidi_stream(t, s) PROVE IInv'
  <2> DEFINE c == handles[s].client
  <2>1. next \in Ids /\ Found(c, "client") /\ c \in Ids
    BY <1>1 DEF wt_session_open_bidi_stream, Allocate, Found
  <2>2. /\ StreamHandle(c, s) \in Handles
        /\ StreamHandle(c, s).kind = "stream" /\ StreamHandle(c, s).client = c
    BY <1>0, <2>1 DEF StreamHandle, Handles
  <2>3. /\ Allocate(StreamHandle(c, s)) /\ Begin(t, "open", c, next)
        /\ UNCHANGED <<known, quic, connections, native, callback, abandoned, overlapped, misused>>
    BY <1>1 DEF wt_session_open_bidi_stream, history
  <2> HIDE DEF c
  <2>4. /\ next' \in 1 .. MaxHandles + 1 /\ handles' \in [Ids -> Handles]
        /\ TableOK' /\ KeepsChildren
        /\ next' = next + 1 /\ handles'[next] = StreamHandle(c, s)
    BY <1>0, <2>1, <2>2, <2>3, Allocated
  <2>5. next < next'
    BY <2>1, <2>4, HandlesAssumption DEF Ids
  <2>6. CallsOK'
    BY <1>0, <2>1, <2>2, <2>3, <2>4, <2>5, Began
  <2>7. RestOK'
    BY <1>0, <2>3 DEF RestOK, table, history
  <2> QED BY <2>4, <2>6, <2>7, Together
<1>2. ASSUME NEW s \in Ids, wt_session_send_datagram(t, s) PROVE IInv'
  <2>1. /\ next' \in 1 .. MaxHandles + 1 /\ handles' \in [Ids -> Handles]
        /\ TableOK' /\ KeepsChildren
    BY <1>0, <1>2, TableKept DEF wt_session_send_datagram, table
  <2>2. CallsOK'
    BY <1>0, <1>2, <2>1, ZeroFits, Began DEF wt_session_send_datagram, Usable, Found
  <2>3. RestOK'
    BY <1>0, <1>2 DEF wt_session_send_datagram, RestOK, table, history
  <2> QED BY <2>1, <2>2, <2>3, Together
<1>3. ASSUME NEW s \in Ids, wt_session_close(t, s) PROVE IInv'
  <2>1. /\ next' \in 1 .. MaxHandles + 1 /\ handles' \in [Ids -> Handles]
        /\ TableOK' /\ KeepsChildren
    BY <1>0, <1>3, TableKept DEF wt_session_close, MayPush, table
  <2>2. CallsOK'
    BY <1>0, <1>3, <2>1, ZeroFits, Began DEF wt_session_close, MayPush, Usable, Found
  <2>3. RestOK'
    BY <1>0, <1>3 DEF wt_session_close, MayPush, RestOK, table, history
  <2> QED BY <2>1, <2>2, <2>3, Together
<1>4. ASSUME NEW s \in Ids, ReleaseSession(t, s) PROVE IInv'
  <2>1. /\ next' \in 1 .. MaxHandles + 1 /\ handles' \in [Ids -> Handles]
        /\ TableOK' /\ KeepsChildren
    BY <1>0, <1>4, Removed DEF ReleaseSession, Usable, Found, table
  <2>2. CallsOK'
    BY <1>0, <1>4, <2>1, NobodyMoves DEF ReleaseSession, table
  <2>3. RestOK'
    BY <1>0, <1>4 DEF ReleaseSession, RestOK, table, history
  <2> QED BY <2>1, <2>2, <2>3, Together
<1>5. CASE StreamOpen(t)
  <2>1. /\ next' \in 1 .. MaxHandles + 1 /\ handles' \in [Ids -> Handles]
        /\ TableOK' /\ KeepsChildren
    BY <1>0, <1>5, TableKept DEF StreamOpen, table
  <2>2. /\ call[t].pc = "opening" /\ call[t].connection \in 0 .. MaxHandles /\ UNCHANGED callback
        /\ UNCHANGED <<known, quic, connections, abandoned, overlapped>> /\ misused' \in BOOLEAN
        /\ 0 \in 0 .. MaxHandles
    <3>1. call[t].pc = "opening" /\ UNCHANGED callback
          /\ UNCHANGED <<known, quic, connections, abandoned, overlapped>>
      BY <1>5 DEF StreamOpen, Running, table, history
    <3>2. call[t].connection \in 0 .. MaxHandles
      BY <1>0 DEF Calls
    <3>3. misused' \in BOOLEAN
      BY <1>0, <1>5 DEF StreamOpen, Uses, RestOK
    <3> QED BY <3>1, <3>2, <3>3, ZeroFits
  <2>3. CASE Become(t, [call[t] EXCEPT !.pc = "undo", !.connection = 0]) /\ UNCHANGED native
    <3>1. CallsOK'
      BY <1>0, <2>1, <2>2, <2>3, Copied DEF Allocating
    <3>2. RestOK'
      BY <1>0, <2>2, <2>3 DEF RestOK, table, history
    <3> QED BY <2>1, <3>1, <3>2, Together
  <2>4. ASSUME NEW q \in NativeStreams,
               native' = [native EXCEPT ![q] = [state |-> "open", connection |-> call[t].connection]],
               Become(t, [call[t] EXCEPT !.pc = "list", !.native = q, !.connection = 0])
        PROVE  IInv'
    <3> DEFINE r == [call[t] EXCEPT !.pc = "list", !.native = q, !.connection = 0]
    <3>1. call' = [call EXCEPT ![t] = r]
      BY <2>4 DEF Become
    <3>2. r \in Calls /\ r.pc = "list" /\ r.id = call[t].id /\ r.client = call[t].client /\ r.native = q
      BY <1>0, <2>2 DEF Calls
    <3> HIDE DEF r
    <3>3. CallsOK'
      BY <1>0, <2>1, <2>2, <3>1, <3>2, GoesOn DEF Allocating
    <3>4. native' \in [NativeStreams -> Natives]
      <4>1. [state |-> "open", connection |-> call[t].connection] \in Natives
        BY <2>2 DEF Natives
      <4> QED BY <1>0, <2>4, <4>1 DEF RestOK
    <3>5. RestOK'
      BY <1>0, <2>2, <3>4 DEF RestOK
    <3> QED BY <2>1, <3>3, <3>5, Together
  <2> QED BY <1>5, <2>3, <2>4 DEF StreamOpen
<1>6. CASE FindConnection(t)
  <2>1. /\ next' \in 1 .. MaxHandles + 1 /\ handles' \in [Ids -> Handles]
        /\ TableOK' /\ KeepsChildren
    BY <1>0, <1>6, TableKept DEF FindConnection, table
  <2>2. call[t].pc = "open" /\ call[t].client \in Ids /\ UNCHANGED callback
    BY <1>0, <1>6 DEF FindConnection, Running
  <2>3. quic[call[t].client].connection \in 0 .. MaxHandles
    BY <1>0, <2>2, QuicFields DEF RestOK
  <2>4. CallsOK'
    <3>1. CASE quic[call[t].client].connection = 0
      BY <1>0, <1>6, <2>1, <2>2, <3>1, Went DEF FindConnection, Allocating
    <3>2. CASE quic[call[t].client].connection # 0
      BY <1>0, <1>6, <2>1, <2>2, <2>3, <3>2, Copied DEF FindConnection, Allocating
    <3> QED BY <3>1, <3>2
  <2>5. RestOK'
    BY <1>0, <1>6 DEF FindConnection, RestOK, Uses, table, history
  <2> QED BY <2>1, <2>4, <2>5, Together
<1>7. CASE CopyConnection(t)
  <2>1. /\ next' \in 1 .. MaxHandles + 1 /\ handles' \in [Ids -> Handles]
        /\ TableOK' /\ KeepsChildren
    BY <1>0, <1>7, TableKept DEF CopyConnection, table
  <2>2. call[t].pc = "datagram" /\ call[t].client \in Ids /\ UNCHANGED callback
    BY <1>0, <1>7 DEF CopyConnection, Running
  <2>3. quic[call[t].client].connection \in 0 .. MaxHandles
    BY <1>0, <2>2, QuicFields DEF RestOK
  <2>4. CallsOK'
    <3>1. CASE quic[call[t].client].connection = 0
      BY <1>0, <1>7, <2>1, <2>2, <3>1, Returned DEF CopyConnection, Allocating
    <3>2. CASE quic[call[t].client].connection # 0
      BY <1>0, <1>7, <2>1, <2>2, <2>3, <3>2, Copied DEF CopyConnection, Allocating
    <3> QED BY <3>1, <3>2
  <2>5. RestOK'
    BY <1>0, <1>7 DEF CopyConnection, RestOK, Uses, table, history
  <2> QED BY <2>1, <2>4, <2>5, Together
<1>8. CASE Unlist(t)
  <2>1. /\ next' \in 1 .. MaxHandles + 1 /\ handles' \in [Ids -> Handles]
        /\ TableOK' /\ KeepsChildren
    BY <1>0, <1>8, TableKept DEF Unlist, table
  <2>2. CallsOK'
    BY <1>0, <1>8, <2>1, Went DEF Unlist, Running, Allocating
  <2>3. quic' \in [Ids -> Quics]
    <3>1. /\ call[t].client \in Ids
          /\ quic[call[t].client].streams \ EntriesAt(call[t].client, call[t].native) \in SUBSET Entries
      BY <1>0, <1>8, QuicFields DEF RestOK, Unlist, Running, table, history
    <3> QED BY <1>0, <1>8, <3>1, QuicChanged DEF Unlist, RestOK
  <2>4. RestOK'
    BY <1>0, <1>8, <2>3 DEF Unlist, RestOK, Uses, table, history
  <2> QED BY <2>1, <2>2, <2>4, Together
<1>9. CASE SendDatagram(t)
  <2>1. /\ next' \in 1 .. MaxHandles + 1 /\ handles' \in [Ids -> Handles]
        /\ TableOK' /\ KeepsChildren
    BY <1>0, <1>9, TableKept DEF SendDatagram, table
  <2>2. CallsOK'
    BY <1>0, <1>9, <2>1, Returned DEF SendDatagram
  <2>3. RestOK'
    BY <1>0, <1>9 DEF SendDatagram, RestOK, Uses, table, history
  <2> QED BY <2>1, <2>2, <2>3, Together
<1>10. ASSUME NEW memory \in BOOLEAN, ListStream(t, memory) PROVE IInv'
  <2>1. /\ next' \in 1 .. MaxHandles + 1 /\ handles' \in [Ids -> Handles]
        /\ TableOK' /\ KeepsChildren
    BY <1>0, <1>10, TableKept DEF ListStream, table
  <2>2. call[t].pc = "list" /\ call[t].native \in NativeStreams /\ call[t].id \in Ids
    BY <1>0, <1>10 DEF ListStream, Running, WhatCallsHold, UndoesChildren, Allocating
  <2>3. CallsOK'
    <3>1. CASE memory
      BY <1>0, <1>10, <2>1, <2>2, <3>1, Went DEF ListStream, Allocating
    <3>2. CASE ~memory
      BY <1>0, <1>10, <2>1, <2>2, <3>2, Went DEF ListStream, Allocating
    <3> QED BY <3>1, <3>2
  <2>4. quic' \in [Ids -> Quics] /\ native' \in [NativeStreams -> Natives] /\ misused' \in BOOLEAN
    <3>1. CASE memory
      <4>1. Entry(call[t].id, call[t].native) \in Entries
        BY <2>2 DEF Entry, Entries
      <4>2. /\ call[t].client \in Ids
            /\ quic[call[t].client].streams \cup {Entry(call[t].id, call[t].native)} \in SUBSET Entries
        BY <1>0, <2>2, <4>1, QuicFields DEF RestOK, table, history
      <4>3. quic' = [quic EXCEPT ![call[t].client].streams = @ \cup {Entry(call[t].id, call[t].native)}]
        BY <1>10, <3>1 DEF ListStream
      <4>4. quic' \in [Ids -> Quics]
        BY <1>0, <4>2, <4>3, QuicChanged DEF RestOK, table, history
      <4> QED BY <1>0, <1>10, <3>1, <4>4 DEF ListStream, RestOK, Uses
    <3>2. CASE ~memory
      BY <1>0, <1>10, <3>2, StreamsClosed DEF ListStream, RestOK, table, history
    <3> QED BY <3>1, <3>2
  <2>5. RestOK'
    BY <1>0, <1>10, <2>4 DEF ListStream, RestOK, table, history
  <2> QED BY <2>1, <2>3, <2>5, Together
<1>11. ASSUME NEW sent \in BOOLEAN, SendPrefix(t, sent) PROVE IInv'
  <2>1. /\ next' \in 1 .. MaxHandles + 1 /\ handles' \in [Ids -> Handles]
        /\ TableOK' /\ KeepsChildren
    BY <1>0, <1>11, TableKept DEF SendPrefix, table
  <2>2. call[t].pc = "prefix" /\ call[t].native \in NativeStreams /\ call[t].id \in Ids
    BY <1>0, <1>11 DEF SendPrefix, Running, WhatCallsHold, UndoesChildren, Allocating
  <2>3. CallsOK'
    <3>1. CASE sent
      BY <1>0, <1>11, <2>1, <3>1, Returned DEF SendPrefix, ReturnId
    <3>2. CASE ~sent
      BY <1>0, <1>11, <2>1, <2>2, <3>2, Went DEF SendPrefix, Allocating
    <3> QED BY <3>1, <3>2
  <2>4. native' \in [NativeStreams -> Natives] /\ misused' \in BOOLEAN
    BY <1>0, <1>11, StreamsClosed DEF SendPrefix, RestOK, Uses, table, history
  <2>5. known' \in SUBSET Ids
    BY <1>0, <1>11, <2>2 DEF SendPrefix, ReturnId, RestOK, table, history
  <2>6. RestOK'
    BY <1>0, <1>11, <2>4, <2>5 DEF SendPrefix, RestOK, table, history
  <2> QED BY <2>1, <2>3, <2>6, Together
<1> QED BY <1>1, <1>2, <1>3, <1>4, <1>5, <1>6, <1>7, <1>8, <1>9, <1>10, <1>11 DEF SessionCalls

\* What a thread does with streams that are there.
LEMMA StreamStep ==
  ASSUME IInv, NEW t \in Threads, StreamCalls(t)
  PROVE  IInv'
<1>0. /\ TypeOK /\ TableOK /\ UndoesChildren /\ WhatCallsHold /\ CallsOK /\ RestOK
      /\ \A i \in Ids : i \in 0 .. MaxHandles
      /\ call[t] \in Calls
      /\ call[t].pc # "idle" => call[t].client \in Ids
  BY Apart, ZeroFits, InCall
<1>1. ASSUME NEW i \in Ids, wt_stream_write(t, i) PROVE IInv'
  <2>1. /\ next' \in 1 .. MaxHandles + 1 /\ handles' \in [Ids -> Handles]
        /\ TableOK' /\ KeepsChildren
    BY <1>0, <1>1, TableKept DEF wt_stream_write, table
  <2>2. CallsOK'
    BY <1>0, <1>1, <2>1, Began DEF wt_stream_write, Found
  <2>3. RestOK'
    BY <1>0, <1>1 DEF wt_stream_write, RestOK, table, history
  <2> QED BY <2>1, <2>2, <2>3, Together
<1>2. ASSUME NEW i \in Ids, ReleaseStream(t, i) PROVE IInv'
  <2>1. handles[i].kind = "stream" /\ handles[i].client \in Ids
    BY <1>0, <1>2 DEF ReleaseStream, Usable, Found, TableOK, ChildrenHaveClient
  <2>2. /\ next' \in 1 .. MaxHandles + 1 /\ handles' \in [Ids -> Handles]
        /\ TableOK' /\ KeepsChildren
    BY <1>0, <1>2, <2>1, Removed DEF ReleaseStream, table
  <2>3. CallsOK'
    BY <1>0, <1>2, <2>1, <2>2, Began DEF ReleaseStream
  <2>4. RestOK'
    BY <1>0, <1>2 DEF ReleaseStream, RestOK, table, history
  <2> QED BY <2>2, <2>3, <2>4, Together
<1>3. CASE FindToSend(t)
  <2>1. /\ next' \in 1 .. MaxHandles + 1 /\ handles' \in [Ids -> Handles]
        /\ TableOK' /\ KeepsChildren
    BY <1>0, <1>3, TableKept DEF FindToSend, table
  <2>2. CallsOK'
    <3>1. call[t].pc = "send" /\ UNCHANGED callback
      BY <1>3 DEF FindToSend, Running
    <3>2. CASE Return(t)
      BY <1>0, <2>1, <3>1, <3>2, Returned
    <3>3. CASE \E e \in EntriesOf(call[t].client, call[t].id) :
                 Become(t, [call[t] EXCEPT !.pc = "sending", !.native = e.native])
      <4>1. PICK e \in EntriesOf(call[t].client, call[t].id) :
              Become(t, [call[t] EXCEPT !.pc = "sending", !.native = e.native])
        BY <3>3
      <4>2. e.native \in NativeStreams
        BY <1>0, <3>1, <4>1, OnTheList DEF EntriesOf
      <4> QED BY <1>0, <2>1, <3>1, <4>1, <4>2, TookUp
    <3> QED BY <1>3, <3>2, <3>3 DEF FindToSend
  <2>3. RestOK'
    BY <1>0, <1>3 DEF FindToSend, RestOK, Uses, table, history
  <2> QED BY <2>1, <2>2, <2>3, Together
<1>4. CASE Send(t)
  <2>1. /\ next' \in 1 .. MaxHandles + 1 /\ handles' \in [Ids -> Handles]
        /\ TableOK' /\ KeepsChildren
    BY <1>0, <1>4, TableKept DEF Send, table
  <2>2. CallsOK'
    BY <1>0, <1>4, <2>1, Returned DEF Send
  <2>3. RestOK'
    BY <1>0, <1>4 DEF Send, RestOK, Uses, table, history
  <2> QED BY <2>1, <2>2, <2>3, Together
<1>5. CASE Delist(t)
  <2>1. /\ next' \in 1 .. MaxHandles + 1 /\ handles' \in [Ids -> Handles]
        /\ TableOK' /\ KeepsChildren
    BY <1>0, <1>5, TableKept DEF Delist, table
  <2>2. /\ call[t].pc = "closing" /\ call[t].client \in Ids /\ UNCHANGED callback
        /\ UNCHANGED <<known, connections, native, abandoned, overlapped>> /\ misused' \in BOOLEAN
    BY <1>0, <1>5 DEF Delist, Running, Uses, RestOK, table, history
  <2>3. CASE Return(t) /\ UNCHANGED quic
    <3>1. CallsOK'
      BY <1>0, <2>1, <2>2, <2>3, Returned
    <3>2. RestOK'
      BY <1>0, <2>2, <2>3 DEF RestOK, table, history
    <3> QED BY <2>1, <3>1, <3>2, Together
  <2>4. ASSUME NEW e \in EntriesOf(call[t].client, call[t].id),
               Become(t, [call[t] EXCEPT !.pc = "close", !.native = e.native]),
               quic' = [quic EXCEPT ![call[t].client].streams = @ \ EntriesAt(call[t].client, e.native)]
        PROVE  IInv'
    <3>1. /\ e.native \in NativeStreams
          /\ quic[call[t].client].streams \ EntriesAt(call[t].client, e.native) \in SUBSET Entries
      BY <1>0, <2>2, <2>4, OnTheList DEF EntriesOf
    <3>2. CallsOK'
      BY <1>0, <2>1, <2>2, <2>4, <3>1, TookUp
    <3>3. quic' \in [Ids -> Quics]
      BY <1>0, <2>2, <2>4, <3>1, QuicChanged DEF RestOK, table, history
    <3>4. RestOK'
      BY <1>0, <2>2, <3>3 DEF RestOK, table, history
    <3> QED BY <2>1, <3>2, <3>4, Together
  <2> QED BY <1>5, <2>3, <2>4 DEF Delist
<1>6. CASE StreamClose(t)
  <2>1. /\ next' \in 1 .. MaxHandles + 1 /\ handles' \in [Ids -> Handles]
        /\ TableOK' /\ KeepsChildren
    BY <1>0, <1>6, TableKept DEF StreamClose, table
  <2>2. CallsOK'
    BY <1>0, <1>6, <2>1, Returned DEF StreamClose
  <2>3. native' \in [NativeStreams -> Natives] /\ misused' \in BOOLEAN
    BY <1>0, <1>6, StreamsClosed DEF StreamClose, RestOK, table, history
  <2>4. RestOK'
    BY <1>0, <1>6, <2>3 DEF StreamClose, RestOK, table, history
  <2> QED BY <2>1, <2>2, <2>4, Together
<1> QED BY <1>1, <1>2, <1>3, <1>4, <1>5, <1>6 DEF StreamCalls

\* A client with a session has a newest one: the ids handed out are bounded.
LEMMA NewestExists ==
  ASSUME NEW S \in SUBSET Ids, S # {}
  PROVE  \E m \in S : \A r \in S : r <= m
<1> DEFINE Ahead == {MaxHandles - r : r \in S}
<1>1. Ahead \in SUBSET Nat /\ Ahead # {}
  BY HandlesAssumption DEF Ids
<1>2. \E n \in Ahead : \A d \in Ahead : n <= d
  <2> HIDE DEF Ahead
  <2>1. \E n \in Ahead : \A d \in Ahead : ~ (<<d, n>> \in OpToRel(<, Nat))
    BY <1>1, NatLessThanWellFounded, WFMin
  <2>2. PICK n \in Ahead : \A d \in Ahead : ~ (<<d, n>> \in OpToRel(<, Nat))
    BY <2>1
  <2>3. ASSUME NEW d \in Ahead PROVE n <= d
    <3>1. n \in Nat /\ d \in Nat
      BY <1>1
    <3>2. ~ (d < n)
      BY <2>2, <3>1 DEF OpToRel
    <3> QED BY <3>1, <3>2
  <2> QED BY <2>3
<1>3. PICK m \in S : \A r \in S : MaxHandles - m <= MaxHandles - r
  BY <1>2
<1>4. \A r \in S : r \in Int
  BY DEF Ids
<1> QED BY <1>3, <1>4, HandlesAssumption

\* What a destroy does.
LEMMA DestroyStep ==
  ASSUME IInv, NEW c \in Ids, Destroys(c)
  PROVE  IInv'
<1>0. /\ TypeOK /\ TableOK /\ UndoesChildren /\ WhatCallsHold /\ CallsOK /\ RestOK
      /\ \A i \in Ids : i \in 0 .. MaxHandles
  BY Apart, HandlesAssumption DEF Ids, TypeOK
<1>1. CASE DestroyTakes(c)
  <2>1. /\ next' \in 1 .. MaxHandles + 1 /\ handles' \in [Ids -> Handles]
        /\ TableOK' /\ KeepsChildren
    BY <1>0, <1>1, TableKept DEF DestroyTakes, table
  <2>2. CallsOK'
    BY <1>0, <1>1, <2>1, NobodyMoves DEF DestroyTakes, table
  <2>3. Listed(c) \in SUBSET NativeStreams
    BY <1>0, OnTheList
  <2>4. quic' \in [Ids -> Quics]
    <3>1. [quic[c] EXCEPT !.life = "closing", !.doomed = Listed(c), !.streams = {}] \in Quics
      BY <1>0, <2>3 DEF RestOK, Quics, table, history
    <3> QED BY <1>0, <1>1, <3>1 DEF DestroyTakes, RestOK
  <2>5. RestOK'
    BY <1>0, <1>1, <2>4 DEF DestroyTakes, RestOK, Uses, table, history
  <2> QED BY <2>1, <2>2, <2>5, Together
<1>2. CASE DestroyFrees(c)
  <2>1. /\ next' \in 1 .. MaxHandles + 1 /\ handles' \in [Ids -> Handles]
        /\ TableOK' /\ KeepsChildren
    BY <1>0, <1>2, TableKept DEF DestroyFrees, table
  <2>2. CallsOK'
    BY <1>0, <1>2, <2>1, NobodyMoves DEF DestroyFrees, table
  <2>3. RestOK'
    BY <1>0, <1>2, QuicChanged DEF DestroyFrees, RestOK, table, history
  <2> QED BY <2>1, <2>2, <2>3, Together
<1>3. ASSUME NEW q \in NativeStreams, DestroyCloses(c, q) PROVE IInv'
  <2>1. /\ next' \in 1 .. MaxHandles + 1 /\ handles' \in [Ids -> Handles]
        /\ TableOK' /\ KeepsChildren
    BY <1>0, <1>3, TableKept DEF DestroyCloses, table
  <2>2. CallsOK'
    BY <1>0, <1>3, <2>1, NobodyMoves DEF DestroyCloses, table
  <2>3. quic' \in [Ids -> Quics]
    <3>1. quic[c].doomed \ {q} \in SUBSET NativeStreams
      BY <1>0, QuicFields DEF RestOK, table, history
    <3> QED BY <1>0, <1>3, <3>1, QuicChanged DEF DestroyCloses, RestOK
  <2>4. native' \in [NativeStreams -> Natives] /\ misused' \in BOOLEAN
    BY <1>0, <1>3, StreamsClosed DEF DestroyCloses, RestOK, table, history
  <2>5. RestOK'
    BY <1>0, <1>3, <2>3, <2>4 DEF DestroyCloses, RestOK, table, history
  <2> QED BY <2>1, <2>2, <2>5, Together
<1>4. CASE DestroyDisconnects(c)
  <2>1. /\ next' \in 1 .. MaxHandles + 1 /\ handles' \in [Ids -> Handles]
        /\ TableOK' /\ KeepsChildren
    BY <1>0, <1>4, TableKept DEF DestroyDisconnects, table
  <2>2. CallsOK'
    BY <1>0, <1>4, <2>1, NobodyMoves DEF DestroyDisconnects, table
  <2>3. quic' \in [Ids -> Quics]
    BY <1>0, <1>4, QuicChanged, ZeroFits DEF DestroyDisconnects, RestOK
  <2>4. RestOK'
    BY <1>0, <1>4, <2>3, ConnectionClosed DEF DestroyDisconnects, RestOK, table, history
  <2> QED BY <2>1, <2>2, <2>4, Together
<1> QED BY <1>1, <1>2, <1>3, <1>4 DEF Destroys

\* A callback runs for a connection of some client.
LEMMA OfClient ==
  ASSUME connections \in [Ids -> Connections], NEW k \in Ids, connections[k].state = "started"
  PROVE  connections[k].client \in Ids
  BY DEF Connections

\* What MsQuic's callbacks do.
LEMMA CallbackStep ==
  ASSUME IInv, NEW k \in Ids, Callbacks(k)
  PROVE  IInv'
<1>0. /\ TypeOK /\ TableOK /\ UndoesChildren /\ WhatCallsHold /\ CallsOK /\ RestOK
      /\ \A i \in Ids : i \in 0 .. MaxHandles
      /\ callback[k] \in CallbackStates
  BY Apart, HandlesAssumption DEF Ids, TypeOK
<1>1. ASSUME NEW q \in NativeStreams, PeerStreamStarted(k, q) PROVE IInv'
  <2>1. /\ next' \in 1 .. MaxHandles + 1 /\ handles' \in [Ids -> Handles]
        /\ TableOK' /\ KeepsChildren
    BY <1>0, <1>1, TableKept DEF PeerStreamStarted, table
  <2>2. CallsOK'
    <3>1. [NoCallback EXCEPT !.pc = "accept", !.native = q, !.address = quic[connections[k].client].address] \in CallbackStates
      <4>1. connections[k].client \in Ids
        BY <1>0, <1>1, OfClient DEF PeerStreamStarted, CallbackBegins, RestOK
      <4>2. quic[connections[k].client].address \in Addresses \cup {NoNative}
        BY <1>0, <4>1 DEF RestOK, Quics
      <4> QED BY <4>2, CallKinds DEF CallbackStates
    <3>2. /\ callback' = [callback EXCEPT ![k] = [NoCallback EXCEPT !.pc = "accept", !.native = q,
                                                                   !.address = quic[connections[k].client].address]]
          /\ UNCHANGED call
      BY <1>1 DEF PeerStreamStarted, CallbackBegins
    <3>3. /\ [NoCallback EXCEPT !.pc = "accept", !.native = q, !.address = quic[connections[k].client].address].pc = "accept"
          /\ [NoCallback EXCEPT !.pc = "accept", !.native = q, !.address = quic[connections[k].client].address].native = q
      BY DEF NoCallback
    <3> QED BY <1>0, <2>1, <3>1, <3>2, <3>3, CallbacksKept
  <2>3. native' \in [NativeStreams -> Natives]
    <3>1. [state |-> "open", connection |-> k] \in Natives
      BY <1>0 DEF Natives
    <3> QED BY <1>0, <1>1, <3>1 DEF PeerStreamStarted, RestOK
  <2>4. RestOK'
    BY <1>0, <1>1, <2>3 DEF PeerStreamStarted, RestOK, table, history
  <2> QED BY <2>1, <2>2, <2>4, Together
<1>2. ASSUME NEW q \in NativeStreams, NEW complete \in BOOLEAN, StreamEvent(k, q, complete)
      PROVE  IInv'
  <2>1. /\ next' \in 1 .. MaxHandles + 1 /\ handles' \in [Ids -> Handles]
        /\ TableOK' /\ KeepsChildren
    BY <1>0, <1>2, TableKept DEF StreamEvent, table
  <2>2. CallsOK'
    <3> DEFINE r == [NoCallback EXCEPT !.pc = IF complete THEN "complete" ELSE "data", !.native = q]
    <3>1. r \in CallbackStates /\ r.pc \in {"data", "complete"} /\ r.native = q
      BY CallKinds DEF CallbackStates, NoCallback
    <3>2. callback' = [callback EXCEPT ![k] = r] /\ UNCHANGED call
      BY <1>2 DEF StreamEvent, CallbackBegins
    <3> HIDE DEF r
    <3> QED BY <1>0, <2>1, <3>1, <3>2, CallbacksKept
  <2>3. RestOK'
    BY <1>0, <1>2 DEF StreamEvent, RestOK, table, history
  <2> QED BY <2>1, <2>2, <2>3, Together
<1>6. CASE LookUp(k)
  <2> DEFINE c == connections[k].client
             q == callback[k].native
  <2>1. /\ next' \in 1 .. MaxHandles + 1 /\ handles' \in [Ids -> Handles]
        /\ TableOK' /\ KeepsChildren
    BY <1>0, <1>6, TableKept DEF LookUp, table
  <2>2. CallsOK'
    <3>1. CASE callback' = [callback EXCEPT ![k].pc = "sink"]
      <4> DEFINE r == [callback[k] EXCEPT !.pc = "sink"]
      <4>1. r \in CallbackStates /\ r.pc = "sink"
        BY <1>0 DEF CallbackStates
      <4>2. callback' = [callback EXCEPT ![k] = r] /\ UNCHANGED call
        BY <1>0, <1>6, <3>1 DEF LookUp, TypeOK
      <4> HIDE DEF r
      <4> QED BY <1>0, <2>1, <4>1, <4>2, CallbacksKept
    <3>2. CASE CallbackEnds(k)
      BY <1>0, <1>6, <2>1, <3>2, CallKinds, CallbacksKept DEF LookUp, CallbackEnds
    <3> QED BY <1>6, <3>1, <3>2 DEF LookUp
  <2>3. quic' \in [Ids -> Quics] /\ native' \in [NativeStreams -> Natives]
    <3>1. CASE UNCHANGED <<quic, native>>
      BY <1>0, <3>1 DEF RestOK
    <3>2. CASE /\ EntriesAt(c, q) # {}
               /\ quic' = [quic EXCEPT ![c].streams = @ \ EntriesAt(c, q)]
               /\ native' = [native EXCEPT ![q].state = "over"]
      <4>1. native' \in [NativeStreams -> Natives]
        BY <1>0, <3>2 DEF RestOK, Natives
      <4>2. CASE c \in Ids
        <5>1. quic[c].streams \ EntriesAt(c, q) \in SUBSET Entries
          BY <1>0, <4>2, OnTheList
        <5> QED BY <1>0, <3>2, <4>1, <4>2, <5>1, QuicChanged DEF RestOK
      <4>3. CASE c \notin Ids
        BY <1>0, <3>2, <4>1, <4>3 DEF RestOK
      <4> QED BY <4>2, <4>3
    <3> QED BY <1>6, <3>1, <3>2 DEF LookUp
  <2>4. RestOK'
    BY <1>0, <1>6, <2>3 DEF LookUp, Uses, RestOK, table, history
  <2> QED BY <2>1, <2>2, <2>4, Together
<1>3. CASE wt_accept_peer_stream(k)
  <2>1. callback[k].pc = "accept" /\ callback[k].native \in NativeStreams
        /\ UNCHANGED <<quic, connections, native, call, overlapped, misused>>
    BY <1>0, <1>3 DEF wt_accept_peer_stream, WhatCallsHold
  <2>2. ASSUME UNCHANGED <<handles, next, known>>, abandoned' = abandoned \cup {callback[k].native},
               CallbackEnds(k)
        PROVE  IInv'
    <3>1. /\ next' \in 1 .. MaxHandles + 1 /\ handles' \in [Ids -> Handles]
          /\ TableOK' /\ KeepsChildren
      BY <1>0, <2>2, TableKept
    <3>2. CallsOK'
      BY <1>0, <2>1, <2>2, <3>1, CallKinds, CallbacksKept DEF CallbackEnds
    <3>3. RestOK'
      BY <1>0, <2>1, <2>2 DEF RestOK, table, history
    <3> QED BY <3>1, <3>2, <3>3, Together
  <2>3. ASSUME NEW d \in ClientsAt(callback[k].address), SessionsOf(d) # {},
               Allocate(StreamHandle(d, Newest(SessionsOf(d)))),
               \/ /\ callback' = [callback EXCEPT ![k].pc = "list", ![k].id = next]
                  /\ known' = known \cup {next}
                  /\ UNCHANGED abandoned
               \/ /\ abandoned' = abandoned \cup {callback[k].native}
                  /\ CallbackEnds(k)
                  /\ UNCHANGED known
        PROVE  IInv'
    <3> DEFINE s == Newest(SessionsOf(d))
    <3>1. s \in Ids /\ d \in Ids /\ Found(d, "client") /\ next \in Ids
      <4>1. d \in Ids /\ Found(d, "client") /\ next \in Ids
        BY <2>3 DEF ClientsAt, Allocate
      <4>2. \E m \in SessionsOf(d) : \A r \in SessionsOf(d) : r <= m
        BY <1>0, <2>3, NewestExists DEF SessionsOf
      <4>3. s \in SessionsOf(d)
        BY <4>2 DEF Newest
      <4> QED BY <4>1, <4>3 DEF SessionsOf
    <3>2. Allocate(StreamHandle(d, s))
      BY <2>3
    <3> HIDE DEF s
    <3>3. StreamHandle(d, s) \in Handles /\ StreamHandle(d, s).kind = "stream" /\ StreamHandle(d, s).client = d
      BY <1>0, <3>1 DEF StreamHandle, Handles
    <3>4. /\ next' \in 1 .. MaxHandles + 1 /\ handles' \in [Ids -> Handles]
          /\ TableOK' /\ KeepsChildren
      BY <1>0, <3>1, <3>2, <3>3, Allocated
    <3>5. CASE /\ callback' = [callback EXCEPT ![k].pc = "list", ![k].id = next]
               /\ known' = known \cup {next}
               /\ UNCHANGED abandoned
      <4> DEFINE r == [callback[k] EXCEPT !.pc = "list", !.id = next]
      <4>1. r \in CallbackStates /\ r.pc = "list" /\ r.native = callback[k].native /\ r.id = next
        BY <1>0, <3>1 DEF CallbackStates
      <4>2. callback' = [callback EXCEPT ![k] = r]
        BY <1>0, <3>5 DEF TypeOK
      <4> HIDE DEF r
      <4>3. CallsOK'
        BY <1>0, <2>1, <3>1, <3>4, <4>1, <4>2, CallbacksKept
      <4>4. RestOK'
        BY <1>0, <2>1, <3>1, <3>5 DEF RestOK, table, history
      <4> QED BY <3>4, <4>3, <4>4, Together
    <3>6. CASE /\ abandoned' = abandoned \cup {callback[k].native}
               /\ CallbackEnds(k)
               /\ UNCHANGED known
      <4>1. CallsOK'
        BY <1>0, <2>1, <3>4, <3>6, CallKinds, CallbacksKept DEF CallbackEnds
      <4>2. RestOK'
        BY <1>0, <2>1, <3>6 DEF RestOK, table, history
      <4> QED BY <3>4, <4>1, <4>2, Together
    <3> QED BY <2>3, <3>5, <3>6
  <2> QED BY <1>3, <2>2, <2>3 DEF wt_accept_peer_stream, table
<1>4. CASE SinkReturns(k)
  <2>1. /\ next' \in 1 .. MaxHandles + 1 /\ handles' \in [Ids -> Handles]
        /\ TableOK' /\ KeepsChildren
    BY <1>0, <1>4, TableKept DEF SinkReturns, table
  <2>2. CallsOK'
    BY <1>0, <1>4, <2>1, CallKinds, CallbacksKept DEF SinkReturns, CallbackEnds
  <2>3. RestOK'
    BY <1>0, <1>4 DEF SinkReturns, RestOK, table, history
  <2> QED BY <2>1, <2>2, <2>3, Together
<1>5. ASSUME NEW memory \in BOOLEAN, ListPeerStream(k, memory) PROVE IInv'
  <2>1. /\ next' \in 1 .. MaxHandles + 1 /\ handles' \in [Ids -> Handles]
        /\ TableOK' /\ KeepsChildren
    BY <1>0, <1>5, TableKept DEF ListPeerStream, table
  <2>2. CallsOK'
    BY <1>0, <1>5, <2>1, CallKinds, CallbacksKept DEF ListPeerStream, CallbackEnds
  <2>3. callback[k].native \in NativeStreams /\ callback[k].id \in Ids
    BY <1>0, <1>5 DEF ListPeerStream, WhatCallsHold
  <2>4. quic' \in [Ids -> Quics]
    <3> DEFINE c == connections[k].client
               e == Entry(callback[k].id, callback[k].native)
    <3>1. CASE c \in Ids
      <4>1. quic[c].streams \cup {e} \in SUBSET Entries
        BY <1>0, <2>3, <3>1, OnTheList DEF Entry, Entries
      <4> QED BY <1>0, <1>5, <3>1, <4>1, QuicChanged DEF ListPeerStream, RestOK
    <3>2. CASE c \notin Ids
      <4>1. quic \in [Ids -> Quics]
        BY <1>0 DEF RestOK
      <4>2. [quic EXCEPT ![c].streams = @ \cup {e}] = quic
        BY <4>1, <3>2
      <4> QED BY <1>5, <4>1, <4>2 DEF ListPeerStream
    <3> QED BY <3>1, <3>2
  <2>5. abandoned' \in SUBSET NativeStreams
    BY <1>0, <1>5, <2>3 DEF ListPeerStream, RestOK, table, history
  <2>6. RestOK'
    BY <1>0, <1>5, <2>4, <2>5 DEF ListPeerStream, RestOK, Uses, table, history
  <2> QED BY <2>1, <2>2, <2>6, Together
<1> QED BY <1>1, <1>2, <1>3, <1>4, <1>5, <1>6 DEF Callbacks

-----------------------------------------------------------------------------
LEMMA InitHolds ==
  ASSUME Init
  PROVE  IInv
<1>1. TypeOK
  <2>1. next \in 1 .. MaxHandles + 1
    BY HandlesAssumption DEF Init
  <2>5. /\ known \in SUBSET Ids /\ abandoned \in SUBSET NativeStreams
        /\ overlapped \in BOOLEAN /\ misused \in BOOLEAN
    BY DEF Init
  <2>2. handles \in [Ids -> Handles] /\ quic \in [Ids -> Quics]
    BY CallKinds DEF Init
  <2>3. native \in [NativeStreams -> Natives] /\ connections \in [Ids -> Connections]
    BY CallKinds, HandlesAssumption DEF Init, Natives
  <2>4. call \in [Threads -> Calls] /\ callback \in [Ids -> CallbackStates]
    BY CallKinds DEF Init
  <2> QED BY <2>1, <2>2, <2>3, <2>4, <2>5 DEF TypeOK
<1>2. NothingAhead /\ ClientsNameThemselves /\ ChildrenHaveClient
  BY DEF Init, NothingAhead, ClientsNameThemselves, ChildrenHaveClient, NoHandle
<1>3. UndoesChildren /\ WhatCallsHold
  BY DEF Init, UndoesChildren, WhatCallsHold, NoCall, NoCallback, Allocating
<1> QED BY <1>1, <1>2, <1>3 DEF IInv

LEMMA StepHolds ==
  ASSUME IInv, [Next]_vars
  PROVE  IInv'
<1>1. CASE Next
  BY <1>1, ClientStep, SessionStep, StreamStep, DestroyStep, CallbackStep DEF Next
<1>2. CASE UNCHANGED vars
  BY <1>2 DEF vars, table, history, IInv, TypeOK, NothingAhead, ClientsNameThemselves, ChildrenHaveClient, Found,
              UndoesChildren, WhatCallsHold
<1> QED BY <1>1, <1>2

LEMMA Invariant == Spec => []IInv
<1>1. Init => IInv
  BY InitHolds
<1>2. IInv /\ [Next]_vars => IInv'
  BY StepHolds
<1> QED BY <1>1, <1>2, PTL DEF Spec

\* Every table, context, call and callback keeps its shape, whatever the interleaving of
\* application threads, callbacks and detached destroys (the state of webtransport_native.c
\* and of wt_msquic.c's contexts).
THEOREM TypeCorrect == Spec => []TypeOK
<1>1. IInv => TypeOK
  BY DEF IInv
<1> QED BY Invariant, <1>1, PTL

\* No session or stream handle outlives its client, whichever thread releases it while
\* others allocate, open, accept or undo: wt_release with wt_remove_child_handles_for_client
\* against wt_client_connect, wt_session_open_bidi_stream and wt_accept_peer_stream_from_msquic.
THEOREM NoOrphans == Spec => []ChildrenHaveClient
<1>1. IInv => ChildrenHaveClient
  BY DEF IInv
<1> QED BY Invariant, <1>1, PTL

-----------------------------------------------------------------------------
(* Who is who, whatever the application does *)

\* Nothing is kept under an id not handed out yet.
FreshIsFree ==
  \A i \in Ids : i >= next => quic[i] = NoQuic /\ connections[i] = NoConnection /\ i \notin known

\* The id of a call that is not through is known to nobody else.
InFlight ==
  /\ \A t \in Threads : call[t].pc \in Allocating => call[t].id \notin known
  /\ \A t, u \in Threads :
       t # u /\ call[t].pc \in Allocating /\ call[u].pc \in Allocating => call[t].id # call[u].id

\* What is listed under an id not known yet is the stream of the call that holds the id.
ListedIds ==
  /\ \A k \in Ids : callback[k].pc = "list" => callback[k].id \in known
  /\ \A c \in Ids : \A e \in quic[c].streams :
       \/ e.id \in known
       \/ \E t \in Threads : /\ call[t].pc \in {"prefix", "unlist"}
                             /\ call[t].id = e.id /\ call[t].client = c /\ call[t].native = e.native

\* The steps of a call that has copied a connection.
Connected == {"replace", "start", "forget", "opening", "datagram out"}

\* Every connection has a client, and whoever refers to one, to a connection that was opened.
ConnectionsOfClients ==
  /\ \A k \in Ids : connections[k].state # "none" => connections[k].client \in Ids /\ connections[k].client < next
  /\ \A t \in Threads : call[t].pc \in {"connect", "replace", "dial"} => connections[call[t].id].state = "none"
  /\ \A t \in Threads : call[t].pc \in {"start", "forget"} => connections[call[t].id].state # "none"
  /\ \A t \in Threads : call[t].pc \in Connected => call[t].connection # 0
  /\ \A t \in Threads : call[t].connection # 0 => connections[call[t].connection].state # "none"
  /\ \A c \in Ids : quic[c].connection # 0 => connections[quic[c].connection].state # "none"
  /\ \A k \in Ids : callback[k].pc # "idle" => connections[k].state = "started"

\* A released client does not come back.
ClientsOfCalls ==
  /\ \A t \in Threads : call[t].pc # "idle" => call[t].client < next
  /\ \A t \in Threads : call[t].pc \in {"released", "abort released"} => ~Found(call[t].client, "client")

\* A client is alone at its address.
OneAddress ==
  /\ \A c \in Ids : Found(c, "client") => quic[c].address # NoNative /\ quic[c].life = "live"
  /\ \A c, d \in Ids : quic[c].address = quic[d].address /\ quic[c].address # NoNative => c = d

\* A callback, as a call that opens a stream, attaches it to the client it began on.
AttachesToOwn ==
  /\ \A k \in Ids : callback[k].pc = "accept" /\ Found(connections[k].client, "client")
                    => callback[k].address = quic[connections[k].client].address
  /\ \A k \in Ids : callback[k].pc = "list" /\ Found(connections[k].client, "client") /\ Found(callback[k].id, "stream")
                    => handles[callback[k].id].client = connections[k].client
  /\ \A t \in Threads : call[t].pc \in {"open", "opening", "list"} /\ Found(call[t].id, "stream")
                    => handles[call[t].id].client = call[t].client

NamesInv ==
  /\ FreshIsFree
  /\ InFlight
  /\ ListedIds
  /\ ConnectionsOfClients
  /\ ClientsOfCalls
  /\ OneAddress
  /\ AttachesToOwn
  /\ PeerStreamsStayWithClient

\* The pcs a call reaches only from the same.
Dialling == {"connect", "replace", "dial"}
Releasing == {"released", "abort released"}

\* A call before and after a step in which it allocates nothing.
GoesOnAs(r, s) ==
  \/ s = r
  \/ s.pc = "idle" /\ s.connection = 0
  \/ /\ r.pc # "idle" /\ s.client = r.client /\ s.id = r.id
     /\ s.pc \in Allocating => r.pc \in Allocating
     /\ s.pc \in Dialling => r.pc \in Dialling
     /\ s.pc \in Releasing => r.pc \in Releasing
     /\ s.pc \in {"start", "forget"} => r.pc \in {"start", "forget"}
     /\ s.pc \in {"open", "opening", "list"} => r.pc \in {"open", "opening", "list"}
     /\ s.pc \in Connected => s.connection # 0
BeginsAs(r, s) ==
  /\ r.pc = "idle" /\ s.pc \in {"send", "datagram", "shutdown", "released", "closing"}
  /\ s.client \in Ids /\ s.client < next /\ s.connection = 0
  /\ s.pc = "released" => handles'[s.client].kind # "client"

\* A callback before and after a step in which it allocates nothing.
CallsBackAs(k) ==
  \/ callback'[k].pc = "idle"
  \/ callback'[k] = callback[k] /\ connections'[k].state = connections[k].state
  \/ callback'[k].pc \in {"data", "complete", "sink"} /\ connections'[k].state = "started"
  \/ /\ callback'[k].pc = "accept" /\ connections'[k].state = "started"
     /\ callback'[k].address = quic[connections[k].client].address

\* Tables before and after a step that adds nothing to them.
HandlesKept == \A i \in Ids : handles'[i] = handles[i] \/ handles'[i].kind = "none"
QuicKept ==
  \A c \in Ids :
    /\ quic'[c].address \in {quic[c].address, NoNative}
    /\ quic'[c].streams \subseteq quic[c].streams
    /\ c >= next => quic'[c] = quic[c]
    /\ Found(c, "client") /\ handles'[c] = handles[c] =>
         quic'[c].address = quic[c].address /\ quic'[c].life = quic[c].life
    /\ quic'[c].connection # 0 => connections[quic'[c].connection].state # "none"
ConnectionsKept ==
  \A k \in Ids :
    /\ connections'[k].client = connections[k].client
    /\ connections'[k].state = "none" <=> connections[k].state = "none"
    /\ callback[k].pc # "idle" => connections'[k].state = connections[k].state
    /\ k >= next => connections'[k] = connections[k]

\* Types the proofs below use.
LEMMA Shapes ==
  ASSUME IInv
  PROVE  /\ next \in 1 .. MaxHandles + 1 /\ next \in Nat /\ MaxHandles \in Nat /\ known \in SUBSET Ids
         /\ Ids \subseteq Nat /\ 0 \notin Ids
         /\ \A c \in Ids : /\ quic[c] \in Quics /\ quic[c].streams \in SUBSET Entries
                           /\ quic[c].doomed \in SUBSET NativeStreams
                           /\ quic[c].connection # 0 => quic[c].connection \in Ids
         /\ \A t \in Threads : /\ call[t] \in Calls /\ (call[t].pc # "idle" => call[t].client \in Ids)
                               /\ (call[t].pc \in Allocating => call[t].id \in Ids)
                               /\ call[t].connection # 0 => call[t].connection \in Ids
                               /\ call[t].rest \in SUBSET NativeStreams
         /\ \A k \in Ids : callback[k] \in CallbackStates /\ connections[k] \in Connections /\ handles[k] \in Handles
         /\ \A q \in NativeStreams : native[q] \in Natives
<1>1. TypeOK /\ UndoesChildren /\ WhatCallsHold /\ MaxHandles \in Nat
  BY HandlesAssumption DEF IInv
<1>2. /\ next \in 1 .. MaxHandles + 1 /\ next \in Nat /\ known \in SUBSET Ids
      /\ Ids \subseteq Nat /\ 0 \notin Ids
  BY <1>1 DEF TypeOK, Ids
<1>3. ASSUME NEW c \in Ids
      PROVE  /\ quic[c] \in Quics /\ quic[c].streams \in SUBSET Entries
             /\ quic[c].doomed \in SUBSET NativeStreams
             /\ quic[c].connection # 0 => quic[c].connection \in Ids
  <2>1. quic[c] \in Quics
    BY <1>1 DEF TypeOK
  <2> QED BY <1>1, <2>1 DEF Quics, Ids
<1>4. ASSUME NEW t \in Threads
      PROVE  /\ call[t] \in Calls /\ (call[t].pc # "idle" => call[t].client \in Ids)
             /\ (call[t].pc \in Allocating => call[t].id \in Ids)
             /\ call[t].connection # 0 => call[t].connection \in Ids
             /\ call[t].rest \in SUBSET NativeStreams
  <2>1. call[t] \in Calls
    BY <1>1 DEF TypeOK
  <2>2. call[t].connection \in 0 .. MaxHandles /\ call[t].rest \in SUBSET NativeStreams
    BY <2>1 DEF Calls
  <2>3. call[t].connection # 0 => call[t].connection \in Ids
    BY <1>1, <2>2 DEF Ids
  <2>4. call[t].pc \in Allocating => call[t].id \in Ids
    BY <1>1 DEF UndoesChildren
  <2>5. call[t].pc # "idle" => call[t].client \in Ids
    BY <1>1 DEF WhatCallsHold
  <2> QED BY <2>1, <2>2, <2>3, <2>4, <2>5
<1>5. /\ \A k \in Ids : callback[k] \in CallbackStates /\ connections[k] \in Connections /\ handles[k] \in Handles
      /\ \A q \in NativeStreams : native[q] \in Natives
  BY <1>1 DEF TypeOK
<1> QED BY <1>1, <1>2, <1>3, <1>4, <1>5

ConnectionIds ==
  /\ \A t \in Threads : call[t].connection # 0 => call[t].connection \in Ids
  /\ \A c \in Ids : quic[c].connection # 0 => quic[c].connection \in Ids

LEMMA ConnectionIdsNow == IInv => ConnectionIds
  BY Shapes DEF ConnectionIds

LEMMA ConnectionIdsNext == IInv' => ConnectionIds'
  BY ConnectionIdsNow, PTL

\* A step that hands out no id and lists nothing.
LEMMA NamesFrame ==
  ASSUME IInv, IInv', NamesInv, next' = next, known \subseteq known',
         \A i \in Ids : i \in known' => i \in known \/ i < next,
         HandlesKept, QuicKept, ConnectionsKept,
         \A k \in Ids : CallsBackAs(k),
         \A t \in Threads : /\ GoesOnAs(call[t], call'[t]) \/ BeginsAs(call[t], call'[t])
                            /\ call'[t].connection # 0 => connections[call'[t].connection].state # "none"
                            /\ call'[t].pc \in Allocating => call'[t].id \notin known' \ known
         ,
         \A t \in Threads :
           call[t].pc \in {"prefix", "unlist"} =>
             \/ call'[t].pc \in {"prefix", "unlist"} /\ call'[t].native = call[t].native
             \/ call[t].id \in known'
             \/ \A e \in quic'[call[t].client].streams : ~(e.id = call[t].id /\ e.native = call[t].native)
  PROVE  NamesInv'
<1>0. /\ FreshIsFree /\ InFlight /\ ListedIds /\ ConnectionsOfClients /\ ClientsOfCalls /\ OneAddress
      /\ AttachesToOwn /\ PeerStreamsStayWithClient
  BY DEF NamesInv
<1>s. /\ \A i \in Ids : Found(i, "client")' => Found(i, "client") /\ handles'[i] = handles[i]
      /\ \A i \in Ids : Found(i, "stream")' => Found(i, "stream") /\ handles'[i] = handles[i]
  BY DEF Found, HandlesKept
<1>e. /\ \A t \in Threads : call'[t].connection # 0 => call'[t].connection \in Ids
      /\ \A c \in Ids : quic'[c].connection # 0 => quic'[c].connection \in Ids
  BY ConnectionIdsNext DEF ConnectionIds
<1>e2. ASSUME NEW k \in Ids PROVE connections'[k].state = "none" <=> connections[k].state = "none"
  BY DEF ConnectionsKept
<1>1. FreshIsFree'
  BY <1>0, Shapes DEF FreshIsFree, QuicKept, ConnectionsKept
<1>2. InFlight'
  <2>1. \A t \in Threads : call'[t].pc \in Allocating => call[t].pc \in Allocating /\ call'[t].id = call[t].id
    BY DEF GoesOnAs, BeginsAs, Allocating
  <2> QED BY <1>0, <2>1 DEF InFlight
<1>3. ListedIds'
  <2>1. \A k \in Ids : (callback[k].pc = "list" => callback[k].id \in known)'
    BY <1>0, Shapes DEF ListedIds, CallsBackAs
  <2>2. ASSUME NEW c \in Ids, NEW e \in quic'[c].streams, e.id \notin known'
        PROVE  \E t \in Threads : /\ call'[t].pc \in {"prefix", "unlist"}
                             /\ call'[t].id = e.id /\ call'[t].client = c /\ call'[t].native = e.native
    <3>1. PICK t \in Threads : /\ call[t].pc \in {"prefix", "unlist"}
                             /\ call[t].id = e.id /\ call[t].client = c /\ call[t].native = e.native
      BY <1>0, <2>2 DEF ListedIds, QuicKept
    <3>2. call'[t].pc \in {"prefix", "unlist"} /\ call'[t].native = call[t].native
      BY <2>2, <3>1
    <3>3. call'[t].id = call[t].id /\ call'[t].client = call[t].client
      BY <3>1, <3>2 DEF GoesOnAs, BeginsAs
    <3> QED BY <3>1, <3>2, <3>3
  <2> QED BY <2>1, <2>2 DEF ListedIds
<1>4. ConnectionsOfClients'
  <2>1. \A k \in Ids : connections'[k].state # "none" => connections'[k].client \in Ids /\ connections'[k].client < next'
    BY <1>0 DEF ConnectionsOfClients, ConnectionsKept
  <2>2. \A t \in Threads : call'[t].pc \in {"connect", "replace", "dial"} => connections'[call'[t].id].state = "none"
    <3>1. \A t \in Threads : call'[t].pc \in Dialling => call[t].pc \in Dialling /\ call'[t].id = call[t].id
      BY DEF GoesOnAs, BeginsAs, Dialling
    <3>2. \A t \in Threads : call[t].pc \in Dialling => call[t].id \in Ids
      BY Shapes DEF Dialling, Allocating
    <3> QED BY <1>0, <3>1, <3>2 DEF ConnectionsOfClients, Dialling, ConnectionsKept
  <2>3. \A t \in Threads : call'[t].pc \in {"start", "forget"} => connections'[call'[t].id].state # "none"
    <3>1. \A t \in Threads : call'[t].pc \in {"start", "forget"} => call[t].pc \in {"start", "forget"} /\ call'[t].id = call[t].id
      BY DEF GoesOnAs, BeginsAs
    <3>2. \A t \in Threads : call[t].pc \in {"start", "forget"} => call[t].id \in Ids
      BY Shapes DEF Allocating
    <3> QED BY <1>0, <3>1, <3>2 DEF ConnectionsOfClients, ConnectionsKept
  <2>4. \A t \in Threads : call'[t].pc \in Connected => call'[t].connection # 0
    <3>1. ASSUME NEW t \in Threads, call'[t].pc \in Connected
          PROVE  call'[t].connection # 0
      <4>1. GoesOnAs(call[t], call'[t]) \/ BeginsAs(call[t], call'[t])
        OBVIOUS
      <4>2. call[t].pc \in Connected => call[t].connection # 0
        BY <1>0 DEF ConnectionsOfClients
      <4> QED BY <3>1, <4>1, <4>2 DEF GoesOnAs, BeginsAs, Connected
    <3> QED BY <3>1
  <2>5. \A t \in Threads : call'[t].connection # 0 => connections'[call'[t].connection].state # "none"
    BY <1>e, <1>e2
  <2>6. \A c \in Ids : quic'[c].connection # 0 => connections'[quic'[c].connection].state # "none"
    BY <1>e, <1>e2 DEF QuicKept
  <2>7. \A k \in Ids : callback'[k].pc # "idle" => connections'[k].state = "started"
    BY <1>0 DEF ConnectionsOfClients, CallsBackAs
  <2> QED BY <2>1, <2>2, <2>3, <2>4, <2>5, <2>6, <2>7 DEF ConnectionsOfClients
<1>5. ClientsOfCalls'
  <2>1. \A t \in Threads : call'[t].pc # "idle" => call'[t].client < next'
    <3>1. ASSUME NEW t \in Threads, call'[t].pc # "idle"
          PROVE  call'[t].client < next
      <4>1. GoesOnAs(call[t], call'[t]) \/ BeginsAs(call[t], call'[t])
        OBVIOUS
      <4>2. call[t].pc # "idle" => call[t].client < next
        BY <1>0 DEF ClientsOfCalls
      <4>3. CASE GoesOnAs(call[t], call'[t])
        BY <3>1, <4>2, <4>3 DEF GoesOnAs
      <4> QED BY <4>1, <4>3 DEF BeginsAs
    <3> QED BY <3>1
  <2>2. \A t \in Threads : call'[t].pc \in Releasing => ~Found(call[t].client, "client")'
    <3>1. ASSUME NEW t \in Threads, call'[t].pc \in Releasing
          PROVE  ~Found(call[t].client, "client")'
      <4>1. GoesOnAs(call[t], call'[t]) \/ BeginsAs(call[t], call'[t])
        OBVIOUS
      <4>2. CASE call[t].pc \in Releasing /\ call'[t].client = call[t].client
        <5>1. ~Found(call[t].client, "client") /\ call[t].client \in Ids
          BY <1>0, <4>2, Shapes DEF ClientsOfCalls, Releasing
        <5> QED BY <1>s, <4>2, <5>1 DEF Found
      <4>3. CASE BeginsAs(call[t], call'[t])
        BY <3>1, <4>3 DEF BeginsAs, Releasing, Found
      <4> QED BY <3>1, <4>1, <4>2, <4>3 DEF GoesOnAs, Releasing
    <3> QED BY <3>1
  <2> QED BY <2>1, <2>2 DEF ClientsOfCalls, Releasing, Found
<1>6. OneAddress'
  BY <1>0, <1>s DEF OneAddress, QuicKept
<1>7. AttachesToOwn'
  <2>1. \A k \in Ids : callback'[k].pc # "idle" => connections'[k].client \in Ids /\ connections'[k].client = connections[k].client
    BY <1>0, <1>4 DEF ConnectionsOfClients, ConnectionsKept
  <2>2. \A k \in Ids : callback'[k].pc = "accept" /\ Found(connections[k].client, "client")'
                    => callback'[k].address = quic'[connections'[k].client].address
    <3>1. ASSUME NEW k \in Ids, callback'[k].pc = "accept", Found(connections[k].client, "client")'
          PROVE  callback'[k].address = quic'[connections'[k].client].address
      <4>1. /\ connections'[k].client = connections[k].client /\ connections[k].client \in Ids
            /\ Found(connections[k].client, "client") /\ CallsBackAs(k)
        BY <1>s, <2>1, <3>1
      <4>2. quic'[connections[k].client].address = quic[connections[k].client].address
        BY <1>s, <3>1, <4>1 DEF QuicKept
      <4>3. callback'[k].address = quic[connections[k].client].address
        BY <1>0, <3>1, <4>1 DEF AttachesToOwn, CallsBackAs
      <4> QED BY <4>1, <4>2, <4>3
    <3> QED BY <3>1
  <2>3. \A k \in Ids : callback'[k].pc = "list" /\ Found(connections[k].client, "client")' /\ Found(callback[k].id, "stream")'
                    => handles'[callback'[k].id].client = connections'[k].client
    BY <1>0, <1>s, <2>1 DEF AttachesToOwn, CallsBackAs, Found
  <2>4. \A t \in Threads : call'[t].pc \in {"open", "opening", "list"} /\ Found(call[t].id, "stream")'
                    => handles'[call'[t].id].client = call'[t].client
    <3>1. \A t \in Threads : call'[t].pc \in {"open", "opening", "list"} =>
             call[t].pc \in {"open", "opening", "list"} /\ call'[t].id = call[t].id /\ call'[t].client = call[t].client
      BY DEF GoesOnAs, BeginsAs
    <3> QED BY <1>0, <1>s, <3>1 DEF AttachesToOwn, Found
  <2> QED BY <2>2, <2>3, <2>4 DEF AttachesToOwn
<1>8. PeerStreamsStayWithClient'
  <2>1. ASSUME NEW c \in Ids, Found(c, "client")', NEW e \in quic'[c].streams, Found(e.id, "stream")'
        PROVE  handles'[e.id].client = c
    <3>1. Found(c, "client") /\ e \in quic[c].streams /\ Found(e.id, "stream") /\ handles'[e.id] = handles[e.id]
      BY <1>s, <2>1 DEF Found, QuicKept
    <3> QED BY <1>0, <3>1 DEF PeerStreamsStayWithClient
  <2> QED BY <2>1 DEF PeerStreamsStayWithClient
<1> QED BY <1>1, <1>2, <1>3, <1>4, <1>5, <1>6, <1>7, <1>8 DEF NamesInv

\* The same of a step of one call.
LEMMA NamesOfCall ==
  ASSUME IInv, IInv', NamesInv, next' = next, UNCHANGED callback, HandlesKept, QuicKept, ConnectionsKept,
         NEW t \in Threads, NEW r,
         call' = [call EXCEPT ![t] = r],
         GoesOnAs(call[t], r) \/ BeginsAs(call[t], r),
         r.connection # 0 => connections[r.connection].state # "none",
         \/ known' = known
         \/ known' = known \cup {call[t].id} /\ call[t].pc \in Allocating /\ r.pc \notin Allocating,
         call[t].pc \in {"prefix", "unlist"} =>
             \/ r.pc \in {"prefix", "unlist"} /\ r.native = call[t].native
             \/ call[t].id \in known'
             \/ \A e \in quic'[call[t].client].streams : ~(e.id = call[t].id /\ e.native = call[t].native)
  PROVE  NamesInv'
<1>1. /\ call \in [Threads -> Calls] /\ call'[t] = r
      /\ \A u \in Threads : u # t => call'[u] = call[u]
  BY DEF IInv, TypeOK
<1>2. \A k \in Ids : CallsBackAs(k)
  BY DEF CallsBackAs, ConnectionsKept
<1>3. \A u \in Threads : GoesOnAs(call[u], call'[u]) \/ BeginsAs(call[u], call'[u])
  BY <1>1 DEF GoesOnAs
<1>4. \A u \in Threads : call'[u].connection # 0 => connections[call'[u].connection].state # "none"
  BY <1>1 DEF NamesInv, ConnectionsOfClients
<1>5. \A u \in Threads : call'[u].pc \in Allocating => call'[u].id \notin known' \ known
  BY <1>1 DEF NamesInv, InFlight
<1>6. \A i \in Ids : i \in known' => i \in known \/ i < next
  BY DEF IInv, UndoesChildren
<1>7. \A u \in Threads :
        call[u].pc \in {"prefix", "unlist"} =>
             \/ call'[u].pc \in {"prefix", "unlist"} /\ call'[u].native = call[u].native
             \/ call[u].id \in known'
             \/ \A e \in quic'[call[u].client].streams : ~(e.id = call[u].id /\ e.native = call[u].native)
  BY <1>1
<1>8. known \subseteq known'
  OBVIOUS
<1> QED BY <1>2, <1>3, <1>4, <1>5, <1>6, <1>7, <1>8, NamesFrame

LEMMA TablesKept ==
  ASSUME IInv, NamesInv
  PROVE  /\ quic' = quic => QuicKept
         /\ connections' = connections => ConnectionsKept
         /\ handles' = handles => HandlesKept
<1>1. quic' = quic => QuicKept
  BY DEF QuicKept, NamesInv, ConnectionsOfClients
<1>2. connections' = connections => ConnectionsKept
  BY DEF ConnectionsKept
<1>3. handles' = handles => HandlesKept
  BY DEF HandlesKept
<1> QED BY <1>1, <1>2, <1>3

LEMMA ContextKept ==
  ASSUME IInv, NamesInv, NEW c \in Ids, c < next, NEW r, quic' = [quic EXCEPT ![c] = r],
         r.address \in {quic[c].address, NoNative}, r.streams \subseteq quic[c].streams,
         Found(c, "client") /\ handles'[c] = handles[c] => r.address = quic[c].address /\ r.life = quic[c].life,
         r.connection # 0 => connections[r.connection].state # "none"
  PROVE  QuicKept
<1>1. quic \in [Ids -> Quics] /\ next \in Nat
  BY Shapes DEF IInv, TypeOK
<1>2. quic'[c] = r /\ \A d \in Ids : d # c => quic'[d] = quic[d]
  BY <1>1
<1>3. \A d \in Ids : quic[d].connection # 0 => connections[quic[d].connection].state # "none"
  BY DEF NamesInv, ConnectionsOfClients
<1>4. ASSUME NEW d \in Ids
      PROVE  /\ quic'[d].address \in {quic[d].address, NoNative}
             /\ quic'[d].streams \subseteq quic[d].streams
             /\ d >= next => quic'[d] = quic[d]
             /\ Found(d, "client") /\ handles'[d] = handles[d] =>
                  quic'[d].address = quic[d].address /\ quic'[d].life = quic[d].life
             /\ quic'[d].connection # 0 => connections[quic'[d].connection].state # "none"
  <2>1. CASE d = c
    <3>1. ~(d >= next)
      BY <1>1, <2>1, Shapes
    <3> QED BY <1>2, <2>1, <3>1
  <2>2. CASE d # c
    BY <1>2, <1>3, <2>2
  <2> QED BY <2>1, <2>2
<1> QED BY <1>4 DEF QuicKept

LEMMA ClosingKeeps ==
  ASSUME IInv, NamesInv, NEW k \in Ids, connections[k].state # "none", CloseConnection(k)
  PROVE  ConnectionsKept
<1>1. connections \in [Ids -> Connections] /\ callback[k].pc = "idle"
      /\ connections' = [connections EXCEPT ![k].state = "closed"]
  BY DEF IInv, TypeOK, CloseConnection
<1>2. ~(k >= next)
  BY DEF NamesInv, FreshIsFree, NoConnection
<1>3. connections[k] \in Connections
  BY <1>1
<1>4. connections'[k].client = connections[k].client /\ connections'[k].state = "closed"
  BY <1>1, <1>3 DEF Connections
<1>5. \A i \in Ids : i # k => connections'[i] = connections[i]
  BY <1>1
<1> QED BY <1>1, <1>2, <1>4, <1>5 DEF ConnectionsKept

\* What a call in progress may rely on.
LEMMA InNames ==
  ASSUME IInv, NamesInv, NEW t \in Threads
  PROVE  /\ call \in [Threads -> Calls] /\ quic \in [Ids -> Quics] /\ connections \in [Ids -> Connections]
         /\ call[t] \in Calls
         /\ call[t].pc # "idle" => call[t].client \in Ids /\ call[t].client < next
         /\ call[t].pc \in Allocating => call[t].id \in Ids /\ call[t].id < next
         /\ call[t].connection # 0 => call[t].connection \in Ids /\ connections[call[t].connection].state # "none"
         /\ call[t].pc \in Connected => call[t].connection # 0
<1>1. call \in [Threads -> Calls] /\ quic \in [Ids -> Quics] /\ connections \in [Ids -> Connections]
  BY DEF IInv, TypeOK
<1>2. call[t].pc # "idle" => call[t].client < next
  BY DEF NamesInv, ClientsOfCalls
<1>3. /\ call[t].pc \in Connected => call[t].connection # 0
      /\ call[t].connection # 0 => connections[call[t].connection].state # "none"
  BY DEF NamesInv, ConnectionsOfClients
<1>4. call[t].pc \in Allocating => call[t].id < next
  BY DEF IInv, UndoesChildren
<1> QED BY <1>1, <1>2, <1>3, <1>4, Shapes

LEMMA NoCallFields == /\ NoCall.pc = "idle" /\ NoCall.connection = 0 /\ NoCall.native = NoNative
                      /\ NoCall.rest = {} /\ NoCall.client = 0 /\ NoCall.id = 0
  BY DEF NoCall

LEMMA ReturnsAs == \A r : GoesOnAs(r, NoCall)
  BY NoCallFields DEF GoesOnAs

\* The steps of calls on clients that hand out no id.
LEMMA ClientNames ==
  ASSUME IInv, IInv', NamesInv, NEW t \in Threads,
         \/ ConnectRefused(t) \/ ConnectTakes(t) \/ ConnectReplaces(t)
         \/ ConnectFails(t) \/ ConnectForgets(t) \/ Undo(t)
         \/ Shutdown(t) \/ ShutdownReturns(t) \/ FreeContext(t)
         \/ \E q \in NativeStreams : Abort(t, q)
  PROVE  NamesInv'
<1> DEFINE c == call[t].client
<1>0. /\ call \in [Threads -> Calls] /\ quic \in [Ids -> Quics] /\ connections \in [Ids -> Connections]
      /\ call[t] \in Calls
      /\ call[t].pc # "idle" => c \in Ids /\ c < next
      /\ call[t].pc \in Allocating => call[t].id \in Ids /\ call[t].id < next
      /\ call[t].connection # 0 => call[t].connection \in Ids /\ connections[call[t].connection].state # "none"
      /\ call[t].pc \in Connected => call[t].connection # 0
  BY InNames
<1>h. \A d \in Ids : quic[d].connection # 0 => quic[d].connection \in Ids /\ connections[quic[d].connection].state # "none"
  BY Shapes DEF NamesInv, ConnectionsOfClients
<1>1. CASE ConnectRefused(t)
  <2>1. call' = [call EXCEPT ![t] = [call[t] EXCEPT !.pc = "undo"]] /\ call[t].pc = "connect"
    BY <1>0, <1>1 DEF ConnectRefused, Go, Running
  <2>2. GoesOnAs(call[t], [call[t] EXCEPT !.pc = "undo"]) /\ [call[t] EXCEPT !.pc = "undo"].connection = call[t].connection
    BY <1>0, <2>1 DEF GoesOnAs, Allocating, Dialling, Releasing, Connected, Calls
  <2>3. UNCHANGED <<next, known, handles, quic, connections, callback>>
    BY <1>1 DEF ConnectRefused, table
  <2> HIDE DEF c
  <2> QED BY <1>0, <2>1, <2>2, <2>3, TablesKept, NamesOfCall
<1>2. CASE ConnectTakes(t)
  <2> DEFINE k == quic[c].connection
             r == [call[t] EXCEPT !.pc = IF k = 0 THEN "dial" ELSE "replace", !.connection = k]
  <2>1. call' = [call EXCEPT ![t] = r] /\ call[t].pc = "connect" /\ quic' = [quic EXCEPT ![c].connection = 0]
    BY <1>2 DEF ConnectTakes, Become, Running
  <2>2. GoesOnAs(call[t], r) /\ r.connection = k
    BY <1>0, <2>1 DEF GoesOnAs, Allocating, Dialling, Releasing, Connected, Calls
  <2>3. UNCHANGED <<next, known, handles, connections, callback>>
    BY <1>2 DEF ConnectTakes, table
  <2>4. QuicKept
    <3>1. quic' = [quic EXCEPT ![c] = [quic[c] EXCEPT !.connection = 0]] /\ quic[c] \in Quics /\ c \in Ids /\ c < next
      BY <1>0, <2>1
    <3>2. /\ [quic[c] EXCEPT !.connection = 0].address = quic[c].address
          /\ [quic[c] EXCEPT !.connection = 0].streams = quic[c].streams
          /\ [quic[c] EXCEPT !.connection = 0].life = quic[c].life
          /\ [quic[c] EXCEPT !.connection = 0].connection = 0
      BY <3>1 DEF Quics
    <3> QED BY <3>1, <3>2, ContextKept
  <2>5. k # 0 => connections[k].state # "none"
    BY <1>0, <1>h, <2>1
  <2> HIDE DEF c, r
  <2> QED BY <1>0, <2>1, <2>2, <2>3, <2>4, <2>5, TablesKept, NamesOfCall
<1>3. CASE ConnectReplaces(t)
  <2> DEFINE r == [call[t] EXCEPT !.pc = "dial", !.connection = 0]
  <2>1. /\ call' = [call EXCEPT ![t] = r] /\ call[t].pc = "replace" /\ CloseConnection(call[t].connection)
        /\ UNCHANGED <<next, known, handles, quic, callback>>
    BY <1>3 DEF ConnectReplaces, Become, Running, table
  <2>2. GoesOnAs(call[t], r) /\ r.connection = 0
    BY <1>0, <2>1 DEF GoesOnAs, Allocating, Dialling, Releasing, Connected, Calls
  <2>3. ConnectionsKept
    BY <1>0, <2>1, ClosingKeeps DEF Connected
  <2> HIDE DEF c, r
  <2> QED BY <1>0, <2>1, <2>2, <2>3, TablesKept, NamesOfCall
<1>4. CASE ConnectFails(t)
  <2> DEFINE r == [call[t] EXCEPT !.pc = "forget"]
  <2>1. /\ call' = [call EXCEPT ![t] = r] /\ call[t].pc = "start" /\ CloseConnection(call[t].id)
        /\ UNCHANGED <<next, known, handles, quic, callback>>
    BY <1>0, <1>4 DEF ConnectFails, Go, Running, table
  <2>2. GoesOnAs(call[t], r) /\ r.connection = call[t].connection
    BY <1>0, <2>1 DEF GoesOnAs, Allocating, Dialling, Releasing, Connected, Calls
  <2>3. ConnectionsKept
    <3>1. call[t].id \in Ids /\ connections[call[t].id].state # "none"
      BY <1>0, <2>1 DEF NamesInv, ConnectionsOfClients, Allocating
    <3> QED BY <2>1, <3>1, ClosingKeeps
  <2> HIDE DEF c, r
  <2> QED BY <1>0, <2>1, <2>2, <2>3, TablesKept, NamesOfCall
<1>5. CASE ConnectForgets(t)
  <2> DEFINE r == [call[t] EXCEPT !.pc = "undo", !.connection = 0]
  <2>1. /\ call' = [call EXCEPT ![t] = r] /\ call[t].pc = "forget" /\ quic' = [quic EXCEPT ![c].connection = 0]
        /\ UNCHANGED <<next, known, handles, connections, callback>>
    BY <1>5 DEF ConnectForgets, Become, Running, table
  <2>2. GoesOnAs(call[t], r) /\ r.connection = 0
    BY <1>0, <2>1 DEF GoesOnAs, Allocating, Dialling, Releasing, Connected, Calls
  <2>4. QuicKept
    <3>1. quic' = [quic EXCEPT ![c] = [quic[c] EXCEPT !.connection = 0]] /\ quic[c] \in Quics /\ c \in Ids /\ c < next
      BY <1>0, <2>1
    <3>2. /\ [quic[c] EXCEPT !.connection = 0].address = quic[c].address
          /\ [quic[c] EXCEPT !.connection = 0].streams = quic[c].streams
          /\ [quic[c] EXCEPT !.connection = 0].life = quic[c].life
          /\ [quic[c] EXCEPT !.connection = 0].connection = 0
      BY <3>1 DEF Quics
    <3> QED BY <3>1, <3>2, ContextKept
  <2> HIDE DEF c, r
  <2> QED BY <1>0, <2>1, <2>2, <2>4, TablesKept, NamesOfCall
<1>6. CASE Undo(t)
  <2>1. /\ call' = [call EXCEPT ![t] = NoCall] /\ call[t].pc = "undo"
        /\ handles' = [handles EXCEPT ![call[t].id] = NoHandle]
        /\ UNCHANGED <<next, known, connections, callback>>
    BY <1>6 DEF Undo, Return, Become, Running
  <2>2. PICK mine : quic' = [quic EXCEPT ![c].streams = @ \ mine]
    BY <1>6 DEF Undo
  <2>3. HandlesKept
    BY <2>1, CallKinds DEF HandlesKept, IInv, TypeOK, NoHandle
  <2>4. QuicKept
    <3>1. quic' = [quic EXCEPT ![c] = [quic[c] EXCEPT !.streams = @ \ mine]] /\ quic[c] \in Quics /\ c \in Ids /\ c < next
      BY <1>0, <2>1, <2>2
    <3>2. /\ [quic[c] EXCEPT !.streams = @ \ mine].address = quic[c].address
          /\ [quic[c] EXCEPT !.streams = @ \ mine].streams = quic[c].streams \ mine
          /\ [quic[c] EXCEPT !.streams = @ \ mine].life = quic[c].life
          /\ [quic[c] EXCEPT !.streams = @ \ mine].connection = quic[c].connection
      BY <3>1 DEF Quics
    <3>3. quic[c].connection # 0 => connections[quic[c].connection].state # "none"
      BY <1>h, <3>1
    <3> QED BY <3>1, <3>2, <3>3, ContextKept
  <2> HIDE DEF c
  <2> QED BY <1>0, <2>1, <2>3, <2>4, ReturnsAs, NoCallFields, TablesKept, NamesOfCall
<1>7. CASE Shutdown(t)
  <2> DEFINE r == [call[t] EXCEPT !.pc = IF @ = "shutdown" THEN "abort" ELSE "abort released",
                               !.rest = Listed(c), !.connection = quic[c].connection]
  <2>1. /\ call' = [call EXCEPT ![t] = r] /\ call[t].pc \in {"shutdown", "released"}
        /\ quic' = [quic EXCEPT ![c].attached = FALSE]
        /\ UNCHANGED <<next, known, handles, connections, callback>>
    BY <1>7 DEF Shutdown, Become, table
  <2>2. GoesOnAs(call[t], r) /\ r.connection = quic[c].connection
    BY <1>0, <2>1 DEF GoesOnAs, Allocating, Dialling, Releasing, Connected, Calls
  <2>3. quic[c].connection # 0 => connections[quic[c].connection].state # "none"
    BY <1>0, <1>h, <2>1
  <2>4. QuicKept
    <3>1. quic' = [quic EXCEPT ![c] = [quic[c] EXCEPT !.attached = FALSE]] /\ quic[c] \in Quics /\ c \in Ids /\ c < next
      BY <1>0, <2>1
    <3>2. /\ [quic[c] EXCEPT !.attached = FALSE].address = quic[c].address
          /\ [quic[c] EXCEPT !.attached = FALSE].streams = quic[c].streams
          /\ [quic[c] EXCEPT !.attached = FALSE].life = quic[c].life
          /\ [quic[c] EXCEPT !.attached = FALSE].connection = quic[c].connection
      BY <3>1 DEF Quics
    <3> QED BY <2>3, <3>1, <3>2, ContextKept
  <2> HIDE DEF c, r
  <2> QED BY <1>0, <2>1, <2>2, <2>3, <2>4, TablesKept, NamesOfCall
<1>8. CASE ShutdownReturns(t)
  <2>1. /\ call' = [call EXCEPT ![t] = NoCall] /\ call[t].pc = "abort"
        /\ UNCHANGED <<next, known, handles, quic, connections, callback>>
    BY <1>8 DEF ShutdownReturns, Return, Become, Running, table
  <2> HIDE DEF c
  <2> QED BY <1>0, <2>1, ReturnsAs, NoCallFields, TablesKept, NamesOfCall
<1>9. CASE FreeContext(t)
  <2>1. /\ call' = [call EXCEPT ![t] = NoCall] /\ call[t].pc = "abort released"
        /\ quic' = [quic EXCEPT ![c].address = NoNative, ![c].life = "destroying"]
        /\ UNCHANGED <<next, known, handles, connections, callback>>
    BY <1>9 DEF FreeContext, Return, Become, Running, table
  <2>2. ~Found(c, "client")
    BY <2>1 DEF NamesInv, ClientsOfCalls
  <2>3. quic[c].connection # 0 => connections[quic[c].connection].state # "none"
    BY <1>0, <1>h, <2>1
  <2>4. QuicKept
    <3> DEFINE d == [quic[c] EXCEPT !.address = NoNative, !.life = "destroying"]
    <3>1. quic' = [quic EXCEPT ![c] = d] /\ quic[c] \in Quics /\ c \in Ids /\ c < next
      BY <1>0, <2>1
    <3>2. /\ d.address = NoNative /\ d.streams = quic[c].streams /\ d.connection = quic[c].connection
      BY <3>1 DEF Quics
    <3> HIDE DEF c, d
    <3> QED BY <2>2, <2>3, <3>1, <3>2, ContextKept
  <2> HIDE DEF c
  <2> QED BY <1>0, <2>1, <2>4, ReturnsAs, NoCallFields, TablesKept, NamesOfCall
<1>10. ASSUME NEW q \in NativeStreams, Abort(t, q) PROVE NamesInv'
  <2> DEFINE r == [call[t] EXCEPT !.rest = @ \ {q}]
  <2>1. /\ call' = [call EXCEPT ![t] = r] /\ call[t].pc \in {"abort", "abort released"}
        /\ UNCHANGED <<next, known, handles, quic, connections, callback>>
    BY <1>0, <1>10 DEF Abort, table
  <2>2. GoesOnAs(call[t], r) /\ r.connection = call[t].connection
    BY <1>0, <2>1 DEF GoesOnAs, Allocating, Dialling, Releasing, Connected, Calls
  <2> HIDE DEF c, r
  <2> QED BY <1>0, <2>1, <2>2, TablesKept, NamesOfCall
<1> QED BY <1>1, <1>2, <1>3, <1>4, <1>5, <1>6, <1>7, <1>8, <1>9, <1>10

\* The steps of calls on sessions and streams that hand out no id and list nothing.
LEMMA SessionNames ==
  ASSUME IInv, IInv', NamesInv, NEW t \in Threads,
         \/ FindConnection(t) \/ StreamOpen(t) \/ ListStream(t, FALSE)
         \/ SendPrefix(t, TRUE) \/ SendPrefix(t, FALSE) \/ Unlist(t)
         \/ FindToSend(t) \/ Send(t) \/ CopyConnection(t) \/ SendDatagram(t)
         \/ Delist(t) \/ StreamClose(t)
  PROVE  NamesInv'
<1> DEFINE c == call[t].client
<1>0. /\ call \in [Threads -> Calls] /\ quic \in [Ids -> Quics] /\ connections \in [Ids -> Connections]
      /\ call[t] \in Calls
      /\ call[t].pc # "idle" => c \in Ids /\ c < next
      /\ call[t].pc \in Allocating => call[t].id \in Ids /\ call[t].id < next
      /\ call[t].connection # 0 => call[t].connection \in Ids /\ connections[call[t].connection].state # "none"
      /\ call[t].pc \in Connected => call[t].connection # 0
  BY InNames
<1>h. \A d \in Ids : quic[d].connection # 0 => quic[d].connection \in Ids /\ connections[quic[d].connection].state # "none"
  BY Shapes DEF NamesInv, ConnectionsOfClients
<1>1. CASE FindConnection(t)
  <2>1. /\ call[t].pc = "open"
        /\ UNCHANGED <<next, known, handles, quic, connections, callback>>
    BY <1>1 DEF FindConnection, Running, table
  <2>2. CASE quic[c].connection = 0
    <3> DEFINE r == [call[t] EXCEPT !.pc = "undo"]
    <3>1. call' = [call EXCEPT ![t] = r]
      BY <1>0, <1>1, <2>2 DEF FindConnection, Go
    <3>2. GoesOnAs(call[t], r) /\ r.connection = call[t].connection
      BY <1>0, <2>1 DEF GoesOnAs, Allocating, Dialling, Releasing, Connected, Calls
    <3> HIDE DEF c, r
    <3> QED BY <1>0, <2>1, <3>1, <3>2, TablesKept, NamesOfCall
  <2>3. CASE quic[c].connection # 0
    <3> DEFINE r == [call[t] EXCEPT !.pc = "opening", !.connection = quic[c].connection]
    <3>1. call' = [call EXCEPT ![t] = r]
      BY <1>1, <2>3 DEF FindConnection, Become
    <3>2. GoesOnAs(call[t], r) /\ r.connection = quic[c].connection
      BY <1>0, <2>1, <2>3 DEF GoesOnAs, Allocating, Dialling, Releasing, Connected, Calls
    <3>3. connections[quic[c].connection].state # "none"
      BY <1>0, <1>h, <2>1, <2>3
    <3> HIDE DEF c, r
    <3> QED BY <1>0, <2>1, <3>1, <3>2, <3>3, TablesKept, NamesOfCall
  <2> QED BY <2>2, <2>3
<1>2. CASE StreamOpen(t)
  <2>1. /\ call[t].pc = "opening"
        /\ UNCHANGED <<next, known, handles, quic, connections, callback>>
    BY <1>2 DEF StreamOpen, Running, table
  <2>2. PICK pc \in {"undo", "list"}, q \in NativeStreams \cup {NoNative} :
          call' = [call EXCEPT ![t] = [call[t] EXCEPT !.pc = pc, !.native = q, !.connection = 0]]
    <3>1. CASE Become(t, [call[t] EXCEPT !.pc = "undo", !.connection = 0])
      <4>1. call[t].native \in NativeStreams \cup {NoNative}
            /\ [call[t] EXCEPT !.pc = "undo", !.connection = 0] = [call[t] EXCEPT !.pc = "undo", !.native = call[t].native, !.connection = 0]
        BY <1>0 DEF Calls
      <4> QED BY <3>1, <4>1 DEF Become
    <3>2. CASE \E q \in NativeStreams : Become(t, [call[t] EXCEPT !.pc = "list", !.native = q, !.connection = 0])
      BY <3>2 DEF Become
    <3> QED BY <1>2, <3>1, <3>2 DEF StreamOpen
  <2> DEFINE r == [call[t] EXCEPT !.pc = pc, !.native = q, !.connection = 0]
  <2>3. GoesOnAs(call[t], r) /\ r.connection = 0
    BY <1>0, <2>1 DEF GoesOnAs, Allocating, Dialling, Releasing, Connected, Calls
  <2>4. call' = [call EXCEPT ![t] = r]
    BY <2>2
  <2> HIDE DEF c, r
  <2> QED BY <1>0, <2>1, <2>3, <2>4, TablesKept, NamesOfCall
<1>3. CASE ListStream(t, FALSE)
  <2> DEFINE r == [call[t] EXCEPT !.pc = "undo"]
  <2>1. /\ call[t].pc = "list" /\ call' = [call EXCEPT ![t] = r]
        /\ UNCHANGED <<next, known, handles, quic, connections, callback>>
    BY <1>0, <1>3 DEF ListStream, Running, Go, table
  <2>2. GoesOnAs(call[t], r) /\ r.connection = call[t].connection
    BY <1>0, <2>1 DEF GoesOnAs, Allocating, Dialling, Releasing, Connected, Calls
  <2> HIDE DEF c, r
  <2> QED BY <1>0, <2>1, <2>2, TablesKept, NamesOfCall
<1>4. CASE SendPrefix(t, TRUE)
  <2>1. /\ call[t].pc = "prefix" /\ call' = [call EXCEPT ![t] = NoCall] /\ known' = known \cup {call[t].id}
        /\ UNCHANGED <<next, handles, quic, connections, callback>>
    BY <1>4 DEF SendPrefix, Running, ReturnId, Return, Become
  <2>2. call[t].pc \in Allocating /\ NoCall.pc \notin Allocating /\ call[t].id \in known'
    BY <2>1, NoCallFields DEF Allocating
  <2> HIDE DEF c
  <2> QED BY <1>0, <2>1, <2>2, ReturnsAs, NoCallFields, TablesKept, NamesOfCall
<1>5. CASE SendPrefix(t, FALSE)
  <2> DEFINE r == [call[t] EXCEPT !.pc = "unlist"]
  <2>1. /\ call[t].pc = "prefix" /\ call' = [call EXCEPT ![t] = r]
        /\ UNCHANGED <<next, known, handles, quic, connections, callback>>
    BY <1>0, <1>5 DEF SendPrefix, Running, Go
  <2>2. GoesOnAs(call[t], r) /\ r.connection = call[t].connection /\ r.pc = "unlist" /\ r.native = call[t].native
    BY <1>0, <2>1 DEF GoesOnAs, Allocating, Dialling, Releasing, Connected, Calls
  <2> HIDE DEF c, r
  <2> QED BY <1>0, <2>1, <2>2, TablesKept, NamesOfCall
<1>6. CASE Unlist(t)
  <2> DEFINE r == [call[t] EXCEPT !.pc = "undo"]
             d == [quic[c] EXCEPT !.streams = @ \ EntriesAt(c, call[t].native)]
  <2>1. /\ call[t].pc = "unlist" /\ call' = [call EXCEPT ![t] = r]
        /\ quic' = [quic EXCEPT ![c] = d]
        /\ UNCHANGED <<next, known, handles, connections, callback>>
    BY <1>0, <1>6 DEF Unlist, Running, Go, table
  <2>2. GoesOnAs(call[t], r) /\ r.connection = call[t].connection
    BY <1>0, <2>1 DEF GoesOnAs, Allocating, Dialling, Releasing, Connected, Calls
  <2>3. c \in Ids /\ c < next /\ quic[c] \in Quics
    BY <1>0, <2>1
  <2>4. /\ d.address = quic[c].address /\ d.life = quic[c].life /\ d.connection = quic[c].connection
        /\ d.streams = quic[c].streams \ EntriesAt(c, call[t].native)
    BY <2>3 DEF Quics
  <2>5. quic'[c].streams = quic[c].streams \ EntriesAt(c, call[t].native)
    BY <1>0, <2>1, <2>3, <2>4
  <2>6. \A e \in quic'[call[t].client].streams : ~(e.id = call[t].id /\ e.native = call[t].native)
    BY <2>5 DEF EntriesAt
  <2>7. quic[c].connection # 0 => connections[quic[c].connection].state # "none"
    BY <1>h, <2>3
  <2> HIDE DEF d
  <2>8. QuicKept
    BY <2>1, <2>3, <2>4, <2>7, ContextKept
  <2> HIDE DEF c, r
  <2> QED BY <1>0, <2>1, <2>2, <2>6, <2>8, TablesKept, NamesOfCall
<1>7. CASE FindToSend(t)
  <2>1. /\ call[t].pc = "send"
        /\ UNCHANGED <<next, known, handles, quic, connections, callback>>
    BY <1>7 DEF FindToSend, Running, table
  <2>2. CASE call' = [call EXCEPT ![t] = NoCall]
    <3> HIDE DEF c
    <3> QED BY <1>0, <2>1, <2>2, ReturnsAs, NoCallFields, TablesKept, NamesOfCall
  <2>3. ASSUME NEW e \in EntriesOf(c, call[t].id),
               call' = [call EXCEPT ![t] = [call[t] EXCEPT !.pc = "sending", !.native = e.native]]
        PROVE  NamesInv'
    <3> DEFINE r == [call[t] EXCEPT !.pc = "sending", !.native = e.native]
    <3>1. GoesOnAs(call[t], r) /\ r.connection = call[t].connection
      BY <1>0, <2>1 DEF GoesOnAs, Allocating, Dialling, Releasing, Connected, Calls
    <3>2. call' = [call EXCEPT ![t] = r]
      BY <2>3
    <3> HIDE DEF c, r
    <3> QED BY <1>0, <2>1, <3>1, <3>2, TablesKept, NamesOfCall
  <2> QED BY <1>7, <2>2, <2>3 DEF FindToSend, Return, Become
<1>8. CASE Send(t) \/ SendDatagram(t) \/ StreamClose(t)
  <2>1. /\ call[t].pc \in {"sending", "datagram out", "close"} /\ call' = [call EXCEPT ![t] = NoCall]
        /\ UNCHANGED <<next, known, handles, quic, connections, callback>>
    BY <1>8 DEF Send, SendDatagram, StreamClose, Running, Return, Become, table
  <2> HIDE DEF c
  <2> QED BY <1>0, <2>1, ReturnsAs, NoCallFields, TablesKept, NamesOfCall
<1>9. CASE CopyConnection(t)
  <2>1. /\ call[t].pc = "datagram"
        /\ UNCHANGED <<next, known, handles, quic, connections, callback>>
    BY <1>9 DEF CopyConnection, Running, table
  <2>2. CASE call' = [call EXCEPT ![t] = NoCall]
    <3> HIDE DEF c
    <3> QED BY <1>0, <2>1, <2>2, ReturnsAs, NoCallFields, TablesKept, NamesOfCall
  <2>3. CASE quic[c].connection # 0
    <3> DEFINE r == [call[t] EXCEPT !.pc = "datagram out", !.connection = quic[c].connection]
    <3>1. call' = [call EXCEPT ![t] = r]
      BY <1>9, <2>3 DEF CopyConnection, Become
    <3>2. GoesOnAs(call[t], r) /\ r.connection = quic[c].connection
      BY <1>0, <2>1, <2>3 DEF GoesOnAs, Allocating, Dialling, Releasing, Connected, Calls
    <3>3. connections[quic[c].connection].state # "none"
      BY <1>0, <1>h, <2>1, <2>3
    <3> HIDE DEF c, r
    <3> QED BY <1>0, <2>1, <3>1, <3>2, <3>3, TablesKept, NamesOfCall
  <2> QED BY <1>9, <2>2, <2>3 DEF CopyConnection, Return, Become
<1>10. CASE Delist(t)
  <2>1. /\ call[t].pc = "closing"
        /\ UNCHANGED <<next, known, handles, connections, callback>>
    BY <1>10 DEF Delist, Running, table
  <2>2. CASE call' = [call EXCEPT ![t] = NoCall] /\ UNCHANGED quic
    <3> HIDE DEF c
    <3> QED BY <1>0, <2>1, <2>2, ReturnsAs, NoCallFields, TablesKept, NamesOfCall
  <2>3. ASSUME NEW e \in EntriesOf(c, call[t].id),
               call' = [call EXCEPT ![t] = [call[t] EXCEPT !.pc = "close", !.native = e.native]],
               quic' = [quic EXCEPT ![c].streams = @ \ EntriesAt(c, e.native)]
        PROVE  NamesInv'
    <3> DEFINE r == [call[t] EXCEPT !.pc = "close", !.native = e.native]
               d == [quic[c] EXCEPT !.streams = @ \ EntriesAt(c, e.native)]
    <3>1. GoesOnAs(call[t], r) /\ r.connection = call[t].connection
      BY <1>0, <2>1 DEF GoesOnAs, Allocating, Dialling, Releasing, Connected, Calls
    <3>2. call' = [call EXCEPT ![t] = r] /\ quic' = [quic EXCEPT ![c] = d]
      BY <1>0, <2>3
    <3>3. c \in Ids /\ c < next /\ quic[c] \in Quics
      BY <1>0, <2>1
    <3>4. /\ d.address = quic[c].address /\ d.life = quic[c].life /\ d.connection = quic[c].connection
          /\ d.streams = quic[c].streams \ EntriesAt(c, e.native)
      BY <3>3 DEF Quics
    <3>5. quic[c].connection # 0 => connections[quic[c].connection].state # "none"
      BY <1>h, <3>3
    <3> HIDE DEF d
    <3>6. QuicKept
      BY <3>2, <3>3, <3>4, <3>5, ContextKept
    <3> HIDE DEF c, r
    <3> QED BY <1>0, <2>1, <3>1, <3>2, <3>6, TablesKept, NamesOfCall
  <2> QED BY <1>10, <2>2, <2>3 DEF Delist, Return, Become
<1> QED BY <1>1, <1>2, <1>3, <1>4, <1>5, <1>6, <1>7, <1>8, <1>9, <1>10

LEMMA BegunAs ==
  ASSUME IInv, NEW t \in Threads, call[t].pc = "idle",
         NEW pc \in {"send", "datagram", "shutdown", "released", "closing"},
         NEW c \in Ids, NEW i \in 0 .. MaxHandles, Begin(t, pc, c, i), c < next,
         pc = "released" => handles'[c].kind # "client"
  PROVE  \E r \in Calls : /\ call' = [call EXCEPT ![t] = r]
                          /\ BeginsAs(call[t], r) /\ r.connection = 0
<1> DEFINE r == [NoCall EXCEPT !.pc = pc, !.client = c, !.id = i]
<1>1. c \in 0 .. MaxHandles
  BY ZeroFits
<1>2. r \in Calls /\ r.pc = pc /\ r.id = i /\ r.client = c /\ r.connection = 0
  BY <1>1, ZeroFits DEF NoCall, Calls
<1>3. call' = [call EXCEPT ![t] = r]
  BY DEF Begin, Become
<1> HIDE DEF r
<1> QED BY <1>2, <1>3 DEF BeginsAs

\* The steps that begin a call and hand out no id.
LEMMA BeginNames ==
  ASSUME IInv, IInv', NamesInv, NEW t \in Threads, NEW i \in Ids,
         \/ wt_client_shutdown(t, i) \/ wt_session_close(t, i) \/ wt_stream_write(t, i)
         \/ wt_session_send_datagram(t, i)
         \/ ReleaseSession(t, i) \/ ReleaseStream(t, i) \/ ReleaseClient(t, i)
  PROVE  NamesInv'
<1>0. /\ call \in [Threads -> Calls] /\ quic \in [Ids -> Quics] /\ handles \in [Ids -> Handles]
      /\ handles[i] \in Handles /\ i \in 0 .. MaxHandles /\ 0 \in 0 .. MaxHandles
      /\ next \in Nat /\ Ids \subseteq Nat
      /\ \A d \in Ids : Found(d, "client") => d < next
  <2>1. \A d \in Ids : Found(d, "client") => d < next
    BY Shapes DEF IInv, NothingAhead, NoHandle, Found
  <2> QED BY <2>1, ZeroFits, Shapes DEF IInv, TypeOK
<1>h. \A d \in Ids : quic[d].connection # 0 => connections[quic[d].connection].state # "none"
  BY DEF NamesInv, ConnectionsOfClients
<1>c. Found(i, "session") \/ Found(i, "stream") => handles[i].client \in Ids /\ Found(handles[i].client, "client")
  BY DEF IInv, ChildrenHaveClient, Found
<1>1. CASE wt_client_shutdown(t, i)
  <2>1. /\ call[t].pc = "idle" /\ Found(i, "client") /\ Begin(t, "shutdown", i, 0)
        /\ quic' = [quic EXCEPT ![i].closing = TRUE]
        /\ UNCHANGED <<next, known, handles, connections, callback>>
    BY <1>1 DEF wt_client_shutdown, Running, Usable, table
  <2>2. PICK r \in Calls : /\ call' = [call EXCEPT ![t] = r]
                          /\ BeginsAs(call[t], r) /\ r.connection = 0
    BY <1>0, <2>1, BegunAs
  <2> DEFINE d == [quic[i] EXCEPT !.closing = TRUE]
  <2>3. /\ quic' = [quic EXCEPT ![i] = d] /\ i < next
        /\ d.address = quic[i].address /\ d.life = quic[i].life /\ d.connection = quic[i].connection
        /\ d.streams = quic[i].streams
    BY <1>0, <2>1, Shapes DEF Quics
  <2> HIDE DEF d
  <2>4. QuicKept
    BY <1>h, <2>3, ContextKept
  <2> QED BY <2>1, <2>2, <2>4, TablesKept, NamesOfCall
<1>2. CASE wt_session_close(t, i) \/ wt_stream_write(t, i) \/ wt_session_send_datagram(t, i)
  <2>1. /\ call[t].pc = "idle" /\ (Found(i, "session") \/ Found(i, "stream"))
        /\ \/ Begin(t, "shutdown", handles[i].client, 0)
           \/ Begin(t, "send", handles[i].client, i)
           \/ Begin(t, "datagram", handles[i].client, 0)
        /\ UNCHANGED <<next, known, handles, quic, connections, callback>>
    BY <1>2 DEF wt_session_close, wt_stream_write, wt_session_send_datagram, Running, Usable, table
  <2>2. handles[i].client \in Ids /\ handles[i].client < next
    BY <1>0, <1>c, <2>1
  <2>3. PICK r \in Calls : /\ call' = [call EXCEPT ![t] = r]
                          /\ BeginsAs(call[t], r) /\ r.connection = 0
    BY <1>0, <2>1, <2>2, BegunAs
  <2> QED BY <2>1, <2>3, TablesKept, NamesOfCall
<1>3. CASE ReleaseSession(t, i)
  <2>1. /\ call[t].pc = "idle" /\ handles' = [handles EXCEPT ![i] = NoHandle]
        /\ UNCHANGED <<next, known, quic, connections, callback, call>>
    BY <1>3 DEF ReleaseSession, Running
  <2>2. HandlesKept
    BY <1>0, <2>1, CallKinds DEF HandlesKept, NoHandle
  <2>3. call' = [call EXCEPT ![t] = call[t]] /\ GoesOnAs(call[t], call[t])
    BY <1>0, <2>1 DEF GoesOnAs
  <2>4. call[t].connection # 0 => connections[call[t].connection].state # "none"
    BY DEF NamesInv, ConnectionsOfClients
  <2> QED BY <2>1, <2>2, <2>3, <2>4, TablesKept, NamesOfCall
<1>4. CASE ReleaseStream(t, i)
  <2>1. /\ call[t].pc = "idle" /\ Found(i, "stream") /\ Begin(t, "closing", handles[i].client, i)
        /\ handles' = [handles EXCEPT ![i] = NoHandle]
        /\ UNCHANGED <<next, known, quic, connections, callback>>
    BY <1>4 DEF ReleaseStream, Running, Usable
  <2>2. handles[i].client \in Ids /\ handles[i].client < next
    BY <1>0, <1>c, <2>1
  <2>3. PICK r \in Calls : /\ call' = [call EXCEPT ![t] = r]
                          /\ BeginsAs(call[t], r) /\ r.connection = 0
    BY <1>0, <2>1, <2>2, BegunAs
  <2>4. HandlesKept
    BY <1>0, <2>1, CallKinds DEF HandlesKept, NoHandle
  <2> QED BY <2>1, <2>3, <2>4, TablesKept, NamesOfCall
<1>5. CASE ReleaseClient(t, i)
  <2>1. /\ call[t].pc = "idle" /\ Found(i, "client") /\ Begin(t, "released", i, 0)
        /\ handles' = WithoutClient(i)
        /\ quic' = [quic EXCEPT ![i].closing = TRUE]
        /\ UNCHANGED <<next, known, connections, callback>>
    BY <1>5 DEF ReleaseClient, Running, Usable
  <2>4. HandlesKept /\ handles'[i].kind # "client"
    <3>1. handles[i].client = i
      BY <2>1 DEF IInv, ClientsNameThemselves, Found
    <3> QED BY <1>0, <2>1, <3>1 DEF HandlesKept, WithoutClient, NoHandle
  <2>2. PICK r \in Calls : /\ call' = [call EXCEPT ![t] = r]
                          /\ BeginsAs(call[t], r) /\ r.connection = 0
    BY <1>0, <2>1, <2>4, BegunAs
  <2> DEFINE d == [quic[i] EXCEPT !.closing = TRUE]
  <2>3. /\ quic' = [quic EXCEPT ![i] = d] /\ i < next
        /\ d.address = quic[i].address /\ d.life = quic[i].life /\ d.connection = quic[i].connection
        /\ d.streams = quic[i].streams
    BY <1>0, <2>1, Shapes DEF Quics
  <2> HIDE DEF d
  <2>5. QuicKept
    BY <1>h, <2>3, ContextKept
  <2> QED BY <2>1, <2>2, <2>4, <2>5, TablesKept, NamesOfCall
<1> QED BY <1>1, <1>2, <1>3, <1>4, <1>5

\* A connection that starts.
LEMMA StartNames ==
  ASSUME IInv, IInv', NamesInv, NEW t \in Threads, ConnectStarts(t)
  PROVE  NamesInv'
<1> DEFINE k == call[t].id
<1>0. /\ call \in [Threads -> Calls] /\ connections \in [Ids -> Connections]
      /\ call[t] \in Calls
      /\ call[t].pc \in Allocating => call[t].id \in Ids /\ call[t].id < next
  BY InNames
<1>1. /\ call[t].pc = "start" /\ call' = [call EXCEPT ![t] = NoCall] /\ known' = known \cup {call[t].id}
      /\ connections' = [connections EXCEPT ![k].state = IF @ = "open" THEN "started" ELSE @]
      /\ UNCHANGED <<next, handles, quic, callback>>
  BY DEF ConnectStarts, Running, ReturnId, Return, Become
<1>2. call[t].pc \in Allocating /\ NoCall.pc \notin Allocating /\ k \in Ids /\ k < next
  BY <1>0, <1>1, NoCallFields DEF Allocating
<1>3. connections[k].state # "none" /\ connections[k] \in Connections
  BY <1>0, <1>1, <1>2 DEF NamesInv, ConnectionsOfClients
<1>4. callback[k].pc # "idle" => connections[k].state = "started"
  BY <1>2 DEF NamesInv, ConnectionsOfClients
<1>5. /\ connections'[k].client = connections[k].client
      /\ connections'[k].state = IF connections[k].state = "open" THEN "started" ELSE connections[k].state
      /\ \A j \in Ids : j # k => connections'[j] = connections[j]
  BY <1>0, <1>1, <1>2, <1>3 DEF Connections
<1>6. ~(k >= next)
  BY <1>2, Shapes
<1> HIDE DEF k
<1>7. ConnectionsKept
  BY <1>3, <1>4, <1>5, <1>6 DEF ConnectionsKept
<1> QED BY <1>1, <1>2, <1>7, ReturnsAs, NoCallFields, TablesKept, NamesOfCall DEF k

\* A step of no call.
LEMMA NamesOfOthers ==
  ASSUME IInv, IInv', NamesInv, UNCHANGED <<next, known, handles, call>>, QuicKept, ConnectionsKept,
         \A k \in Ids : CallsBackAs(k)
  PROVE  NamesInv'
<1>1. HandlesKept
  BY TablesKept
<1>2. \A u \in Threads : /\ GoesOnAs(call[u], call'[u])
                         /\ call'[u].connection # 0 => connections[call'[u].connection].state # "none"
  BY DEF GoesOnAs, NamesInv, ConnectionsOfClients
<1> QED BY <1>1, <1>2, NamesFrame

LEMMA DestroyNames ==
  ASSUME IInv, IInv', NamesInv, NEW c \in Ids, Destroys(c)
  PROVE  NamesInv'
<1>0. /\ quic \in [Ids -> Quics] /\ quic[c] \in Quics /\ \A k \in Ids : callback[k] \in CallbackStates
      /\ quic[c].connection # 0 => quic[c].connection \in Ids /\ connections[quic[c].connection].state # "none"
  BY Shapes DEF IInv, TypeOK, NamesInv, ConnectionsOfClients
<1>1. quic[c].life \in {"destroying", "closing"} => c < next /\ ~Found(c, "client")
  BY Shapes DEF NamesInv, FreshIsFree, NoQuic, OneAddress
<1>b. callback' = callback /\ ConnectionsKept => \A k \in Ids : CallsBackAs(k)
  BY DEF CallsBackAs, ConnectionsKept
<1>2. CASE DestroyTakes(c)
  <2> DEFINE d == [quic[c] EXCEPT !.life = "closing", !.doomed = Listed(c), !.streams = {}]
  <2>1. /\ quic[c].life = "destroying" /\ quic' = [quic EXCEPT ![c] = d]
        /\ UNCHANGED <<next, known, handles, connections, call, callback>>
    BY <1>0, <1>2 DEF DestroyTakes, table
  <2>2. d.address = quic[c].address /\ d.streams = {} /\ d.connection = quic[c].connection
    BY <1>0 DEF Quics
  <2> HIDE DEF d
  <2>3. QuicKept
    BY <1>0, <1>1, <2>1, <2>2, ContextKept
  <2> QED BY <1>b, <2>1, <2>3, TablesKept, NamesOfOthers
<1>3. ASSUME NEW q \in NativeStreams, DestroyCloses(c, q) PROVE NamesInv'
  <2> DEFINE d == [quic[c] EXCEPT !.doomed = @ \ {q}]
  <2>1. /\ quic[c].life = "closing" /\ quic' = [quic EXCEPT ![c] = d]
        /\ UNCHANGED <<next, known, handles, connections, call, callback>>
    BY <1>0, <1>3 DEF DestroyCloses, table
  <2>2. d.address = quic[c].address /\ d.streams = quic[c].streams /\ d.connection = quic[c].connection
    BY <1>0 DEF Quics
  <2> HIDE DEF d
  <2>3. QuicKept
    BY <1>0, <1>1, <2>1, <2>2, ContextKept
  <2> QED BY <1>b, <2>1, <2>3, TablesKept, NamesOfOthers
<1>4. CASE DestroyDisconnects(c)
  <2> DEFINE d == [quic[c] EXCEPT !.connection = 0]
  <2>1. /\ quic[c].life = "closing" /\ quic' = [quic EXCEPT ![c] = d]
        /\ quic[c].connection # 0 /\ CloseConnection(quic[c].connection)
        /\ UNCHANGED <<next, known, handles, call, callback>>
    BY <1>0, <1>4 DEF DestroyDisconnects, table
  <2>2. d.address = quic[c].address /\ d.streams = quic[c].streams /\ d.connection = 0
    BY <1>0 DEF Quics
  <2> HIDE DEF d
  <2>3. QuicKept
    BY <1>0, <1>1, <2>1, <2>2, ContextKept
  <2>4. ConnectionsKept
    BY <1>0, <2>1, ClosingKeeps
  <2> QED BY <1>b, <2>1, <2>3, <2>4, NamesOfOthers
<1>5. CASE DestroyFrees(c)
  <2> DEFINE d == [quic[c] EXCEPT !.life = "freed"]
  <2>1. /\ quic[c].life = "closing" /\ quic' = [quic EXCEPT ![c] = d]
        /\ UNCHANGED <<next, known, handles, connections, call, callback>>
    BY <1>0, <1>5 DEF DestroyFrees, table
  <2>2. d.address = quic[c].address /\ d.streams = quic[c].streams /\ d.connection = quic[c].connection
    BY <1>0 DEF Quics
  <2> HIDE DEF d
  <2>3. QuicKept
    BY <1>0, <1>1, <2>1, <2>2, ContextKept
  <2> QED BY <1>b, <2>1, <2>3, TablesKept, NamesOfOthers
<1> QED BY <1>2, <1>3, <1>4, <1>5 DEF Destroys

\* A step that hands out an id: to a client, to a call that begins, or to a callback.
CallGetsId(t, h) ==
  /\ call[t].pc = "idle" /\ call'[t].pc \in {"connect", "open"} /\ next \notin known'
  /\ call'[t].id = next /\ call'[t].client \in Ids /\ call'[t].client < next /\ call'[t].connection = 0
  /\ h.client = call'[t].client
CallbackGetsId(k, h) ==
  /\ callback[k].pc = "accept" /\ callback'[k].pc = "list" /\ callback'[k].id = next /\ next \in known'
  /\ Found(connections[k].client, "client") => h.client = connections[k].client

LEMMA Counts ==
  ASSUME IInv, next' = next + 1
  PROVE  /\ \A i \in Ids : i >= next' => i >= next /\ i # next
         /\ \A i \in Ids : i < next => i < next' /\ i # next
         /\ next < next'
  BY Shapes

LEMMA NamesGrown ==
  ASSUME IInv, IInv', NamesInv, next \in Ids, next' = next + 1, NEW h \in Handles,
         handles' = [handles EXCEPT ![next] = h], UNCHANGED connections,
         known' = known \/ known' = known \cup {next},
         \A c \in Ids : c # next => quic'[c] = quic[c],
         quic'[next].streams = {}, quic'[next].connection = 0,
         \/ quic'[next].address = NoNative
         \/ \A c \in Ids : c # next => quic[c].address # quic'[next].address,
         h.kind = "client" => quic'[next].life = "live" /\ quic'[next].address # NoNative,
         \A t \in Threads : call'[t] = call[t] \/ CallGetsId(t, h),
         \A t, u \in Threads : t # u => call'[t] = call[t] \/ call'[u] = call[u],
         \A k \in Ids : callback'[k] = callback[k] \/ callback'[k].pc = "idle" \/ CallbackGetsId(k, h)
  PROVE  NamesInv'
<1>0. /\ FreshIsFree /\ InFlight /\ ListedIds /\ ConnectionsOfClients /\ ClientsOfCalls /\ OneAddress
      /\ AttachesToOwn /\ PeerStreamsStayWithClient
  BY DEF NamesInv
<1>1. /\ quic[next] = NoQuic /\ connections[next] = NoConnection /\ next \notin known /\ handles[next] = NoHandle
      /\ handles \in [Ids -> Handles] /\ next >= next
  <2>1. next >= next
    BY Shapes
  <2> QED BY <1>0, <2>1 DEF FreshIsFree, IInv, TypeOK, NothingAhead
<1>2. /\ handles'[next] = h
      /\ \A i \in Ids : i # next => handles'[i] = handles[i]
  BY <1>1
<1>3. \A u \in Threads : call[u].pc \in Allocating => call[u].id < next /\ call[u].id # next
  BY Counts, Shapes DEF IInv, UndoesChildren
<1>4. \A i \in known : i < next /\ i # next
  <2>1. \A i \in Ids : i < next \/ i >= next
    BY Shapes
  <2> QED BY <1>0, <2>1, Counts, Shapes DEF FreshIsFree
<1>5. FreshIsFree'
  <2>1. ASSUME NEW i \in Ids, i >= next'
        PROVE  quic'[i] = NoQuic /\ connections'[i] = NoConnection /\ i \notin known'
    <3>1. i >= next /\ i # next
      BY <2>1, Counts
    <3> QED BY <1>0, <3>1 DEF FreshIsFree
  <2> QED BY <2>1 DEF FreshIsFree
<1>6. InFlight'
  <2>1. \A t \in Threads : call'[t].pc \in Allocating => call'[t].id \notin known'
    BY <1>0, <1>1, <1>3 DEF InFlight, CallGetsId
  <2>2. ASSUME NEW t \in Threads, NEW u \in Threads, t # u, call'[t].pc \in Allocating, call'[u].pc \in Allocating
        PROVE  call'[t].id # call'[u].id
    <3>1. CASE call'[t] = call[t] /\ call'[u] = call[u]
      BY <1>0, <2>2, <3>1 DEF InFlight
    <3>2. CASE call'[t] = call[t] /\ CallGetsId(u, h)
      BY <1>3, <2>2, <3>2 DEF CallGetsId
    <3>3. CASE CallGetsId(t, h) /\ call'[u] = call[u]
      BY <1>3, <2>2, <3>3 DEF CallGetsId
    <3> QED BY <2>2, <3>1, <3>2, <3>3
  <2> QED BY <2>1, <2>2 DEF InFlight
<1>7. ListedIds'
  <2>1. \A k \in Ids : callback'[k].pc = "list" => callback'[k].id \in known'
    BY <1>0 DEF ListedIds, CallbackGetsId
  <2>2. ASSUME NEW c \in Ids, NEW e \in quic'[c].streams, e.id \notin known'
        PROVE  \E t \in Threads : /\ call'[t].pc \in {"prefix", "unlist"}
                             /\ call'[t].id = e.id /\ call'[t].client = c /\ call'[t].native = e.native
    <3>1. c # next /\ e \in quic[c].streams /\ e.id \notin known
      BY <2>2
    <3>2. PICK t \in Threads : /\ call[t].pc \in {"prefix", "unlist"}
                             /\ call[t].id = e.id /\ call[t].client = c /\ call[t].native = e.native
      BY <1>0, <3>1 DEF ListedIds
    <3>3. call'[t] = call[t]
      BY <3>2 DEF CallGetsId
    <3> QED BY <3>2, <3>3
  <2> QED BY <2>1, <2>2 DEF ListedIds
<1>8. ConnectionsOfClients'
  <2>1. \A k \in Ids : connections'[k].state # "none" => connections'[k].client \in Ids /\ connections'[k].client < next'
    BY <1>0, Counts DEF ConnectionsOfClients
  <2>2. \A t \in Threads : call'[t].pc \in {"connect", "replace", "dial"} => connections'[call'[t].id].state = "none"
    BY <1>0, <1>1 DEF ConnectionsOfClients, CallGetsId, NoConnection
  <2>3. \A t \in Threads : call'[t].pc \in {"start", "forget"} => connections'[call'[t].id].state # "none"
    BY <1>0 DEF ConnectionsOfClients, CallGetsId
  <2>4. \A t \in Threads : call'[t].pc \in Connected => call'[t].connection # 0
    BY <1>0 DEF ConnectionsOfClients, CallGetsId, Connected
  <2>5. \A t \in Threads : call'[t].connection # 0 => connections'[call'[t].connection].state # "none"
    BY <1>0 DEF ConnectionsOfClients, CallGetsId
  <2>6. \A c \in Ids : quic'[c].connection # 0 => connections'[quic'[c].connection].state # "none"
    BY <1>0 DEF ConnectionsOfClients
  <2>7. \A k \in Ids : callback'[k].pc # "idle" => connections'[k].state = "started"
    BY <1>0 DEF ConnectionsOfClients, CallbackGetsId
  <2> QED BY <2>1, <2>2, <2>3, <2>4, <2>5, <2>6, <2>7 DEF ConnectionsOfClients
<1>9. ClientsOfCalls'
  <2>1. ASSUME NEW t \in Threads, call'[t].pc # "idle"
        PROVE  call'[t].client < next /\ call'[t].client \in Ids
    <3>1. CASE call'[t] = call[t]
      BY <1>0, <2>1, <3>1, Shapes DEF ClientsOfCalls
    <3> QED BY <3>1 DEF CallGetsId
  <2>2. \A t \in Threads : call'[t].pc # "idle" => call'[t].client < next' /\ call'[t].client # next
    BY <2>1, Counts
  <2>3. ASSUME NEW t \in Threads, call'[t].pc \in Releasing
        PROVE  ~Found(call[t].client, "client")'
    <3>1. call'[t] = call[t]
      BY <2>3 DEF CallGetsId, Releasing
    <3>2. ~Found(call[t].client, "client") /\ call[t].client # next
      BY <1>0, <2>2, <2>3, <3>1 DEF ClientsOfCalls, Releasing
    <3> QED BY <1>2, <3>1, <3>2 DEF Found
  <2> QED BY <2>2, <2>3 DEF ClientsOfCalls, Releasing, Found
<1>10. OneAddress'
  <2>1. ASSUME NEW c \in Ids, handles'[c].kind = "client"
        PROVE  quic'[c].address # NoNative /\ quic'[c].life = "live"
    <3>1. CASE c = next
      BY <1>2, <2>1, <3>1
    <3>2. CASE c # next
      BY <1>0, <1>2, <2>1, <3>2 DEF OneAddress, Found
    <3> QED BY <3>1, <3>2
  <2>2. ASSUME NEW c \in Ids, NEW d \in Ids, quic'[c].address = quic'[d].address, quic'[c].address # NoNative, c # d
        PROVE  FALSE
    <3>1. CASE c # next /\ d # next
      BY <1>0, <2>2, <3>1 DEF OneAddress
    <3>2. CASE c = next
      BY <2>2, <3>2
    <3>3. CASE d = next
      BY <2>2, <3>3
    <3> QED BY <3>1, <3>2, <3>3
  <2> QED BY <2>1, <2>2 DEF OneAddress, Found
<1>11. AttachesToOwn'
  <2>1. \A k \in Ids : callback'[k].pc # "idle" => connections[k].client \in Ids /\ connections[k].client # next
    BY <1>0, Counts DEF ConnectionsOfClients, CallbackGetsId
  <2>2. ASSUME NEW k \in Ids, callback'[k].pc = "accept", handles'[connections[k].client].kind = "client"
        PROVE  callback'[k].address = quic'[connections[k].client].address
    <3>1. callback'[k] = callback[k] /\ connections[k].client \in Ids /\ connections[k].client # next
      BY <2>1, <2>2 DEF CallbackGetsId
    <3>2. Found(connections[k].client, "client")
      BY <1>2, <2>2, <3>1 DEF Found
    <3> QED BY <1>0, <2>2, <3>1, <3>2 DEF AttachesToOwn
  <2>3. ASSUME NEW k \in Ids, callback'[k].pc = "list", handles'[connections[k].client].kind = "client",
               handles'[callback'[k].id].kind = "stream"
        PROVE  handles'[callback'[k].id].client = connections[k].client
    <3>1. connections[k].client \in Ids /\ connections[k].client # next
      BY <2>1, <2>3
    <3>2. Found(connections[k].client, "client")
      BY <1>2, <2>3, <3>1 DEF Found
    <3>3. CASE CallbackGetsId(k, h)
      BY <1>2, <3>2, <3>3 DEF CallbackGetsId
    <3>4. CASE callback'[k] = callback[k]
      <4>1. callback[k].id \in Ids /\ callback[k].id # next
        BY <1>0, <1>4, <2>3, <3>4, Shapes DEF ListedIds
      <4>2. Found(callback[k].id, "stream") /\ handles'[callback[k].id] = handles[callback[k].id]
        BY <1>2, <2>3, <3>4, <4>1 DEF Found
      <4> QED BY <1>0, <2>3, <3>2, <3>4, <4>2 DEF AttachesToOwn
    <3> QED BY <2>3, <3>3, <3>4
  <2>4. ASSUME NEW t \in Threads, call'[t].pc \in {"open", "opening", "list"}, handles'[call'[t].id].kind = "stream"
        PROVE  handles'[call'[t].id].client = call'[t].client
    <3>1. CASE CallGetsId(t, h)
      BY <1>2, <3>1 DEF CallGetsId
    <3>2. CASE call'[t] = call[t]
      <4>1. call[t].pc \in Allocating
        BY <2>4, <3>2 DEF Allocating
      <4>2. call[t].id \in Ids /\ call[t].id # next
        BY <1>3, <4>1, Shapes
      <4>3. Found(call[t].id, "stream") /\ handles'[call[t].id] = handles[call[t].id]
        BY <1>2, <2>4, <3>2, <4>2 DEF Found
      <4> QED BY <1>0, <2>4, <3>2, <4>3 DEF AttachesToOwn
    <3> QED BY <3>1, <3>2
  <2> QED BY <2>2, <2>3, <2>4 DEF AttachesToOwn, Found
<1>12. PeerStreamsStayWithClient'
  <2>1. ASSUME NEW c \in Ids, handles'[c].kind = "client", NEW e \in quic'[c].streams, e.id \in Ids, handles'[e.id].kind = "stream"
        PROVE  handles'[e.id].client = c
    <3>1. c # next /\ e \in quic[c].streams
      BY <2>1
    <3>2. e.id # next
      <4>1. CASE e.id \in known
        BY <1>4, <4>1
      <4>2. CASE e.id \notin known
        <5>1. PICK t \in Threads : call[t].pc \in {"prefix", "unlist"} /\ call[t].id = e.id
          BY <1>0, <3>1, <4>2 DEF ListedIds
        <5>2. call[t].pc \in Allocating
          BY <5>1 DEF Allocating
        <5> QED BY <1>3, <5>1, <5>2
      <4> QED BY <4>1, <4>2
    <3>3. Found(c, "client") /\ Found(e.id, "stream") /\ handles'[e.id] = handles[e.id]
      BY <1>2, <2>1, <3>1, <3>2 DEF Found
    <3> QED BY <1>0, <3>1, <3>3 DEF PeerStreamsStayWithClient
  <2> QED BY <2>1 DEF PeerStreamsStayWithClient, Found
<1> QED BY <1>5, <1>6, <1>7, <1>8, <1>9, <1>10, <1>11, <1>12 DEF NamesInv

\* The steps of calls that hand out an id.
LEMMA GrowthNames ==
  ASSUME IInv, IInv', NamesInv, NEW t \in Threads,
         \/ wt_client_create(t)
         \/ \E i \in Ids : wt_client_connect(t, i) \/ wt_session_open_bidi_stream(t, i)
  PROVE  NamesInv'
<1>0. /\ call \in [Threads -> Calls] /\ quic \in [Ids -> Quics]
      /\ next \in Ids => quic[next] = NoQuic
      /\ NoQuic.address = NoNative /\ NoQuic.streams = {} /\ NoQuic.connection = 0
      /\ \A d \in Ids : Found(d, "client") => d < next
  <2>1. next >= next
    BY Shapes
  <2>2. \A d \in Ids : Found(d, "client") => d < next
    BY Shapes DEF IInv, NothingAhead, NoHandle, Found
  <2>3. next \in Ids => quic[next] = NoQuic
    BY <2>1 DEF NamesInv, FreshIsFree
  <2> QED BY <2>2, <2>3 DEF IInv, TypeOK, NoQuic
<1>1. CASE wt_client_create(t)
  <2> DEFINE h == ClientHandle(next)
  <2>1. PICK a \in Addresses :
          /\ \A c \in Ids : quic[c].address # a
          /\ quic' = [quic EXCEPT ![next] = [NoQuic EXCEPT !.life = "live", !.attached = TRUE, !.address = a]]
    BY <1>1 DEF wt_client_create
  <2>2. /\ next \in Ids /\ next' = next + 1 /\ handles' = [handles EXCEPT ![next] = h]
        /\ known' = known \cup {next}
        /\ UNCHANGED <<connections, call, callback>>
    BY <1>1 DEF wt_client_create, Allocate
  <2>3. h \in Handles /\ h.kind = "client"
    BY <2>2, ZeroFits DEF ClientHandle, Handles
  <2> DEFINE d == [NoQuic EXCEPT !.life = "live", !.attached = TRUE, !.address = a]
  <2>4. d.streams = {} /\ d.connection = 0 /\ d.life = "live" /\ d.address = a
    BY DEF NoQuic
  <2>5. quic'[next] = d /\ \A c \in Ids : c # next => quic'[c] = quic[c]
    BY <1>0, <2>1, <2>2
  <2>6. a # NoNative
    BY <1>0, <2>1, <2>2
  <2> HIDE DEF h, d
  <2> QED BY <2>1, <2>2, <2>3, <2>4, <2>5, <2>6, NamesGrown
<1>2. ASSUME NEW i \in Ids, wt_client_connect(t, i) PROVE NamesInv'
  <2> DEFINE h == SessionHandle(i)
             r == [NoCall EXCEPT !.pc = "connect", !.client = i, !.id = next]
  <2>1. /\ next \in Ids /\ next' = next + 1 /\ handles' = [handles EXCEPT ![next] = h]
        /\ call[t].pc = "idle" /\ Found(i, "client") /\ call' = [call EXCEPT ![t] = r]
        /\ UNCHANGED <<known, quic, connections, callback>>
    BY <1>2 DEF wt_client_connect, Allocate, Begin, Become, Running, Usable
  <2>2. h \in Handles /\ h.kind = "session" /\ h.client = i
    BY ZeroFits DEF SessionHandle, Handles
  <2>3. r.pc = "connect" /\ r.client = i /\ r.id = next /\ r.connection = 0
    BY DEF NoCall
  <2>4. call'[t] = r /\ \A u \in Threads : u # t => call'[u] = call[u]
    BY <1>0, <2>1
  <2>5. next \notin known'
    <3>1. next >= next
      BY Shapes
    <3> QED BY <2>1, <3>1 DEF NamesInv, FreshIsFree
  <2>6. quic'[next].streams = {} /\ quic'[next].connection = 0 /\ quic'[next].address = NoNative
    BY <1>0, <2>1
  <2> HIDE DEF h, r
  <2>7. CallGetsId(t, h)
    BY <1>0, <2>1, <2>2, <2>3, <2>4, <2>5 DEF CallGetsId
  <2> QED BY <2>1, <2>2, <2>4, <2>6, <2>7, NamesGrown
<1>3. ASSUME NEW s \in Ids, wt_session_open_bidi_stream(t, s) PROVE NamesInv'
  <2> DEFINE i == handles[s].client
             h == StreamHandle(i, s)
             r == [NoCall EXCEPT !.pc = "open", !.client = i, !.id = next]
  <2>1. /\ next \in Ids /\ next' = next + 1 /\ handles' = [handles EXCEPT ![next] = h]
        /\ call[t].pc = "idle" /\ Found(i, "client") /\ call' = [call EXCEPT ![t] = r]
        /\ UNCHANGED <<known, quic, connections, callback>>
    BY <1>3 DEF wt_session_open_bidi_stream, Allocate, Begin, Become, Running, Usable
  <2>8. i \in Ids
    BY <2>1 DEF Found
  <2>2. h \in Handles /\ h.kind = "stream" /\ h.client = i
    BY <2>8, ZeroFits DEF StreamHandle, Handles
  <2>3. r.pc = "open" /\ r.client = i /\ r.id = next /\ r.connection = 0
    BY DEF NoCall
  <2>4. call'[t] = r /\ \A u \in Threads : u # t => call'[u] = call[u]
    BY <1>0, <2>1
  <2>5. next \notin known'
    <3>1. next >= next
      BY Shapes
    <3> QED BY <2>1, <3>1 DEF NamesInv, FreshIsFree
  <2>6. quic'[next].streams = {} /\ quic'[next].connection = 0 /\ quic'[next].address = NoNative
    BY <1>0, <2>1
  <2> HIDE DEF h, r, i
  <2>7. CallGetsId(t, h)
    BY <1>0, <2>1, <2>2, <2>3, <2>4, <2>5, <2>8 DEF CallGetsId
  <2> QED BY <2>1, <2>2, <2>4, <2>6, <2>7, NamesGrown
<1> QED BY <1>1, <1>2, <1>3

\* A connection that is opened.
LEMMA OpenNames ==
  ASSUME IInv, IInv', NamesInv, NEW t \in Threads, ConnectOpens(t)
  PROVE  NamesInv'
<1> DEFINE c == call[t].client
           k == call[t].id
<1>0. /\ call \in [Threads -> Calls] /\ quic \in [Ids -> Quics] /\ connections \in [Ids -> Connections]
      /\ call[t] \in Calls
      /\ call[t].pc # "idle" => c \in Ids /\ c < next
      /\ call[t].pc \in Allocating => k \in Ids /\ k < next
      /\ call[t].connection # 0 => call[t].connection \in Ids /\ connections[call[t].connection].state # "none"
  BY InNames
<1>1. /\ call[t].pc = "dial" /\ call[t].pc \in Allocating
      /\ UNCHANGED <<next, known, handles, callback>>
  BY DEF ConnectOpens, Running, table, Allocating
<1>2. CASE Go(t, "undo") /\ UNCHANGED <<quic, connections>>
  <2> DEFINE r == [call[t] EXCEPT !.pc = "undo"]
  <2>1. call' = [call EXCEPT ![t] = r]
    BY <1>0, <1>2 DEF Go
  <2>2. GoesOnAs(call[t], r) /\ r.connection = call[t].connection
    BY <1>0, <1>1 DEF GoesOnAs, Allocating, Dialling, Releasing, Connected, Calls
  <2> HIDE DEF c, k, r
  <2> QED BY <1>0, <1>1, <1>2, <2>1, <2>2, TablesKept, NamesOfCall
<1>3. CASE /\ quic' = [quic EXCEPT ![c].connection = k]
           /\ connections' = [connections EXCEPT ![k] = [state |-> "open", client |-> c]]
           /\ Become(t, [call[t] EXCEPT !.pc = "start", !.connection = k])
  <2> DEFINE r == [call[t] EXCEPT !.pc = "start", !.connection = k]
  <2>0. c \in Ids /\ c < next /\ k \in Ids /\ k < next /\ connections[k].state = "none" /\ k # 0
    BY <1>0, <1>1, Shapes DEF NamesInv, ConnectionsOfClients
  <2>1. /\ call'[t] = r /\ \A u \in Threads : u # t => call'[u] = call[u]
    BY <1>0, <1>3 DEF Become
  <2>2. r.pc = "start" /\ r.connection = k /\ r.client = c /\ r.id = k /\ r.native = call[t].native
    BY <1>0 DEF Calls
  <2>3. /\ connections'[k].state = "open" /\ connections'[k].client = c
        /\ \A j \in Ids : j # k => connections'[j] = connections[j]
    BY <1>0, <1>3, <2>0
  <2>4. /\ \A d \in Ids : /\ quic'[d].address = quic[d].address /\ quic'[d].life = quic[d].life
                          /\ quic'[d].streams = quic[d].streams
                          /\ quic'[d].connection = (IF d = c THEN k ELSE quic[d].connection)
                          /\ d # c => quic'[d] = quic[d]
    <3>1. \A d \in Ids : d # c => quic'[d] = quic[d]
      BY <1>0, <1>3
    <3>2. quic'[c] = [quic[c] EXCEPT !.connection = k] /\ quic[c] \in Quics
      BY <1>0, <1>3, <2>0
    <3> QED BY <3>1, <3>2 DEF Quics
  <2> HIDE DEF c, k, r
  <2>5. /\ FreshIsFree /\ InFlight /\ ListedIds /\ ConnectionsOfClients /\ ClientsOfCalls /\ OneAddress
        /\ AttachesToOwn /\ PeerStreamsStayWithClient
    BY DEF NamesInv
  <2>6. ~(c >= next) /\ ~(k >= next)
    BY <2>0, Shapes
  <2>7. FreshIsFree'
    BY <1>1, <2>3, <2>4, <2>5, <2>6 DEF FreshIsFree
  <2>8. InFlight'
    BY <1>1, <2>1, <2>2, <2>5 DEF InFlight, k
  <2>9. ListedIds'
    <3>1. \A u \in Threads : call[u].pc \in {"prefix", "unlist"} => call'[u] = call[u]
      BY <1>1, <2>1
    <3> QED BY <1>1, <2>4, <2>5, <3>1 DEF ListedIds
  <2>10. ConnectionsOfClients'
    <3>1. \A j \in Ids : connections'[j].state # "none" => connections'[j].client \in Ids /\ connections'[j].client < next'
      BY <1>1, <2>0, <2>3, <2>5 DEF ConnectionsOfClients
    <3>2. ASSUME NEW u \in Threads, call'[u].pc \in Dialling
          PROVE  connections'[call'[u].id].state = "none"
      <4>1. u # t /\ call'[u] = call[u] /\ call[u].pc \in Allocating
        BY <2>1, <2>2, <3>2 DEF Dialling, Allocating
      <4>2. call[u].id # k /\ call[u].id \in Ids
        BY <1>1, <2>5, <4>1, Shapes DEF InFlight, k
      <4>3. connections[call[u].id].state = "none"
        BY <2>5, <3>2, <4>1 DEF ConnectionsOfClients, Dialling
      <4> QED BY <2>3, <4>1, <4>2, <4>3
    <3>3. ASSUME NEW u \in Threads, call'[u].pc \in {"start", "forget"}
          PROVE  connections'[call'[u].id].state # "none"
      <4>1. CASE u = t
        BY <2>1, <2>2, <2>3, <4>1
      <4>2. CASE u # t
        <5>1. call'[u] = call[u] /\ call[u].id \in Ids
          BY <2>1, <3>3, <4>2, Shapes DEF Allocating
        <5>2. connections[call[u].id].state # "none"
          BY <2>5, <3>3, <5>1 DEF ConnectionsOfClients
        <5> QED BY <2>3, <5>1, <5>2
      <4> QED BY <4>1, <4>2
    <3>4. \A u \in Threads : call'[u].pc \in Connected => call'[u].connection # 0
      BY <2>0, <2>1, <2>2, <2>5 DEF ConnectionsOfClients
    <3>5. ASSUME NEW u \in Threads, call'[u].connection # 0
          PROVE  connections'[call'[u].connection].state # "none"
      <4>1. CASE u = t
        BY <2>1, <2>2, <2>3, <4>1
      <4>2. CASE u # t
        <5>1. call'[u] = call[u] /\ call[u].connection \in Ids
          BY <2>1, <3>5, <4>2, Shapes
        <5>2. connections[call[u].connection].state # "none"
          BY <2>5, <3>5, <5>1 DEF ConnectionsOfClients
        <5> QED BY <2>3, <5>1, <5>2
      <4> QED BY <4>1, <4>2
    <3>6. ASSUME NEW d \in Ids, quic'[d].connection # 0
          PROVE  connections'[quic'[d].connection].state # "none"
      <4>1. CASE d = c
        BY <2>3, <2>4, <4>1
      <4>2. CASE d # c
        <5>1. quic'[d].connection = quic[d].connection /\ quic[d].connection \in Ids
          BY <2>4, <3>6, <4>2, Shapes
        <5>2. connections[quic[d].connection].state # "none"
          BY <2>5, <3>6, <5>1 DEF ConnectionsOfClients
        <5> QED BY <2>3, <5>1, <5>2
      <4> QED BY <4>1, <4>2
    <3>7. \A j \in Ids : callback'[j].pc # "idle" => connections'[j].state = "started"
      BY <1>1, <2>0, <2>3, <2>5 DEF ConnectionsOfClients
    <3> QED BY <3>1, <3>2, <3>3, <3>4, <3>5, <3>6, <3>7 DEF ConnectionsOfClients, Dialling
  <2>11. ClientsOfCalls'
    <3>1. \A u \in Threads : call'[u].pc # "idle" => call'[u].client < next'
      BY <1>1, <2>0, <2>1, <2>2, <2>5 DEF ClientsOfCalls
    <3>2. \A u \in Threads : call'[u].pc \in Releasing => ~Found(call[u].client, "client")'
      BY <1>1, <2>1, <2>2, <2>5 DEF ClientsOfCalls, Releasing, Found
    <3> QED BY <3>1, <3>2 DEF ClientsOfCalls, Releasing
  <2>12. OneAddress'
    BY <1>1, <2>4, <2>5 DEF OneAddress, Found
  <2>13. AttachesToOwn'
    <3>1. \A j \in Ids : callback[j].pc # "idle" => j # k /\ connections'[j] = connections[j] /\ connections[j].client \in Ids
      BY <2>0, <2>3, <2>5 DEF ConnectionsOfClients
    <3>2. \A j \in Ids : callback'[j].pc = "accept" /\ Found(connections[j].client, "client")' =>
            callback'[j].address = quic'[connections'[j].client].address
      BY <1>1, <2>4, <2>5, <3>1 DEF AttachesToOwn, Found
    <3>3. \A j \in Ids : callback'[j].pc = "list" /\ Found(connections[j].client, "client")' /\ Found(callback[j].id, "stream")' =>
            handles'[callback'[j].id].client = connections'[j].client
      BY <1>1, <2>5, <3>1 DEF AttachesToOwn, Found
    <3>4. \A u \in Threads : call'[u].pc \in {"open", "opening", "list"} /\ Found(call[u].id, "stream")' =>
            handles'[call'[u].id].client = call'[u].client
      BY <1>1, <2>1, <2>2, <2>5 DEF AttachesToOwn, Found
    <3> QED BY <3>2, <3>3, <3>4 DEF AttachesToOwn
  <2>14. PeerStreamsStayWithClient'
    BY <1>1, <2>4, <2>5 DEF PeerStreamsStayWithClient, Found
  <2> QED BY <2>7, <2>8, <2>9, <2>10, <2>11, <2>12, <2>13, <2>14 DEF NamesInv
<1> QED BY <1>2, <1>3 DEF ConnectOpens

\* A step that lists a stream.
LEMMA NamesListed ==
  ASSUME IInv, IInv', NamesInv, NEW c \in Ids, c < next, NEW e \in Entries,
         UNCHANGED <<next, known, handles, connections>>,
         quic' = [quic EXCEPT ![c].streams = @ \cup {e}],
         \A u \in Threads : \/ call'[u] = call[u]
                            \/ call[u].pc = "list" /\ call'[u] = [call[u] EXCEPT !.pc = "prefix"],
         \A k \in Ids : callback'[k] = callback[k] \/ callback'[k].pc = "idle",
         \/ e.id \in known
         \/ \E u \in Threads : call'[u].pc = "prefix" /\ call'[u].id = e.id /\ call'[u].client = c /\ call'[u].native = e.native,
         Found(c, "client") /\ Found(e.id, "stream") => handles[e.id].client = c
  PROVE  NamesInv'
<1>0. /\ FreshIsFree /\ InFlight /\ ListedIds /\ ConnectionsOfClients /\ ClientsOfCalls /\ OneAddress
      /\ AttachesToOwn /\ PeerStreamsStayWithClient
  BY DEF NamesInv
<1>1. /\ quic'[c].streams = quic[c].streams \cup {e}
      /\ \A d \in Ids : /\ quic'[d].address = quic[d].address /\ quic'[d].life = quic[d].life
                        /\ quic'[d].connection = quic[d].connection
                        /\ d # c => quic'[d] = quic[d]
  <2>1. quic \in [Ids -> Quics] /\ quic[c] \in Quics
    BY Shapes DEF IInv, TypeOK
  <2>2. quic'[c] = [quic[c] EXCEPT !.streams = quic[c].streams \cup {e}] /\ \A d \in Ids : d # c => quic'[d] = quic[d]
    BY <2>1
  <2> QED BY <2>1, <2>2 DEF Quics
<1>2. \A u \in Threads : /\ call'[u].id = call[u].id /\ call'[u].client = call[u].client /\ call'[u].native = call[u].native
                         /\ call'[u].connection = call[u].connection
                         /\ call'[u].pc = call[u].pc \/ (call[u].pc = "list" /\ call'[u].pc = "prefix")
  <2>1. ASSUME NEW u \in Threads
        PROVE  /\ call'[u].id = call[u].id /\ call'[u].client = call[u].client /\ call'[u].native = call[u].native
               /\ call'[u].connection = call[u].connection
               /\ call'[u].pc = call[u].pc \/ (call[u].pc = "list" /\ call'[u].pc = "prefix")
    <3>1. call[u] \in Calls
      BY Shapes
    <3> QED BY <3>1 DEF Calls
  <2> QED BY <2>1
<1>3. ~(c >= next)
  BY Shapes
<1>4. FreshIsFree'
  BY <1>0, <1>1, <1>3 DEF FreshIsFree
<1>5. InFlight'
  <2>1. \A u \in Threads : call'[u].pc \in Allocating => call[u].pc \in Allocating
    BY <1>2 DEF Allocating
  <2> QED BY <1>0, <1>2, <2>1 DEF InFlight
<1>6. ListedIds'
  <2>1. \A k \in Ids : callback'[k].pc = "list" => callback'[k].id \in known'
    BY <1>0 DEF ListedIds
  <2>2. ASSUME NEW d \in Ids, NEW f \in quic'[d].streams, f.id \notin known'
        PROVE  \E u \in Threads : /\ call'[u].pc \in {"prefix", "unlist"}
                             /\ call'[u].id = f.id /\ call'[u].client = d /\ call'[u].native = f.native
    <3>1. CASE d = c /\ f = e
      BY <2>2, <3>1
    <3>2. CASE f \in quic[d].streams
      <4>1. PICK u \in Threads : /\ call[u].pc \in {"prefix", "unlist"}
                                 /\ call[u].id = f.id /\ call[u].client = d /\ call[u].native = f.native
        BY <1>0, <2>2, <3>2 DEF ListedIds
      <4> QED BY <1>2, <4>1
    <3> QED BY <1>1, <2>2, <3>1, <3>2
  <2> QED BY <2>1, <2>2 DEF ListedIds
<1>7. ConnectionsOfClients'
  <2>1. /\ \A u \in Threads : call'[u].pc \in {"connect", "replace", "dial"} => call[u].pc = call'[u].pc
        /\ \A u \in Threads : call'[u].pc \in {"start", "forget"} => call[u].pc = call'[u].pc
        /\ \A u \in Threads : call'[u].pc \in Connected => call[u].pc = call'[u].pc
    BY <1>2 DEF Connected
  <2> QED BY <1>0, <1>1, <1>2, <2>1 DEF ConnectionsOfClients
<1>8. ClientsOfCalls'
  <2>1. \A u \in Threads : call'[u].pc # "idle" => call'[u].client < next'
    BY <1>0, <1>2 DEF ClientsOfCalls
  <2>2. ASSUME NEW u \in Threads, call'[u].pc \in Releasing
        PROVE  ~Found(call[u].client, "client")'
    <3>1. call[u].pc \in Releasing /\ call'[u].client = call[u].client
      BY <1>2, <2>2 DEF Releasing
    <3>2. ~Found(call[u].client, "client")
      BY <1>0, <2>2, <3>1 DEF ClientsOfCalls, Releasing
    <3> QED BY <3>1, <3>2 DEF Found
  <2> QED BY <2>1, <2>2 DEF ClientsOfCalls, Releasing, Found
<1>9. OneAddress'
  BY <1>0, <1>1 DEF OneAddress, Found
<1>10. AttachesToOwn'
  <2>1. \A k \in Ids : callback'[k].pc = "accept" /\ Found(connections[k].client, "client")' =>
            callback'[k].address = quic'[connections'[k].client].address
    BY <1>0, <1>1 DEF AttachesToOwn, ConnectionsOfClients, Found
  <2>2. \A k \in Ids : callback'[k].pc = "list" /\ Found(connections[k].client, "client")' /\ Found(callback[k].id, "stream")' =>
            handles'[callback'[k].id].client = connections'[k].client
    BY <1>0 DEF AttachesToOwn, Found
  <2>3. \A u \in Threads : call'[u].pc \in {"open", "opening", "list"} /\ Found(call[u].id, "stream")' =>
            handles'[call'[u].id].client = call'[u].client
    BY <1>0, <1>2 DEF AttachesToOwn, Found
  <2> QED BY <2>1, <2>2, <2>3 DEF AttachesToOwn
<1>11. PeerStreamsStayWithClient'
  <2>1. ASSUME NEW d \in Ids, Found(d, "client"), NEW f \in quic'[d].streams, Found(f.id, "stream")
        PROVE  handles[f.id].client = d
    <3>1. f \in quic[d].streams \/ (d = c /\ f = e)
      BY <1>1, <2>1
    <3> QED BY <1>0, <2>1, <3>1 DEF PeerStreamsStayWithClient
  <2> QED BY <2>1 DEF PeerStreamsStayWithClient, Found
<1> QED BY <1>4, <1>5, <1>6, <1>7, <1>8, <1>9, <1>10, <1>11 DEF NamesInv

LEMMA ListNames ==
  ASSUME IInv, IInv', NamesInv, NEW t \in Threads, ListStream(t, TRUE)
  PROVE  NamesInv'
<1> DEFINE c == call[t].client
           e == Entry(call[t].id, call[t].native)
<1>0. /\ call \in [Threads -> Calls] /\ call[t] \in Calls
      /\ call[t].pc # "idle" => c \in Ids /\ c < next
      /\ call[t].pc \in Allocating => call[t].id \in Ids /\ call[t].id < next
  BY InNames
<1>1. /\ call[t].pc = "list" /\ quic' = [quic EXCEPT ![c].streams = @ \cup {e}]
      /\ call' = [call EXCEPT ![t].pc = "prefix"]
      /\ UNCHANGED <<next, known, handles, connections, callback>>
  BY DEF ListStream, Running, Go, table
<1>2. c \in Ids /\ c < next /\ e \in Entries /\ e.id = call[t].id /\ e.native = call[t].native
  <2>1. call[t].pc \in Allocating /\ call[t].native \in NativeStreams
    BY <1>1 DEF Allocating, IInv, WhatCallsHold
  <2> QED BY <1>0, <1>1, <2>1 DEF Entry, Entries
<1>3. /\ call'[t] = [call[t] EXCEPT !.pc = "prefix"]
      /\ \A u \in Threads : u # t => call'[u] = call[u]
  BY <1>0, <1>1
<1>4. call'[t].pc = "prefix" /\ call'[t].id = e.id /\ call'[t].client = c /\ call'[t].native = e.native
  BY <1>0, <1>2, <1>3 DEF Calls
<1>5. Found(e.id, "stream") => handles[e.id].client = c
  BY <1>1, <1>2 DEF NamesInv, AttachesToOwn
<1>6. \A u \in Threads : \/ call'[u] = call[u]
                         \/ call[u].pc = "list" /\ call'[u] = [call[u] EXCEPT !.pc = "prefix"]
  BY <1>1, <1>3
<1>7. \A k \in Ids : callback'[k] = callback[k] \/ callback'[k].pc = "idle"
  BY <1>1
<1> HIDE DEF c, e
<1>8. \E u \in Threads : call'[u].pc = "prefix" /\ call'[u].id = e.id /\ call'[u].client = c /\ call'[u].native = e.native
  BY <1>4
<1>9. Found(c, "client") /\ Found(e.id, "stream") => handles[e.id].client = c
  BY <1>5
<1> QED BY <1>1, <1>2, <1>6, <1>7, <1>8, <1>9, NamesListed

LEMMA CallbackNames ==
  ASSUME IInv, IInv', NamesInv, NEW k \in Ids, Callbacks(k)
  PROVE  NamesInv'
<1> DEFINE c == connections[k].client
<1>0. /\ callback \in [Ids -> CallbackStates] /\ quic \in [Ids -> Quics] /\ callback[k] \in CallbackStates
      /\ connections[k].state # "none" => c \in Ids /\ c < next
      /\ callback[k].pc # "idle" => connections[k].state = "started"
      /\ NoCallback.pc = "idle"
  BY CallKinds, Shapes DEF IInv, TypeOK, NamesInv, ConnectionsOfClients
<1>1. ASSUME NEW q \in NativeStreams, PeerStreamStarted(k, q) PROVE NamesInv'
  <2> DEFINE r == [NoCallback EXCEPT !.pc = "accept", !.native = q, !.address = quic[c].address]
  <2>1. /\ callback' = [callback EXCEPT ![k] = r] /\ connections[k].state = "started"
        /\ UNCHANGED <<next, known, handles, quic, connections, call>>
    BY <1>1 DEF PeerStreamStarted, CallbackBegins, table
  <2>2. r.pc = "accept" /\ r.address = quic[c].address
    BY DEF NoCallback
  <2>3. callback'[k] = r /\ \A j \in Ids : j # k => callback'[j] = callback[j]
    BY <1>0, <2>1
  <2> HIDE DEF r
  <2>4. \A j \in Ids : CallsBackAs(j)
    BY <2>1, <2>2, <2>3 DEF CallsBackAs
  <2> QED BY <2>1, <2>4, TablesKept, NamesOfOthers
<1>2. ASSUME NEW q \in NativeStreams, NEW complete \in BOOLEAN, StreamEvent(k, q, complete) PROVE NamesInv'
  <2> DEFINE r == [NoCallback EXCEPT !.pc = IF complete THEN "complete" ELSE "data", !.native = q]
  <2>1. /\ callback' = [callback EXCEPT ![k] = r] /\ connections[k].state = "started"
        /\ UNCHANGED <<next, known, handles, quic, connections, call>>
    BY <1>2 DEF StreamEvent, CallbackBegins, table
  <2>2. r.pc \in {"data", "complete"}
    BY DEF NoCallback
  <2>3. callback'[k] = r /\ \A j \in Ids : j # k => callback'[j] = callback[j]
    BY <1>0, <2>1
  <2> HIDE DEF r
  <2>4. \A j \in Ids : CallsBackAs(j)
    BY <2>1, <2>2, <2>3 DEF CallsBackAs
  <2> QED BY <2>1, <2>4, TablesKept, NamesOfOthers
<1>6. CASE LookUp(k)
  <2> DEFINE q == callback[k].native
  <2>1. /\ callback[k].pc \in {"data", "complete"} /\ connections[k].state = "started"
        /\ UNCHANGED <<next, known, handles, connections, call>>
    BY <1>0, <1>6 DEF LookUp, table
  <2>2. \A j \in Ids : CallsBackAs(j)
    <3>1. callback'[k].pc \in {"sink", "idle"} /\ \A j \in Ids : j # k => callback'[j] = callback[j]
      <4>1. CASE callback' = [callback EXCEPT ![k].pc = "sink"]
        BY <1>0, <4>1 DEF CallbackStates
      <4>2. CASE CallbackEnds(k)
        BY <1>0, <4>2 DEF CallbackEnds
      <4> QED BY <1>6, <4>1, <4>2 DEF LookUp
    <3> QED BY <2>1, <3>1 DEF CallsBackAs
  <2>3. QuicKept
    <3>1. CASE quic' = quic
      BY <3>1, TablesKept
    <3>2. CASE quic' = [quic EXCEPT ![c].streams = @ \ EntriesAt(c, q)]
      <4> DEFINE d == [quic[c] EXCEPT !.streams = @ \ EntriesAt(c, q)]
      <4>1. c \in Ids /\ c < next /\ quic[c] \in Quics /\ quic' = [quic EXCEPT ![c] = d]
        BY <1>0, <2>1, <3>2
      <4>2. /\ d.address = quic[c].address /\ d.life = quic[c].life /\ d.connection = quic[c].connection
            /\ d.streams = quic[c].streams \ EntriesAt(c, q)
        BY <4>1 DEF Quics
      <4>3. quic[c].connection # 0 => connections[quic[c].connection].state # "none"
        BY <4>1 DEF NamesInv, ConnectionsOfClients
      <4> HIDE DEF c, d
      <4> QED BY <4>1, <4>2, <4>3, ContextKept
    <3> QED BY <1>6, <3>1, <3>2 DEF LookUp
  <2> QED BY <2>1, <2>2, <2>3, TablesKept, NamesOfOthers
<1>3. CASE SinkReturns(k)
  <2>1. /\ callback' = [callback EXCEPT ![k] = NoCallback]
        /\ UNCHANGED <<next, known, handles, quic, connections, call>>
    BY <1>3 DEF SinkReturns, CallbackEnds, table
  <2>2. \A j \in Ids : CallsBackAs(j)
    BY <1>0, <2>1 DEF CallsBackAs
  <2> QED BY <2>1, <2>2, TablesKept, NamesOfOthers
<1>4. CASE wt_accept_peer_stream(k)
  <2>1. /\ callback[k].pc = "accept" /\ UNCHANGED <<quic, connections, call>>
    BY <1>4 DEF wt_accept_peer_stream
  <2>2. ASSUME UNCHANGED <<next, handles, known>>, CallbackEnds(k) PROVE NamesInv'
    <3>1. \A j \in Ids : CallsBackAs(j)
      BY <1>0, <2>1, <2>2 DEF CallsBackAs, CallbackEnds
    <3> QED BY <2>1, <2>2, <3>1, TablesKept, NamesOfOthers
  <2>3. ASSUME NEW d \in ClientsAt(callback[k].address), SessionsOf(d) # {},
               Allocate(StreamHandle(d, Newest(SessionsOf(d)))),
               \/ /\ callback' = [callback EXCEPT ![k].pc = "list", ![k].id = next]
                  /\ known' = known \cup {next}
               \/ /\ CallbackEnds(k)
                  /\ UNCHANGED known
        PROVE  NamesInv'
    <3> DEFINE s == Newest(SessionsOf(d))
               h == StreamHandle(d, s)
    <3>1. /\ next \in Ids /\ next' = next + 1 /\ handles' = [handles EXCEPT ![next] = h]
          /\ d \in Ids /\ Found(d, "client") /\ quic[d].address = callback[k].address
      BY <2>3 DEF ClientsAt, Allocate
    <3>2. s \in Ids
      <4>1. \E m \in SessionsOf(d) : \A x \in SessionsOf(d) : x <= m
        BY HandlesAssumption, <2>3, NewestExists DEF SessionsOf
      <4>2. s \in SessionsOf(d)
        BY <4>1 DEF Newest
      <4> QED BY <4>2 DEF SessionsOf
    <3> HIDE DEF s
    <3>3. h \in Handles /\ h.kind = "stream" /\ h.client = d
      BY <3>1, <3>2, ZeroFits DEF StreamHandle, Handles
    <3> HIDE DEF h
    <3>4. Found(c, "client") => d = c
      <4>1. Found(c, "client") => callback[k].address = quic[c].address /\ quic[c].address # NoNative /\ c \in Ids
        BY <2>1 DEF NamesInv, AttachesToOwn, OneAddress, Found
      <4> QED BY <3>1, <4>1 DEF NamesInv, OneAddress
    <3>5. quic'[next].streams = {} /\ quic'[next].connection = 0 /\ quic'[next].address = NoNative
      <4>1. next >= next
        BY Shapes
      <4> QED BY <2>1, <3>1, <4>1 DEF NamesInv, FreshIsFree, NoQuic
    <3>6. \A j \in Ids : callback'[j] = callback[j] \/ callback'[j].pc = "idle" \/ CallbackGetsId(j, h)
      <4>1. CASE callback' = [callback EXCEPT ![k].pc = "list", ![k].id = next] /\ known' = known \cup {next}
        <5>1. /\ callback'[k] = [callback[k] EXCEPT !.pc = "list", !.id = next]
              /\ \A j \in Ids : j # k => callback'[j] = callback[j]
          BY <1>0, <4>1
        <5>2. callback'[k].pc = "list" /\ callback'[k].id = next
          BY <1>0, <5>1 DEF CallbackStates
        <5> QED BY <2>1, <3>3, <3>4, <4>1, <5>1, <5>2 DEF CallbackGetsId
      <4>2. CASE CallbackEnds(k)
        BY <1>0, <4>2 DEF CallbackEnds
      <4> QED BY <2>3, <4>1, <4>2
    <3>7. \A t \in Threads : call'[t] = call[t]
      BY <2>1
    <3>8. known' = known \/ known' = known \cup {next}
      BY <2>3
    <3>9. \A x \in Ids : x # next => quic'[x] = quic[x]
      BY <2>1
    <3> QED BY <2>1, <3>1, <3>3, <3>5, <3>6, <3>7, <3>8, <3>9, NamesGrown
  <2> QED BY <1>4, <2>2, <2>3 DEF wt_accept_peer_stream, table
<1>5. ASSUME NEW memory \in BOOLEAN, ListPeerStream(k, memory) PROVE NamesInv'
  <2> DEFINE e == Entry(callback[k].id, callback[k].native)
  <2>1. /\ callback[k].pc = "list" /\ callback' = [callback EXCEPT ![k] = NoCallback]
        /\ UNCHANGED <<next, known, handles, connections, call>>
    BY <1>5 DEF ListPeerStream, CallbackEnds, table
  <2>2. CASE quic' = quic
    <3>1. \A j \in Ids : CallsBackAs(j)
      BY <1>0, <2>1 DEF CallsBackAs
    <3> QED BY <2>1, <2>2, <3>1, TablesKept, NamesOfOthers
  <2>3. CASE quic' = [quic EXCEPT ![c].streams = @ \cup {e}]
    <3>1. e \in Entries /\ e.id = callback[k].id
      BY <2>1 DEF IInv, WhatCallsHold, Entry, Entries
    <3>2. e.id \in known
      BY <2>1, <3>1 DEF NamesInv, ListedIds
    <3>3. Found(c, "client") /\ Found(e.id, "stream") => handles[e.id].client = c
      BY <2>1, <3>1 DEF NamesInv, AttachesToOwn
    <3>4. \A j \in Ids : callback'[j] = callback[j] \/ callback'[j].pc = "idle"
      BY <1>0, <2>1
    <3>5. c \in Ids /\ c < next
      BY <1>0, <2>1
    <3>6. \A u \in Threads : call'[u] = call[u]
      BY <2>1
    <3> HIDE DEF c, e
    <3> QED BY <2>1, <2>3, <3>1, <3>2, <3>3, <3>4, <3>5, <3>6, NamesListed
  <2> QED BY <1>5, <2>2, <2>3 DEF ListPeerStream
<1> QED BY <1>1, <1>2, <1>3, <1>4, <1>5, <1>6 DEF Callbacks

-----------------------------------------------------------------------------
LEMMA NamesStep ==
  ASSUME IInv, IInv', NamesInv, [Next]_vars
  PROVE  NamesInv'
<1>1. ASSUME NEW t \in Threads, ClientCalls(t) PROVE NamesInv'
  BY <1>1, ClientNames, BeginNames, GrowthNames, OpenNames, StartNames DEF ClientCalls
<1>2. ASSUME NEW t \in Threads, SessionCalls(t) PROVE NamesInv'
  <2>1. ASSUME NEW ok \in BOOLEAN, ListStream(t, ok) PROVE NamesInv'
    <3>1. CASE ok
      BY <2>1, <3>1, ListNames
    <3>2. CASE ~ok
      <4>1. ListStream(t, FALSE)
        BY <2>1, <3>2
      <4> QED BY <4>1, SessionNames
    <3> QED BY <3>1, <3>2
  <2>2. ASSUME NEW ok \in BOOLEAN, SendPrefix(t, ok) PROVE NamesInv'
    <3>1. CASE ok
      <4>1. SendPrefix(t, TRUE)
        BY <2>2, <3>1
      <4> QED BY <4>1, SessionNames
    <3>2. CASE ~ok
      <4>1. SendPrefix(t, FALSE)
        BY <2>2, <3>2
      <4> QED BY <4>1, SessionNames
    <3> QED BY <3>1, <3>2
  <2> QED BY <1>2, <2>1, <2>2, SessionNames, BeginNames, GrowthNames DEF SessionCalls
<1>3. ASSUME NEW t \in Threads, StreamCalls(t) PROVE NamesInv'
  BY <1>3, SessionNames, BeginNames DEF StreamCalls
<1>4. CASE UNCHANGED vars
  <2>1. \A k \in Ids : CallsBackAs(k)
    BY <1>4 DEF CallsBackAs, vars
  <2>2. UNCHANGED <<next, known, handles, call, quic, connections>>
    BY <1>4 DEF vars
  <2> QED BY <2>1, <2>2, TablesKept, NamesOfOthers
<1> QED BY <1>1, <1>2, <1>3, <1>4, DestroyNames, CallbackNames DEF Next

LEMMA NamesInit ==
  ASSUME Init
  PROVE  NamesInv
<1>1. FreshIsFree /\ InFlight /\ ListedIds /\ ClientsOfCalls /\ AttachesToOwn /\ PeerStreamsStayWithClient
  BY DEF Init, FreshIsFree, InFlight, ListedIds, ClientsOfCalls, AttachesToOwn, PeerStreamsStayWithClient,
         Found, NoQuic, NoCall, NoCallback, NoHandle, Allocating
<1>2. ConnectionsOfClients /\ OneAddress
  BY DEF Init, ConnectionsOfClients, OneAddress, Found, NoQuic, NoCall, NoCallback, NoConnection, NoHandle, Connected
<1> QED BY <1>1, <1>2 DEF NamesInv

LEMMA NamesAlways == Spec => []NamesInv
<1>1. Init => NamesInv
  BY NamesInit
<1>2. IInv /\ IInv' /\ NamesInv /\ [Next]_vars => NamesInv'
  BY NamesStep
<1> QED BY <1>1, <1>2, Invariant, PTL DEF Spec

\* What a call undoes is listed nowhere: the release under the process-wide lock closes
\* no stream, with whatever releases and shutdowns in the middle of the call.
LEMMA UndoneIsUnlisted ==
  ASSUME IInv, NamesInv, NEW t \in Threads, call[t].pc = "undo"
  PROVE  EntriesOf(call[t].client, call[t].id) = {}
<1>1. call[t].client \in Ids /\ call[t].pc \in Allocating
  BY Shapes DEF Allocating
<1>2. ASSUME NEW e \in quic[call[t].client].streams, e.id = call[t].id
      PROVE  FALSE
  <2>1. e.id \notin known
    BY <1>1, <1>2 DEF NamesInv, InFlight
  <2>2. PICK u \in Threads : call[u].pc \in {"prefix", "unlist"} /\ call[u].id = e.id
    BY <1>1, <1>2, <2>1 DEF NamesInv, ListedIds
  <2>3. u # t /\ call[u].pc \in Allocating
    BY <2>2 DEF Allocating
  <2> QED BY <1>1, <1>2, <2>2, <2>3 DEF NamesInv, InFlight
<1> QED BY <1>1, <1>2 DEF EntriesOf

\* The undo of a failed call, which holds the process-wide lock, finds no stream to close.
THEOREM NothingClosesUnderLock == Spec => []NoCloseUnderLock
<1>1. IInv /\ NamesInv => NoCloseUnderLock
  BY UndoneIsUnlisted DEF NoCloseUnderLock, Running
<1> QED BY <1>1, Invariant, NamesAlways, PTL

\* Whatever takes the place of a released client gets none of its peer's streams.
THEOREM PeerStreamsStay == Spec => []PeerStreamsStayWithClient
<1>1. NamesInv => PeerStreamsStayWithClient
  BY DEF NamesInv
<1> QED BY <1>1, NamesAlways, PTL
=============================================================================
