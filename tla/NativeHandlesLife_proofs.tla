---------------------- MODULE NativeHandlesLife_proofs ----------------------
(***************************************************************************)
(* Proofs about NativeHandles: as long as the application overlaps no      *)
(* release, shutdown or connect with another call of the same client, no   *)
(* call, callback or destroy uses a context, connection or stream that is  *)
(* gone, and a destroy leaves no stream behind.                            *)
(*                                                                         *)
(* Life, the invariant, says who may use what: CallsAreServed for clients, *)
(* ConnectionsInUse for connections, StreamsInUse for streams. The steps   *)
(* are taken in groups; what a step leaves alone is told by frame lemmas,  *)
(* one for each part of Life, so that a group proves only what it adds.    *)
(***************************************************************************)
EXTENDS NativeHandles_proofs

-----------------------------------------------------------------------------
(* Clients and connections *)

\* A call works on a live client, and a release has its client to itself.
CallsAreServed ==
  /\ \A t \in Threads : call[t].pc # "idle" =>
       /\ quic[call[t].client].life = "live"
       /\ call[t].pc \in Releasing \/ Found(call[t].client, "client")
  /\ \A t, u \in Threads :
       t # u /\ call[t].pc \in Releasing /\ call[u].pc # "idle" => call[u].client # call[t].client

\* MsQuic has no open connection of a client that is freed.
FreedIsDisconnected ==
  \A c, k \in Ids : Freed(c) /\ connections[k].client = c => connections[k].state = "closed"

\* The connection in a context is the client's own, and closed only while the connect that
\* closed it has not taken it out yet.
ContextIsOpen ==
  \A c \in Ids : quic[c].connection # 0 =>
    /\ connections[quic[c].connection].client = c
    /\ connections[quic[c].connection].state = "closed" =>
         \E t \in Threads : call[t].pc = "forget" /\ call[t].id = quic[c].connection

\* The steps of a call that may close the connection it refers to.
Closers == {"replace", "start", "forget"}

\* A connection a call refers to is its client's, is not closed, and nobody else can close it.
CopiesAreOpen ==
  /\ \A t \in Threads : call[t].connection # 0 =>
       /\ call[t].pc # "idle"
       /\ connections[call[t].connection].client = call[t].client
       /\ connections[call[t].connection].state = "closed" => call[t].pc = "forget"
  /\ \A t \in Threads : call[t].pc \in {"start", "forget"} => call[t].connection = call[t].id
  /\ \A t \in Threads, c \in Ids : call[t].pc = "replace" => quic[c].connection # call[t].connection
  /\ \A t, u \in Threads : t # u /\ call[t].pc \in Closers => call[u].connection # call[t].connection

ConnectionsInUse == FreedIsDisconnected /\ ContextIsOpen /\ CopiesAreOpen

\* A call before and after a step that changes no client.
ServedAs(r, s) ==
  \/ s.pc = "idle"
  \/ r.pc # "idle" /\ s.client = r.client /\ (s.pc \in Releasing <=> r.pc \in Releasing)
  \/ r.pc = "idle" /\ s.pc \notin Releasing /\ Found(s.client, "client")

LEMMA ServedFrame ==
  ASSUME IInv, NamesInv, CallsAreServed,
         \A t \in Threads : ServedAs(call[t], call'[t]),
         \A c \in Ids : quic[c].life = "live" => quic'[c].life = "live",
         \A c \in Ids : handles[c].kind = "client" => handles'[c].kind = "client"
  PROVE  CallsAreServed'
<1>1. ASSUME NEW t \in Threads, call'[t].pc # "idle"
      PROVE  /\ quic'[call'[t].client].life = "live"
             /\ call'[t].pc \in Releasing \/ Found(call[t].client, "client")'
             /\ call'[t].pc \in Releasing => call[t].pc \in Releasing /\ call'[t].client = call[t].client
  <2>0. ServedAs(call[t], call'[t])
    OBVIOUS
  <2>1. CASE call[t].pc # "idle" /\ call'[t].client = call[t].client /\ (call'[t].pc \in Releasing <=> call[t].pc \in Releasing)
    <3>1. call[t].client \in Ids
      BY <2>1, Shapes
    <3>2. quic[call[t].client].life = "live" /\ (call[t].pc \in Releasing \/ Found(call[t].client, "client"))
      BY <2>1 DEF CallsAreServed
    <3> QED BY <2>1, <3>1, <3>2 DEF Found
  <2>2. CASE call[t].pc = "idle" /\ call'[t].pc \notin Releasing /\ Found(call'[t].client, "client")
    <3>1. call'[t].client \in Ids /\ quic[call'[t].client].life = "live"
      BY <2>2 DEF Found, NamesInv, OneAddress
    <3> QED BY <2>2, <3>1 DEF Found
  <2> QED BY <1>1, <2>0, <2>1, <2>2 DEF ServedAs
<1>2. ASSUME NEW t \in Threads, NEW u \in Threads, t # u, call'[t].pc \in Releasing, call'[u].pc # "idle"
      PROVE  call'[u].client # call'[t].client
  <2>1. call[t].pc \in Releasing /\ call'[t].client = call[t].client /\ ServedAs(call[u], call'[u])
    BY <1>1, <1>2 DEF Releasing
  <2>2. CASE call[u].pc # "idle" /\ call'[u].client = call[u].client
    BY <1>2, <2>1, <2>2 DEF CallsAreServed
  <2>3. CASE Found(call'[u].client, "client")
    BY <2>1, <2>3 DEF NamesInv, ClientsOfCalls, Releasing
  <2> QED BY <1>2, <2>1, <2>2, <2>3 DEF ServedAs
<1> QED BY <1>1, <1>2 DEF CallsAreServed, Found

\* A call before and after a step that takes up no connection.
ConnectsAs(r, s) ==
  /\ r.pc = "forget" => s = r
  /\ \/ s = r
     \/ s.connection = 0 /\ s.pc \notin Closers
     \/ s.connection = r.connection /\ s.client = r.client /\ s.pc \notin Closers /\ s.pc # "idle"

LEMMA ConnectionsFrame ==
  ASSUME IInv, NamesInv, ConnectionsInUse, UNCHANGED connections,
         \A t \in Threads : ConnectsAs(call[t], call'[t]),
         \A c \in Ids : quic'[c].connection \in {0, quic[c].connection} /\ (quic'[c].life = "freed" => Freed(c))
  PROVE  ConnectionsInUse'
<1>1. FreedIsDisconnected'
  BY DEF ConnectionsInUse, FreedIsDisconnected, Freed
<1>2. ContextIsOpen'
  <2>1. \A t \in Threads : call[t].pc = "forget" => call'[t] = call[t]
    BY DEF ConnectsAs
  <2> QED BY <2>1 DEF ConnectionsInUse, ContextIsOpen
<1>3. CopiesAreOpen'
  <2>0. \A t \in Threads : ConnectsAs(call[t], call'[t])
    OBVIOUS
  <2>1. ASSUME NEW t \in Threads
        PROVE  /\ call'[t].pc \in Closers => call'[t] = call[t]
               /\ call[t].pc = "forget" => call'[t] = call[t]
               /\ call'[t].connection # 0 => \/ call'[t] = call[t]
                                             \/ /\ call'[t].pc # "idle"
                                                /\ call'[t].connection = call[t].connection
                                                /\ call'[t].client = call[t].client
    BY <2>0 DEF ConnectsAs, Closers
  <2>2. ASSUME NEW t \in Threads, call'[t].connection # 0
        PROVE  /\ call'[t].pc # "idle"
               /\ connections'[call'[t].connection].client = call'[t].client
               /\ connections'[call'[t].connection].state = "closed" => call'[t].pc = "forget"
    <3>1. /\ call[t].connection # 0 /\ call'[t].connection = call[t].connection /\ call'[t].client = call[t].client
          /\ call'[t].pc # "idle"
      BY <2>1, <2>2 DEF ConnectionsInUse, CopiesAreOpen
    <3> QED BY <2>1, <3>1 DEF ConnectionsInUse, CopiesAreOpen
  <2>3. \A t \in Threads : call'[t].pc \in {"start", "forget"} => call'[t].connection = call'[t].id
    BY <2>1 DEF ConnectionsInUse, CopiesAreOpen, Closers
  <2>4. ASSUME NEW t \in Threads, NEW c \in Ids, call'[t].pc = "replace"
        PROVE  quic'[c].connection # call'[t].connection
    <3>1. call'[t] = call[t] /\ call[t].connection # 0
      BY <2>1, <2>4 DEF Closers, NamesInv, ConnectionsOfClients, Connected
    <3> QED BY <2>4, <3>1 DEF ConnectionsInUse, CopiesAreOpen
  <2>5. ASSUME NEW t \in Threads, NEW u \in Threads, t # u, call'[t].pc \in Closers
        PROVE  call'[u].connection # call'[t].connection
    <3>1. call'[t] = call[t] /\ call[t].connection # 0
      BY <2>1, <2>5 DEF Closers, NamesInv, ConnectionsOfClients, Connected
    <3>2. call'[u].connection \in {0, call[u].connection}
      BY <2>1
    <3> QED BY <2>5, <3>1, <3>2 DEF ConnectionsInUse, CopiesAreOpen
  <2> QED BY <2>2, <2>3, <2>4, <2>5 DEF CopiesAreOpen
<1> QED BY <1>1, <1>2, <1>3 DEF ConnectionsInUse

-----------------------------------------------------------------------------
(* Streams *)

\* The client a stream that MsQuic has, or had, belongs to.
Home(q) == connections[native[q].connection].client
Whole(q, c) == native[q].state \notin {"unused", "closed"} /\ Home(q) = c
Unfinished(q) == native[q].state \in {"open", "cut"}

\* The steps of calls and callbacks that have a stream to put on a list or to close.
Holding == {"list", "prefix", "unlist", "close"}
Backing == {"accept", "list"}

StreamsHaveHomes ==
  \A q \in NativeStreams : native[q].state # "unused" =>
    native[q].connection \in Ids /\ connections[native[q].connection].state # "none"

\* A stream a call holds is held by no other call, is on no list but under the id of the
\* call, and is closed only until the call has taken it off.
HeldByCalls ==
  /\ \A t \in Threads : call[t].pc \in Holding =>
       /\ native[call[t].native].state # "unused"
       /\ Home(call[t].native) = call[t].client
       /\ native[call[t].native].state = "closed" <=> call[t].pc = "unlist"
  /\ \A t, u \in Threads :
       t # u /\ call[t].pc \in Holding /\ call[u].pc \in Holding => call[t].native # call[u].native
  /\ \A t \in Threads, c \in Ids : call[t].pc \in Holding =>
       \A e \in EntriesAt(c, call[t].native) : call[t].pc \in {"prefix", "unlist"} /\ e.id = call[t].id

\* A stream that just came is open, and on no list.
HeldByCallbacks ==
  \A k \in Ids : callback[k].pc \in Backing =>
    /\ native[callback[k].native] = [state |-> "open", connection |-> k]
    /\ \A t \in Threads : call[t].pc \in Holding => call[t].native # callback[k].native
    /\ \A c \in Ids : callback[k].native \notin Listed(c) \cup quic[c].doomed

\* A list has the streams of its client, each once, and a closed one only while the call
\* that closed it has not taken it off yet.
HeldByLists ==
  /\ \A c \in Ids : \A e \in quic[c].streams :
       /\ native[e.native].state # "unused"
       /\ Home(e.native) = c
       /\ native[e.native].state = "closed" =>
            \E t \in Threads : call[t].pc = "unlist" /\ call[t].native = e.native
  /\ \A c \in Ids : \A e, f \in quic[c].streams : e.native = f.native => e = f

HeldByDestroys ==
  \A c \in Ids : \A q \in quic[c].doomed :
    Whole(q, c) /\ q \notin Listed(c) /\ quic[c].life = "closing"

\* A call that sends has a stream handle, one that closes has released it.
OnStreams ==
  /\ \A t \in Threads : call[t].pc \in {"send", "sending", "closing"} => call[t].id \in known
  /\ \A t \in Threads : call[t].pc \in {"send", "sending"} =>
       handles[call[t].id].kind = "stream" /\ handles[call[t].id].client = call[t].client
  /\ \A t \in Threads : call[t].pc = "closing" => handles[call[t].id].kind = "none"

\* The streams that calls use after the lock under which they found them.
Referred(q) == \E t \in Threads : \/ call[t].pc = "sending" /\ call[t].native = q
                                \/ q \in call[t].rest

\* They are open, their client's, and nobody holds them to close them, or can find them
\* to close them.
InUse ==
  /\ \A q \in NativeStreams : Referred(q) =>
       /\ \A t \in Threads : call[t].pc \in Holding => call[t].native # q
       /\ \A k \in Ids : callback[k].pc \in Backing => callback[k].native # q
  /\ \A t \in Threads : call[t].pc = "sending" =>
       /\ Whole(call[t].native, call[t].client)
       /\ \A e \in EntriesAt(call[t].client, call[t].native) : e.id = call[t].id
  /\ \A t \in Threads : call[t].rest # {} => call[t].pc \in {"abort", "abort released"}
  /\ \A t \in Threads : \A q \in call[t].rest :
       /\ Whole(q, call[t].client)
       /\ \A u \in Threads : call[u].pc = "closing" =>
            \A e \in EntriesOf(call[u].client, call[u].id) : e.native # q

\* An unfinished stream is somebody's, or nobody ever owned it.
Kept(q) ==
  \/ q \in abandoned
  \/ \E t \in Threads : call[t].pc \in Holding /\ call[t].native = q
  \/ \E k \in Ids : callback[k].pc \in Backing /\ callback[k].native = q
  \/ \E c \in Ids : q \in Listed(c) \cup quic[c].doomed

NothingForgotten ==
  /\ \A q \in NativeStreams : Unfinished(q) => Kept(q)
  /\ \A t \in Threads : call[t].pc = "prefix" /\ Unfinished(call[t].native) =>
       call[t].native \in Listed(call[t].client)
  /\ \A c \in Ids : quic[c].life \in {"closing", "freed"} => Listed(c) \subseteq abandoned

StreamsInUse ==
  /\ StreamsHaveHomes
  /\ HeldByCalls
  /\ HeldByCallbacks
  /\ HeldByLists
  /\ HeldByDestroys
  /\ OnStreams
  /\ InUse
  /\ NothingForgotten

-----------------------------------------------------------------------------
(* Each part, over steps that add nothing to it *)

NativesKeep ==
  \A q \in NativeStreams : native[q].state # "unused" =>
    native'[q].state # "unused" /\ native'[q].connection = native[q].connection
ClientsKeep ==
  \A k \in Ids : connections[k].state # "none" =>
    connections'[k].state # "none" /\ connections'[k].client = connections[k].client

\* A call that holds a stream has done so before the step, at the same place.
HeldAsBefore(t) ==
  call'[t].pc \in Holding =>
    /\ call'[t].pc = call[t].pc /\ call'[t].native = call[t].native
    /\ call'[t].client = call[t].client /\ call'[t].id = call[t].id
BackedAsBefore(k) ==
  callback'[k].pc \in Backing => callback[k].pc \in Backing /\ callback'[k].native = callback[k].native

NativelyTyped ==
  /\ \A t \in Threads : call[t].pc \in Holding \cup {"sending"} => call[t].native \in NativeStreams
  /\ \A t \in Threads : call[t].pc # "idle" => call[t].client \in Ids
  /\ \A t \in Threads : call[t].rest \subseteq NativeStreams
  /\ \A k \in Ids : callback[k].pc \in Backing => callback[k].native \in NativeStreams
  /\ \A c \in Ids : quic[c].doomed \subseteq NativeStreams
  /\ \A c \in Ids : \A e \in quic[c].streams : e.native \in NativeStreams /\ e.id \in Ids

LEMMA Natively == IInv => NativelyTyped
<1> SUFFICES ASSUME IInv PROVE NativelyTyped
  OBVIOUS
<1>1. WhatCallsHold
  BY DEF IInv
<1>2. \A c \in Ids : \A e \in quic[c].streams : e.native \in NativeStreams /\ e.id \in Ids
  BY Shapes DEF Entries
<1> QED BY <1>1, <1>2, Shapes DEF WhatCallsHold, Holding, Backing, NativelyTyped

LEMMA NativelyNext == IInv' => NativelyTyped'
  BY Natively, PTL

LEMMA HomesFrame ==
  ASSUME IInv, StreamsHaveHomes, NativesKeep, ClientsKeep
  PROVE  \A q \in NativeStreams : native[q].state # "unused" =>
           /\ Home(q)' = Home(q) /\ native'[q].state # "unused"
           /\ native'[q].connection \in Ids /\ connections'[native'[q].connection].state # "none"
  BY DEF StreamsHaveHomes, NativesKeep, ClientsKeep, Home

LEMMA HeldByCallsFrame ==
  ASSUME IInv, IInv', StreamsHaveHomes, HeldByCalls, NativesKeep, ClientsKeep,
         \A t \in Threads : HeldAsBefore(t),
         \A t \in Threads : call'[t].pc \in Holding =>
           (native'[call[t].native].state = "closed" <=> native[call[t].native].state = "closed"),
         \A t \in Threads, c \in Ids : call'[t].pc \in Holding =>
           \A e \in quic'[c].streams : e \in quic[c].streams \/ e.native # call[t].native
  PROVE  HeldByCalls'
<1>1. ASSUME NEW t \in Threads, call'[t].pc \in Holding
      PROVE  /\ native'[call'[t].native].state # "unused"
             /\ Home(call[t].native)' = call'[t].client
             /\ native'[call'[t].native].state = "closed" <=> call'[t].pc = "unlist"
             /\ call[t].pc \in Holding /\ call'[t].native = call[t].native /\ call'[t].id = call[t].id
             /\ call'[t].pc = call[t].pc
  <2>1. HeldAsBefore(t)
    OBVIOUS
  <2>2. /\ call[t].pc \in Holding /\ call'[t].native = call[t].native /\ call'[t].id = call[t].id
        /\ call'[t].pc = call[t].pc /\ call'[t].client = call[t].client
    BY <1>1, <2>1 DEF HeldAsBefore
  <2>3. call[t].native \in NativeStreams
    BY <2>2, Natively DEF NativelyTyped
  <2>4. /\ native[call[t].native].state # "unused"
        /\ Home(call[t].native) = call[t].client
        /\ native[call[t].native].state = "closed" <=> call[t].pc = "unlist"
    BY <2>2 DEF HeldByCalls
  <2>5. Home(call[t].native)' = Home(call[t].native) /\ native'[call[t].native].state # "unused"
    <3> DEFINE q == call[t].native
    <3>1. native[q].state # "unused" /\ q \in NativeStreams
      BY <2>3, <2>4
    <3> QED BY <2>2, <3>1, HomesFrame DEF Home
  <2> QED BY <1>1, <2>2, <2>4, <2>5
<1>2. \A t, u \in Threads :
       t # u /\ call'[t].pc \in Holding /\ call'[u].pc \in Holding => call'[t].native # call'[u].native
  BY <1>1 DEF HeldByCalls
<1>3. ASSUME NEW t \in Threads, NEW c \in Ids, call'[t].pc \in Holding, NEW e \in quic'[c].streams,
             e.native = call'[t].native
      PROVE  call'[t].pc \in {"prefix", "unlist"} /\ e.id = call'[t].id
  BY <1>1, <1>3 DEF HeldByCalls, EntriesAt
<1> QED BY <1>1, <1>2, <1>3 DEF HeldByCalls, EntriesAt

LEMMA HeldByCallbacksFrame ==
  ASSUME IInv, NamesInv, HeldByCallbacks, 
         \A k \in Ids : BackedAsBefore(k),
         \A k \in Ids : callback'[k].pc \in Backing => native'[callback[k].native] = native[callback[k].native],
         \A k \in Ids, t \in Threads : callback'[k].pc \in Backing /\ call'[t].pc \in Holding =>
           HeldAsBefore(t) \/ call'[t].native # callback[k].native,
         \A k, c \in Ids : callback'[k].pc \in Backing =>
           /\ \A e \in quic'[c].streams : e \in quic[c].streams \/ e.native # callback[k].native
           /\ quic'[c].doomed \subseteq quic[c].doomed \cup Listed(c)
  PROVE  HeldByCallbacks'
<1>1. ASSUME NEW k \in Ids, callback'[k].pc \in Backing
      PROVE  /\ native'[callback'[k].native] = [state |-> "open", connection |-> k]
             /\ \A t \in Threads : call'[t].pc \in Holding => call'[t].native # callback'[k].native
             /\ \A c \in Ids : /\ \A e \in quic'[c].streams : e.native # callback'[k].native
                               /\ callback'[k].native \notin quic'[c].doomed
  <2>0. BackedAsBefore(k)
    OBVIOUS
  <2>1. callback[k].pc \in Backing /\ callback'[k].native = callback[k].native
    BY <1>1, <2>0 DEF BackedAsBefore
  <2>2. /\ native[callback[k].native] = [state |-> "open", connection |-> k]
        /\ \A t \in Threads : call[t].pc \in Holding => call[t].native # callback[k].native
        /\ \A c \in Ids : /\ \A e \in quic[c].streams : e.native # callback[k].native
                          /\ callback[k].native \notin Listed(c)
                          /\ callback[k].native \notin quic[c].doomed
    BY <2>1 DEF HeldByCallbacks, Listed
  <2>3. ASSUME NEW t \in Threads, call'[t].pc \in Holding
        PROVE  call'[t].native # callback'[k].native
    <3>1. HeldAsBefore(t) \/ call'[t].native # callback[k].native
      BY <1>1, <2>3
    <3> QED BY <2>1, <2>2, <2>3, <3>1 DEF HeldAsBefore
  <2>4. ASSUME NEW c \in Ids
        PROVE  /\ \A e \in quic'[c].streams : e.native # callback'[k].native
               /\ callback'[k].native \notin quic'[c].doomed
    <3>1. /\ \A e \in quic'[c].streams : e \in quic[c].streams \/ e.native # callback[k].native
          /\ quic'[c].doomed \subseteq quic[c].doomed \cup Listed(c)
      BY <1>1
    <3> QED BY <2>1, <2>2, <3>1
  <2> QED BY <1>1, <2>1, <2>2, <2>3, <2>4
<1> QED BY <1>1 DEF HeldByCallbacks, Listed

LEMMA HeldByListsFrame ==
  ASSUME IInv, StreamsHaveHomes, HeldByLists, NativesKeep, ClientsKeep,
         \A c \in Ids : quic'[c].streams \subseteq quic[c].streams,
         \A c \in Ids : \A e \in quic'[c].streams : native'[e.native].state = "closed" =>
           \/ /\ native[e.native].state = "closed"
              /\ \A t \in Threads : call[t].pc = "unlist" /\ call[t].native = e.native =>
                   call'[t].pc = "unlist" /\ call'[t].native = call[t].native
           \/ \E t \in Threads : call'[t].pc = "unlist" /\ call'[t].native = e.native
  PROVE  HeldByLists'
<1>1. ASSUME NEW c \in Ids, NEW e \in quic'[c].streams
      PROVE  /\ native'[e.native].state # "unused"
             /\ connections'[native'[e.native].connection].client = c
             /\ native'[e.native].state = "closed" =>
                  \E t \in Threads : call'[t].pc = "unlist" /\ call'[t].native = e.native
  <2>1. e \in quic[c].streams /\ e.native \in NativeStreams
    BY Natively DEF NativelyTyped
  <2>2. /\ native[e.native].state # "unused"
        /\ Home(e.native) = c
        /\ native[e.native].state = "closed" =>
             \E t \in Threads : call[t].pc = "unlist" /\ call[t].native = e.native
    BY <2>1 DEF HeldByLists
  <2>3. connections'[native'[e.native].connection].client = Home(e.native) /\ native'[e.native].state # "unused"
    BY <2>1, <2>2 DEF StreamsHaveHomes, NativesKeep, ClientsKeep, Home
  <2>4. native'[e.native].state = "closed" =>
           \/ /\ native[e.native].state = "closed"
              /\ \A t \in Threads : call[t].pc = "unlist" /\ call[t].native = e.native =>
                   call'[t].pc = "unlist" /\ call'[t].native = call[t].native
           \/ \E t \in Threads : call'[t].pc = "unlist" /\ call'[t].native = e.native
    OBVIOUS
  <2> QED BY <2>2, <2>3, <2>4
<1>2. \A c \in Ids : \A e, f \in quic'[c].streams : e.native = f.native => e = f
  BY DEF HeldByLists
<1> QED BY <1>1, <1>2 DEF HeldByLists, Home

LEMMA HeldByDestroysFrame ==
  ASSUME IInv, StreamsHaveHomes, HeldByDestroys, NativesKeep, ClientsKeep,
         \A c \in Ids : \A q \in quic'[c].doomed :
           /\ q \in quic[c].doomed
           /\ quic'[c].life = quic[c].life
           /\ native'[q].state = "closed" => native[q].state = "closed"
           /\ \A e \in quic'[c].streams : e \in quic[c].streams \/ e.native # q
  PROVE  HeldByDestroys'
<1>1. ASSUME NEW c \in Ids, NEW q \in quic'[c].doomed
      PROVE  /\ native'[q].state \notin {"unused", "closed"}
             /\ connections'[native'[q].connection].client = c
             /\ \A e \in quic'[c].streams : e.native # q
             /\ quic'[c].life = "closing"
  <2>1. /\ q \in quic[c].doomed
        /\ quic'[c].life = quic[c].life
        /\ native'[q].state = "closed" => native[q].state = "closed"
        /\ \A e \in quic'[c].streams : e \in quic[c].streams \/ e.native # q
    OBVIOUS
  <2>2. q \in NativeStreams
    BY <2>1, Natively DEF NativelyTyped
  <2>3. /\ native[q].state \notin {"unused", "closed"} /\ Home(q) = c
        /\ \A e \in quic[c].streams : e.native # q
        /\ quic[c].life = "closing"
    BY <2>1 DEF HeldByDestroys, Whole, Listed
  <2>4. connections'[native'[q].connection].client = Home(q) /\ native'[q].state # "unused"
    BY <2>2, <2>3 DEF StreamsHaveHomes, NativesKeep, ClientsKeep, Home
  <2> QED BY <2>1, <2>3, <2>4
<1> QED BY <1>1 DEF HeldByDestroys, Whole, Listed, Home

LEMMA OnStreamsFrame ==
  ASSUME OnStreams, known \subseteq known',
         \A t \in Threads : call'[t].pc \in {"send", "sending"} =>
           \/ /\ call[t].pc \in {"send", "sending"} /\ call'[t].id = call[t].id /\ call'[t].client = call[t].client
              /\ handles'[call[t].id] = handles[call[t].id]
           \/ /\ call'[t].id \in known /\ handles'[call'[t].id].kind = "stream"
              /\ handles'[call'[t].id].client = call'[t].client,
         \A t \in Threads : call'[t].pc = "closing" =>
           \/ call[t].pc = "closing" /\ call'[t].id = call[t].id
              /\ (handles[call[t].id].kind = "none" => handles'[call[t].id].kind = "none")
           \/ call'[t].id \in known /\ handles'[call'[t].id].kind = "none"
  PROVE  OnStreams'
<1>1. ASSUME NEW t \in Threads, call'[t].pc \in {"send", "sending"}
      PROVE  /\ call'[t].id \in known /\ handles'[call'[t].id].kind = "stream"
             /\ handles'[call'[t].id].client = call'[t].client
  <2>1. \/ /\ call[t].pc \in {"send", "sending"} /\ call'[t].id = call[t].id /\ call'[t].client = call[t].client
           /\ handles'[call[t].id] = handles[call[t].id]
        \/ /\ call'[t].id \in known /\ handles'[call'[t].id].kind = "stream"
           /\ handles'[call'[t].id].client = call'[t].client
    BY <1>1
  <2> QED BY <2>1 DEF OnStreams
<1>2. ASSUME NEW t \in Threads, call'[t].pc = "closing"
      PROVE  call'[t].id \in known /\ handles'[call'[t].id].kind = "none"
  <2>1. \/ call[t].pc = "closing" /\ call'[t].id = call[t].id
              /\ (handles[call[t].id].kind = "none" => handles'[call[t].id].kind = "none")
        \/ call'[t].id \in known /\ handles'[call'[t].id].kind = "none"
    BY <1>2
  <2> QED BY <2>1 DEF OnStreams
<1> QED BY <1>1, <1>2 DEF OnStreams

SendsAsBefore(t) ==
  call'[t].pc = "sending" =>
    /\ call[t].pc = "sending" /\ call'[t].native = call[t].native
    /\ call'[t].client = call[t].client /\ call'[t].id = call[t].id
AbortsAsBefore(t) ==
  call'[t].rest # {} =>
    /\ call'[t].rest \subseteq call[t].rest /\ call'[t].client = call[t].client
    /\ call'[t].pc \in {"abort", "abort released"}
ClosesAsBefore(t) ==
  call'[t].pc = "closing" =>
    call[t].pc = "closing" /\ call'[t].id = call[t].id /\ call'[t].client = call[t].client

\* Nobody closes a stream, takes it up to close it, or lists it anew.
StaysUsable(q) ==
  /\ native'[q].state = "closed" => native[q].state = "closed"
  /\ \A t \in Threads : call'[t].pc \in Holding => HeldAsBefore(t) \/ call'[t].native # q
  /\ \A k \in Ids : callback'[k].pc \in Backing => BackedAsBefore(k) \/ callback'[k].native # q
  /\ \A c \in Ids : \A e \in quic'[c].streams : e \in quic[c].streams \/ e.native # q

LEMMA InUseFrame ==
  ASSUME IInv, StreamsHaveHomes, InUse, NativesKeep, ClientsKeep,
         \A t \in Threads : SendsAsBefore(t) /\ AbortsAsBefore(t) /\ ClosesAsBefore(t),
         \A q \in NativeStreams : Referred(q) => StaysUsable(q)
  PROVE  InUse'
<1>0. \A t \in Threads : /\ call[t].pc = "sending" => Referred(call[t].native) /\ call[t].native \in NativeStreams
                         /\ \A q \in call[t].rest : Referred(q) /\ q \in NativeStreams
  BY Natively DEF Referred, NativelyTyped
<1>1. ASSUME NEW q \in NativeStreams, \E t \in Threads : \/ call'[t].pc = "sending" /\ call'[t].native = q
                                                         \/ q \in call'[t].rest
      PROVE  /\ Referred(q)
             /\ \A t \in Threads : call'[t].pc \in Holding => call'[t].native # q
             /\ \A k \in Ids : callback'[k].pc \in Backing => callback'[k].native # q
  <2>1. Referred(q)
    <3>1. PICK t \in Threads : \/ call'[t].pc = "sending" /\ call'[t].native = q
                               \/ q \in call'[t].rest
      BY <1>1
    <3>2. /\ call'[t].pc = "sending" => call[t].pc = "sending" /\ call'[t].native = call[t].native
          /\ call'[t].rest # {} => call'[t].rest \subseteq call[t].rest
      BY DEF SendsAsBefore, AbortsAsBefore
    <3> QED BY <3>1, <3>2 DEF Referred
  <2>2. /\ \A t \in Threads : call[t].pc \in Holding => call[t].native # q
        /\ \A k \in Ids : callback[k].pc \in Backing => callback[k].native # q
    BY <2>1 DEF InUse
  <2>3. /\ \A t \in Threads : call'[t].pc \in Holding => HeldAsBefore(t) \/ call'[t].native # q
        /\ \A k \in Ids : callback'[k].pc \in Backing => BackedAsBefore(k) \/ callback'[k].native # q
    BY <2>1 DEF StaysUsable
  <2>4. \A t \in Threads : call'[t].pc \in Holding => call'[t].native # q
    BY <2>2, <2>3 DEF HeldAsBefore
  <2>5. \A k \in Ids : callback'[k].pc \in Backing => callback'[k].native # q
    BY <2>2, <2>3 DEF BackedAsBefore
  <2> QED BY <2>1, <2>4, <2>5
<1>h. ASSUME NEW q \in NativeStreams, NEW c, Whole(q, c), Referred(q)
      PROVE  native'[q].state \notin {"unused", "closed"} /\ connections'[native'[q].connection].client = c
  <2>1. native'[q].state = "closed" => native[q].state = "closed"
    BY <1>h DEF StaysUsable
  <2>2. native[q].state \notin {"unused", "closed"} /\ Home(q) = c
    BY <1>h DEF Whole
  <2>3. connections'[native'[q].connection].client = Home(q) /\ native'[q].state # "unused"
    BY <2>2 DEF StreamsHaveHomes, NativesKeep, ClientsKeep, Home
  <2> QED BY <2>1, <2>2, <2>3
<1>2. ASSUME NEW t \in Threads, call'[t].pc = "sending"
      PROVE  /\ native'[call'[t].native].state \notin {"unused", "closed"}
             /\ connections'[native'[call'[t].native].connection].client = call'[t].client
             /\ \A e \in quic'[call'[t].client].streams : e.native = call'[t].native => e.id = call'[t].id
  <2>1. /\ call[t].pc = "sending" /\ call'[t].native = call[t].native
        /\ call'[t].client = call[t].client /\ call'[t].id = call[t].id
    BY <1>2 DEF SendsAsBefore
  <2>2. /\ Whole(call[t].native, call[t].client) /\ call[t].client \in Ids
        /\ \A e \in quic[call[t].client].streams : e.native = call[t].native => e.id = call[t].id
    BY <2>1, Natively DEF InUse, EntriesAt, NativelyTyped
  <2>3. \A e \in quic'[call[t].client].streams : e \in quic[call[t].client].streams \/ e.native # call[t].native
    BY <1>0, <2>1, <2>2 DEF StaysUsable
  <2>4. native'[call[t].native].state \notin {"unused", "closed"}
        /\ connections'[native'[call[t].native].connection].client = call[t].client
    BY <1>0, <1>h, <2>1, <2>2
  <2> QED BY <2>1, <2>2, <2>3, <2>4
<1>3. \A t \in Threads : call'[t].rest # {} => call'[t].pc \in {"abort", "abort released"}
  BY DEF AbortsAsBefore
<1>4. ASSUME NEW t \in Threads, NEW q \in call'[t].rest
      PROVE  /\ native'[q].state \notin {"unused", "closed"}
             /\ connections'[native'[q].connection].client = call'[t].client
             /\ \A u \in Threads : call'[u].pc = "closing" =>
                  \A e \in quic'[call'[u].client].streams : e.id = call'[u].id => e.native # q
  <2>1. q \in call[t].rest /\ call'[t].client = call[t].client /\ q \in NativeStreams /\ Referred(q)
    <3>1. call'[t].rest # {} => /\ call'[t].rest \subseteq call[t].rest /\ call'[t].client = call[t].client
      BY DEF AbortsAsBefore
    <3> QED BY <1>0, <3>1
  <2>2. /\ Whole(q, call[t].client)
        /\ \A u \in Threads : call[u].pc = "closing" =>
             \A e \in quic[call[u].client].streams : e.id = call[u].id => e.native # q
    BY <2>1 DEF InUse, EntriesOf
  <2>3. native'[q].state \notin {"unused", "closed"} /\ connections'[native'[q].connection].client = call[t].client
    BY <1>h, <2>1, <2>2
  <2>4. ASSUME NEW u \in Threads, call'[u].pc = "closing", NEW e \in quic'[call'[u].client].streams,
               e.id = call'[u].id
        PROVE  e.native # q
    <3>1. /\ call[u].pc = "closing" /\ call'[u].id = call[u].id /\ call'[u].client = call[u].client
          /\ call[u].client \in Ids
      <4>1. call[u].pc = "closing" /\ call'[u].id = call[u].id /\ call'[u].client = call[u].client
        BY <2>4 DEF ClosesAsBefore
      <4> QED BY <4>1, Natively DEF NativelyTyped
    <3>2. e \in quic[call[u].client].streams \/ e.native # q
      BY <2>1, <2>4, <3>1 DEF StaysUsable
    <3> QED BY <2>2, <2>4, <3>1, <3>2
  <2> QED BY <2>1, <2>3, <2>4
<1>5. ASSUME NEW q \in NativeStreams, Referred(q)'
      PROVE  \E t \in Threads : (call'[t].pc = "sending" /\ call'[t].native = q) \/ q \in call'[t].rest
  BY <1>5 DEF Referred
<1>6. ASSUME NEW q \in NativeStreams, Referred(q)'
      PROVE  /\ \A t \in Threads : call'[t].pc \in Holding => call'[t].native # q
             /\ \A k \in Ids : callback'[k].pc \in Backing => callback'[k].native # q
  BY <1>1, <1>5, <1>6
<1>7. ASSUME NEW t \in Threads, call'[t].pc = "sending"
      PROVE  /\ Whole(call[t].native, call[t].client)'
             /\ \A e \in EntriesAt(call[t].client, call[t].native)' : e.id = call'[t].id
  BY <1>2, <1>7 DEF EntriesAt, Whole, Home
<1>8. ASSUME NEW t \in Threads, NEW q \in call'[t].rest
      PROVE  /\ Whole(q, call[t].client)'
             /\ \A u \in Threads : call'[u].pc = "closing" =>
                  \A e \in EntriesOf(call[u].client, call[u].id)' : e.native # q
  BY <1>4, <1>8 DEF EntriesOf, Whole, Home
<1> QED BY <1>3, <1>6, <1>7, <1>8 DEF InUse

StaysKept(q) ==
  /\ \A t \in Threads : call[t].pc \in Holding /\ call[t].native = q =>
       call'[t].pc \in Holding /\ call'[t].native = q
  /\ \A k \in Ids : callback[k].pc \in Backing /\ callback[k].native = q =>
       callback'[k].pc \in Backing /\ callback'[k].native = q
  /\ \A c \in Ids : /\ q \in quic[c].doomed => q \in quic'[c].doomed
                    /\ \A e \in quic[c].streams : e.native = q => e \in quic'[c].streams
PrefixAsBefore(t) ==
  /\ call[t].pc = "prefix" /\ call'[t].native = call[t].native /\ call'[t].client = call[t].client
  /\ native'[call[t].native].state \in {"open", "cut"} => native[call[t].native].state \in {"open", "cut"}
  /\ \A e \in quic[call[t].client].streams : e.native = call[t].native => e \in quic'[call[t].client].streams
EndsAsBefore(c) ==
  quic'[c].life \in {"closing", "freed"} =>
    \/ quic'[c].streams = {}
    \/ /\ quic[c].life \in {"closing", "freed"}
       /\ \A e \in quic'[c].streams : e \in quic[c].streams \/ e.native \in abandoned'

LEMMA ForgottenFrame ==
  ASSUME NothingForgotten, abandoned \subseteq abandoned',
         \A q \in NativeStreams : Unfinished(q)' => Kept(q)' \/ (Unfinished(q) /\ StaysKept(q)),
         \A t \in Threads : call'[t].pc = "prefix" /\ native'[call'[t].native].state \in {"open", "cut"} =>
           \/ PrefixAsBefore(t)
           \/ \E e \in quic'[call'[t].client].streams : e.native = call'[t].native,
         \A c \in Ids : EndsAsBefore(c)
  PROVE  NothingForgotten'
<1>1. ASSUME NEW q \in NativeStreams, Unfinished(q)'
      PROVE  Kept(q)'
  <2>1. CASE Unfinished(q) /\ StaysKept(q)
    <3>1. Kept(q)
      BY <2>1 DEF NothingForgotten
    <3>2. CASE \E c \in Ids : q \in Listed(c) \cup quic[c].doomed
      <4>1. \E c \in Ids : q \in quic'[c].doomed \/ \E e \in quic'[c].streams : e.native = q
        BY <2>1, <3>2 DEF StaysKept, Listed
      <4> QED BY <4>1 DEF Kept, Listed
    <3>3. CASE q \in abandoned
      BY <3>3 DEF Kept
    <3>4. CASE \E t \in Threads : call[t].pc \in Holding /\ call[t].native = q
      BY <2>1, <3>4 DEF StaysKept, Kept
    <3>5. CASE \E k \in Ids : callback[k].pc \in Backing /\ callback[k].native = q
      BY <2>1, <3>5 DEF StaysKept, Kept
    <3> QED BY <3>1, <3>2, <3>3, <3>4, <3>5 DEF Kept
  <2> QED BY <1>1, <2>1
<1>2. ASSUME NEW t \in Threads, call'[t].pc = "prefix", native'[call'[t].native].state \in {"open", "cut"}
      PROVE  \E e \in quic'[call'[t].client].streams : e.native = call'[t].native
  <2>1. CASE PrefixAsBefore(t)
    <3>1. /\ call[t].pc = "prefix" /\ call'[t].native = call[t].native /\ call'[t].client = call[t].client
          /\ native[call[t].native].state \in {"open", "cut"}
      BY <1>2, <2>1 DEF PrefixAsBefore
    <3>2. \E e \in quic[call[t].client].streams : e.native = call[t].native
      BY <3>1 DEF NothingForgotten, Unfinished, Listed
    <3> QED BY <2>1, <3>1, <3>2 DEF PrefixAsBefore
  <2> QED BY <1>2, <2>1
<1>3. ASSUME NEW c \in Ids, quic'[c].life \in {"closing", "freed"}, NEW e \in quic'[c].streams
      PROVE  e.native \in abandoned'
  <2>1. EndsAsBefore(c)
    OBVIOUS
  <2>2. quic[c].life \in {"closing", "freed"} /\ (e \in quic[c].streams \/ e.native \in abandoned')
    BY <1>3, <2>1 DEF EndsAsBefore
  <2> QED BY <2>2 DEF NothingForgotten, Listed
<1> QED BY <1>1, <1>2, <1>3 DEF NothingForgotten, Unfinished, Listed

-----------------------------------------------------------------------------
(* All parts, over a step of a call that neither takes up nor lets go of a stream *)

\* A stream as it was, or one whose connection was closed while no callback ran for it.
CutAtMost(q) ==
  \/ native'[q] = native[q]
  \/ /\ native[q].state = "open" /\ native'[q].state = "cut"
     /\ native'[q].connection = native[q].connection
     /\ callback[native[q].connection].pc = "idle"
ContextAsBefore(c) ==
  /\ quic'[c].streams = quic[c].streams /\ quic'[c].doomed = quic[c].doomed
  /\ quic'[c].life \in {"closing", "freed"} => quic[c].life \in {"closing", "freed"}
  /\ quic[c].doomed # {} => quic'[c].life = quic[c].life
HandleAsBefore(i) ==
  \/ handles'[i] = handles[i]
  \/ handles[i].kind # "stream" /\ (handles[i].kind = "none" => i \notin known)
     /\ (handles[i].kind # "none" => handles'[i].kind = "none")
StreamsAs(r, s) ==
  \/ s = r
  \/ s.pc = "idle" /\ s.rest = {} /\ r.pc \notin Holding
  \/ r.pc = "idle" /\ s.pc \notin Holding \cup {"send", "sending", "closing"} /\ s.rest = {}
  \/ /\ r.pc = "idle" /\ s.pc = "send" /\ s.rest = {}
     /\ s.id \in known /\ handles'[s.id].kind = "stream" /\ handles'[s.id].client = s.client
  \/ /\ r.pc # "idle" /\ r.pc \notin Holding /\ s.pc \notin Holding \cup {"send", "sending", "closing"}
     /\ s.client = r.client /\ s.rest \subseteq r.rest
     /\ s.rest # {} => s.pc \in {"abort", "abort released"}

StillStreams ==
  /\ callback' = callback
  /\ abandoned \subseteq abandoned' /\ known \subseteq known'
  /\ ClientsKeep
  /\ \A q \in NativeStreams : CutAtMost(q)
  /\ \A c \in Ids : ContextAsBefore(c)

\* A step that leaves streams and lists alone, and in which no call takes up a stream.
LEMMA StillFrame ==
  ASSUME IInv, IInv', NamesInv, StreamsInUse, StillStreams,
         \A t \in Threads : HeldAsBefore(t),
         \A t \in Threads : call[t].pc = "unlist" => call'[t].pc = "unlist" /\ call'[t].native = call[t].native
  PROVE  /\ StreamsHaveHomes' /\ HeldByCalls' /\ HeldByCallbacks' /\ HeldByLists' /\ HeldByDestroys'
         /\ NativesKeep /\ ClientsKeep
         /\ \A q \in NativeStreams : StaysUsable(q) /\ (Unfinished(q)' <=> Unfinished(q))
         /\ \A c \in Ids : EndsAsBefore(c) /\ quic'[c].streams = quic[c].streams /\ quic'[c].doomed = quic[c].doomed
         /\ abandoned \subseteq abandoned' /\ known \subseteq known' /\ callback' = callback
<1>i. NativelyTyped /\ (\A k \in Ids : callback'[k] = callback[k])
  BY Natively DEF StillStreams
<1>p. StreamsHaveHomes /\ HeldByCalls /\ HeldByCallbacks /\ HeldByLists /\ HeldByDestroys /\ OnStreams /\ InUse /\ NothingForgotten
  BY DEF StreamsInUse
<1>c. ClientsKeep /\ abandoned \subseteq abandoned' /\ known \subseteq known' /\ callback' = callback
  BY DEF StillStreams
<1>n. ASSUME NEW q \in NativeStreams
      PROVE  /\ native'[q].state = "closed" <=> native[q].state = "closed"
             /\ native'[q].state = "unused" <=> native[q].state = "unused"
             /\ native'[q].state \in {"open", "cut"} <=> native[q].state \in {"open", "cut"}
             /\ native'[q].connection = native[q].connection
             /\ native'[q] = native[q] \/ callback[native[q].connection].pc = "idle"
  <2>1. CutAtMost(q)
    BY DEF StillStreams
  <2> QED BY <2>1 DEF CutAtMost
<1>k. NativesKeep
  BY <1>n DEF NativesKeep
<1>a. ASSUME NEW t \in Threads, call'[t].pc \in Holding
      PROVE  call[t].pc \in Holding /\ call[t].native \in NativeStreams
  <2>1. HeldAsBefore(t)
    OBVIOUS
  <2> QED BY <1>a, <1>i, <2>1 DEF HeldAsBefore, NativelyTyped
<1>x. ASSUME NEW c \in Ids PROVE ContextAsBefore(c)
  BY DEF StillStreams
<1>1. StreamsHaveHomes'
  <2>1. \A q \in NativeStreams : native[q].state # "unused" =>
          native'[q].connection \in Ids /\ connections'[native'[q].connection].state # "none"
    BY <1>p, <1>k, <1>c, HomesFrame
  <2> QED BY <1>n, <2>1 DEF StreamsHaveHomes
<1>2. HeldByCalls'
  <2>1. \A t \in Threads : HeldAsBefore(t)
    OBVIOUS
  <2>2. \A t \in Threads : call'[t].pc \in Holding =>
          (native'[call[t].native].state = "closed" <=> native[call[t].native].state = "closed")
    BY <1>a, <1>i, <1>n DEF NativelyTyped
  <2>3. \A t \in Threads, c \in Ids : call'[t].pc \in Holding =>
          \A e \in quic'[c].streams : e \in quic[c].streams \/ e.native # call[t].native
    BY <1>x DEF ContextAsBefore
  <2> QED BY <1>p, <1>k, <1>c, <2>1, <2>2, <2>3, HeldByCallsFrame
<1>3. HeldByCallbacks'
  <2>1. \A k \in Ids : BackedAsBefore(k)
    BY <1>i DEF BackedAsBefore
  <2>2. ASSUME NEW k \in Ids, callback'[k].pc \in Backing
        PROVE  native'[callback[k].native] = native[callback[k].native]
    <3>1. /\ callback[k].pc \in Backing /\ callback[k].native \in NativeStreams
          /\ native[callback[k].native] = [state |-> "open", connection |-> k]
      BY <1>i, <1>p, <2>2 DEF NativelyTyped, HeldByCallbacks
    <3> QED BY <1>n, <3>1 DEF Backing
  <2>3. \A k \in Ids, t \in Threads : callback'[k].pc \in Backing /\ call'[t].pc \in Holding =>
           HeldAsBefore(t) \/ call'[t].native # callback[k].native
    OBVIOUS
  <2>4. \A k, c \in Ids : callback'[k].pc \in Backing =>
           /\ \A e \in quic'[c].streams : e \in quic[c].streams \/ e.native # callback[k].native
           /\ quic'[c].doomed \subseteq quic[c].doomed \cup Listed(c)
    BY <1>x DEF ContextAsBefore
  <2> QED BY <1>p, <2>1, <2>2, <2>3, <2>4, HeldByCallbacksFrame
<1>4. HeldByLists'
  <2>1. \A c \in Ids : quic'[c].streams \subseteq quic[c].streams
    BY <1>x DEF ContextAsBefore
  <2>2. \A t \in Threads : call[t].pc = "unlist" => call'[t].pc = "unlist" /\ call'[t].native = call[t].native
    OBVIOUS
  <2>3. ASSUME NEW c \in Ids, NEW e \in quic'[c].streams, native'[e.native].state = "closed"
        PROVE  /\ native[e.native].state = "closed"
               /\ \A t \in Threads : call[t].pc = "unlist" /\ call[t].native = e.native =>
                   call'[t].pc = "unlist" /\ call'[t].native = call[t].native
    BY <1>i, <1>n, <2>1, <2>2, <2>3 DEF NativelyTyped
  <2> QED BY <1>p, <1>k, <1>c, <2>1, <2>3, HeldByListsFrame
<1>5. HeldByDestroys'
  <2>1. ASSUME NEW c \in Ids, NEW q \in quic'[c].doomed
        PROVE  /\ q \in quic[c].doomed
               /\ quic'[c].life = quic[c].life
               /\ native'[q].state = "closed" => native[q].state = "closed"
               /\ \A e \in quic'[c].streams : e \in quic[c].streams \/ e.native # q
    <3>1. ContextAsBefore(c)
      BY <1>x
    <3>2. q \in quic[c].doomed /\ q \in NativeStreams
      BY <1>i, <3>1 DEF ContextAsBefore, NativelyTyped
    <3> QED BY <1>n, <3>1, <3>2 DEF ContextAsBefore
  <2> QED BY <1>p, <1>k, <1>c, <2>1, HeldByDestroysFrame
<1>6. \A q \in NativeStreams : StaysUsable(q) /\ (Unfinished(q)' <=> Unfinished(q))
  <2>1. \A k \in Ids : BackedAsBefore(k)
    BY <1>i DEF BackedAsBefore
  <2>2. \A c \in Ids : quic'[c].streams = quic[c].streams
    BY <1>x DEF ContextAsBefore
  <2>3. \A t \in Threads : HeldAsBefore(t)
    OBVIOUS
  <2> QED BY <1>n, <2>1, <2>2, <2>3 DEF StaysUsable, Unfinished
<1>7. \A c \in Ids : EndsAsBefore(c) /\ quic'[c].streams = quic[c].streams /\ quic'[c].doomed = quic[c].doomed
  BY <1>x DEF ContextAsBefore, EndsAsBefore
<1> QED BY <1>1, <1>2, <1>3, <1>4, <1>5, <1>6, <1>7, <1>c, <1>k

\* What a call holds, or holds on to, and finds listed, stays so.
LEMMA StillKept ==
  ASSUME IInv, StreamsInUse,
         \A q \in NativeStreams : Unfinished(q)' <=> Unfinished(q),
         \A c \in Ids : EndsAsBefore(c) /\ quic'[c].streams = quic[c].streams /\ quic'[c].doomed = quic[c].doomed,
         abandoned \subseteq abandoned', callback' = callback,
         \A t \in Threads : HeldAsBefore(t),
         \A t \in Threads : call[t].pc \in Holding => call'[t] = call[t] \/ (call[t].pc = "prefix" /\ call'[t].pc \notin Holding)
  PROVE  NothingForgotten'
<1>i. NativelyTyped /\ NothingForgotten /\ (\A k \in Ids : callback'[k] = callback[k])
  BY Natively DEF StreamsInUse
<1>0. ASSUME NEW t \in Threads
      PROVE  /\ HeldAsBefore(t)
             /\ call[t].pc \in Holding => call'[t] = call[t] \/ call[t].pc = "prefix"
  OBVIOUS
<1>1. ASSUME NEW q \in NativeStreams, Unfinished(q)'
      PROVE  Kept(q)' \/ (Unfinished(q) /\ StaysKept(q))
  <2>1. CASE \A t \in Threads : call[t].pc \in Holding /\ call[t].native = q => call'[t] = call[t]
    BY <1>1, <1>i, <2>1 DEF StaysKept
  <2>2. ASSUME NEW t \in Threads, call[t].pc = "prefix", call[t].native = q
        PROVE  Kept(q)'
    <3>1. call[t].client \in Ids /\ Unfinished(call[t].native)
      BY <1>1, <1>i, <2>2 DEF NativelyTyped, Holding
    <3>2. \E e \in quic[call[t].client].streams : e.native = q
      BY <1>i, <2>2, <3>1 DEF NothingForgotten, Listed
    <3>3. \E c \in Ids : \E e \in quic'[c].streams : e.native = q
      BY <3>1, <3>2
    <3> QED BY <3>3 DEF Kept, Listed
  <2> QED BY <1>0, <2>1, <2>2
<1>2. ASSUME NEW t \in Threads, call'[t].pc = "prefix"
      PROVE  PrefixAsBefore(t)
  <2>1. call[t].pc = "prefix" /\ call'[t].native = call[t].native /\ call'[t].client = call[t].client
    BY <1>0, <1>2 DEF HeldAsBefore, Holding
  <2>2. call[t].native \in NativeStreams /\ call[t].client \in Ids
    BY <1>i, <2>1 DEF Holding, NativelyTyped
  <2>3. native'[call[t].native].state \in {"open", "cut"} => native[call[t].native].state \in {"open", "cut"}
    <3>1. \A q \in NativeStreams : native'[q].state \in {"open", "cut"} => native[q].state \in {"open", "cut"}
      BY DEF Unfinished
    <3> QED BY <2>2, <3>1
  <2> QED BY <2>1, <2>2, <2>3 DEF PrefixAsBefore
<1>3. \A c \in Ids : EndsAsBefore(c)
  OBVIOUS
<1> QED BY <1>1, <1>2, <1>3, <1>i, ForgottenFrame

\* The handle under whose id a call goes on is as it was.
HandleServes(t) ==
  call'[t] = call[t] =>
    /\ call[t].pc \in {"send", "sending"} => handles'[call[t].id] = handles[call[t].id]
    /\ call[t].pc = "closing" => (handles[call[t].id].kind = "none" => handles'[call[t].id].kind = "none")

LEMMA ServesAsBefore ==
  ASSUME OnStreams, \A i \in known : HandleAsBefore(i)
  PROVE  \A t \in Threads : HandleServes(t)
  BY DEF OnStreams, HandleAsBefore, HandleServes

PlainStreams ==
  /\ StillStreams
  /\ \A t \in Threads : HandleServes(t)
  /\ \A t \in Threads : StreamsAs(call[t], call'[t])

LEMMA PlainStreamsKeep ==
  ASSUME IInv, IInv', NamesInv, StreamsInUse, PlainStreams
  PROVE  StreamsInUse'
<1>p. OnStreams /\ InUse /\ StreamsHaveHomes /\ StillStreams
  BY DEF StreamsInUse, PlainStreams
<1>a. ASSUME NEW t \in Threads
      PROVE  /\ HeldAsBefore(t) /\ SendsAsBefore(t) /\ AbortsAsBefore(t) /\ ClosesAsBefore(t)
             /\ call'[t].pc \in Holding => call'[t] = call[t]
             /\ call[t].pc \in Holding => call'[t] = call[t]
  <2>0. StreamsAs(call[t], call'[t])
    BY DEF PlainStreams
  <2>1. CASE call'[t] = call[t]
    BY <1>p, <2>1 DEF HeldAsBefore, SendsAsBefore, AbortsAsBefore, ClosesAsBefore, InUse
  <2>2. CASE call[t].pc \notin Holding /\ call'[t].pc \notin Holding \cup {"sending", "closing"} /\ call'[t].rest = {}
    BY <2>2 DEF HeldAsBefore, SendsAsBefore, AbortsAsBefore, ClosesAsBefore
  <2>3. CASE /\ call[t].pc \notin Holding /\ call'[t].pc \notin Holding \cup {"sending", "closing"}
             /\ call'[t].client = call[t].client /\ call'[t].rest \subseteq call[t].rest
             /\ call'[t].rest # {} => call'[t].pc \in {"abort", "abort released"}
    BY <2>3 DEF HeldAsBefore, SendsAsBefore, AbortsAsBefore, ClosesAsBefore
  <2> QED BY <2>0, <2>1, <2>2, <2>3 DEF StreamsAs, Holding
<1>h. \A t \in Threads : HeldAsBefore(t)
  BY <1>a
<1>u. \A t \in Threads : call[t].pc = "unlist" => call'[t].pc = "unlist" /\ call'[t].native = call[t].native
  BY <1>a DEF Holding
<1>1. /\ StreamsHaveHomes' /\ HeldByCalls' /\ HeldByCallbacks' /\ HeldByLists' /\ HeldByDestroys'
      /\ NativesKeep /\ ClientsKeep
      /\ \A q \in NativeStreams : StaysUsable(q) /\ (Unfinished(q)' <=> Unfinished(q))
      /\ \A c \in Ids : EndsAsBefore(c) /\ quic'[c].streams = quic[c].streams /\ quic'[c].doomed = quic[c].doomed
      /\ abandoned \subseteq abandoned' /\ known \subseteq known' /\ callback' = callback
  BY <1>h, <1>p, <1>u, StillFrame
<1>6. OnStreams'
  <2>1. ASSUME NEW t \in Threads, call'[t].pc \in {"send", "sending"}
        PROVE  \/ /\ call[t].pc \in {"send", "sending"} /\ call'[t].id = call[t].id /\ call'[t].client = call[t].client
                  /\ handles'[call[t].id] = handles[call[t].id]
               \/ /\ call'[t].id \in known /\ handles'[call'[t].id].kind = "stream"
                  /\ handles'[call'[t].id].client = call'[t].client
    <3>0. StreamsAs(call[t], call'[t]) /\ HandleServes(t)
      BY DEF PlainStreams
    <3> QED BY <2>1, <3>0 DEF StreamsAs, HandleServes
  <2>2. ASSUME NEW t \in Threads, call'[t].pc = "closing"
        PROVE  call[t].pc = "closing" /\ call'[t].id = call[t].id
              /\ (handles[call[t].id].kind = "none" => handles'[call[t].id].kind = "none")
    <3>0. StreamsAs(call[t], call'[t]) /\ HandleServes(t)
      BY DEF PlainStreams
    <3> QED BY <2>2, <3>0 DEF StreamsAs, HandleServes
  <2> QED BY <1>1, <1>p, <2>1, <2>2, OnStreamsFrame
<1>7. InUse'
  <2>1. \A t \in Threads : SendsAsBefore(t) /\ AbortsAsBefore(t) /\ ClosesAsBefore(t)
    BY <1>a
  <2>2. \A q \in NativeStreams : Referred(q) => StaysUsable(q)
    BY <1>1
  <2> QED BY <1>1, <1>p, <2>1, <2>2, InUseFrame
<1>8. NothingForgotten'
  <2>1. \A t \in Threads : call[t].pc \in Holding => call'[t] = call[t] \/ (call[t].pc = "prefix" /\ call'[t].pc \notin Holding)
    BY <1>a
  <2>2. \A q \in NativeStreams : Unfinished(q)' <=> Unfinished(q)
    BY <1>1
  <2> QED BY <1>1, <1>h, <2>1, <2>2, StillKept
<1> QED BY <1>1, <1>6, <1>7, <1>8 DEF StreamsInUse

Life == CallsAreServed /\ ConnectionsInUse /\ StreamsInUse

\* What a step must not use.
LEMMA Safely ==
  ASSUME IInv, Life, NEW t \in Threads
  PROVE  /\ call[t].pc # "idle" => ~Freed(call[t].client)
         /\ call[t].pc # "forget" => ~Over(call[t].connection)
         /\ call[t].pc \in {"sending", "list", "prefix", "close"} => ~Closed(call[t].native)
         /\ \A q \in call[t].rest : ~Closed(q)
<1>1. call[t].pc # "idle" => ~Freed(call[t].client)
  BY DEF Life, CallsAreServed, Freed
<1>2. call[t].pc # "forget" => ~Over(call[t].connection)
  BY Shapes DEF Life, ConnectionsInUse, CopiesAreOpen, Over
<1>3. call[t].pc \in {"sending", "list", "prefix", "close"} => ~Closed(call[t].native)
  BY DEF Life, StreamsInUse, HeldByCalls, InUse, Whole, Holding, Closed
<1>4. \A q \in call[t].rest : ~Closed(q)
  BY DEF Life, StreamsInUse, InUse, Whole, Closed
<1> QED BY <1>1, <1>2, <1>3, <1>4

LEMMA OneCall ==
  ASSUME IInv, NEW t \in Threads, NEW s, call' = [call EXCEPT ![t] = s]
  PROVE  /\ ServedAs(call[t], s) => \A u \in Threads : ServedAs(call[u], call'[u])
         /\ ConnectsAs(call[t], s) => \A u \in Threads : ConnectsAs(call[u], call'[u])
         /\ StreamsAs(call[t], s) => \A u \in Threads : StreamsAs(call[u], call'[u])
<1>1. \A u \in Threads : call'[u] = IF u = t THEN s ELSE call[u]
  BY DEF IInv, TypeOK
<1>2. \A u \in Threads : ServedAs(call[u], call[u]) /\ ConnectsAs(call[u], call[u]) /\ StreamsAs(call[u], call[u])
  BY DEF ServedAs, ConnectsAs, StreamsAs
<1>3. ServedAs(call[t], s) => \A u \in Threads : ServedAs(call[u], call'[u])
  BY <1>1, <1>2
<1>4. ConnectsAs(call[t], s) => \A u \in Threads : ConnectsAs(call[u], call'[u])
  BY <1>1, <1>2
<1>5. StreamsAs(call[t], s) => \A u \in Threads : StreamsAs(call[u], call'[u])
  BY <1>1, <1>2
<1> QED BY <1>3, <1>4, <1>5

ContextKeeps(c) ==
  /\ ContextAsBefore(c)
  /\ quic'[c].connection \in {0, quic[c].connection}
  /\ quic[c].life = "live" => quic'[c].life = "live"
  /\ quic'[c].life = "freed" => Freed(c)
HandleKeeps(i) ==
  /\ i \in known => HandleAsBefore(i)
  /\ handles[i].kind = "client" => handles'[i] = handles[i]

\* A step of a call that takes up nothing it could use too long or forget.
LEMMA PlainStep ==
  ASSUME IInv, IInv', NamesInv, Life,
         UNCHANGED connections, UNCHANGED native, UNCHANGED callback, UNCHANGED abandoned,
         known \subseteq known',
         \A c \in Ids : ContextKeeps(c),
         \A i \in Ids : HandleKeeps(i),
         NEW t \in Threads, NEW s, call' = [call EXCEPT ![t] = s],
         ServedAs(call[t], s), ConnectsAs(call[t], s), StreamsAs(call[t], s)
  PROVE  Life'
<1>l. CallsAreServed /\ ConnectionsInUse /\ StreamsInUse
  BY DEF Life
<1>1. CallsAreServed'
  <2>1. \A u \in Threads : ServedAs(call[u], call'[u])
    BY OneCall
  <2>2. /\ \A c \in Ids : quic[c].life = "live" => quic'[c].life = "live"
        /\ \A c \in Ids : handles[c].kind = "client" => handles'[c].kind = "client"
    BY DEF ContextKeeps, HandleKeeps
  <2> QED BY <1>l, <2>1, <2>2, ServedFrame
<1>2. ConnectionsInUse'
  <2>1. \A u \in Threads : ConnectsAs(call[u], call'[u])
    BY OneCall
  <2>2. \A c \in Ids : quic'[c].connection \in {0, quic[c].connection} /\ (quic'[c].life = "freed" => Freed(c))
    BY DEF ContextKeeps
  <2> QED BY <1>l, <2>1, <2>2, ConnectionsFrame
<1>3. StreamsInUse'
  <2>1. \A u \in Threads : StreamsAs(call[u], call'[u])
    BY OneCall
  <2>2. (\A c \in Ids : ContextAsBefore(c)) /\ (\A i \in known : HandleAsBefore(i))
    BY Shapes DEF ContextKeeps, HandleKeeps
  <2>3. ClientsKeep /\ (\A q \in NativeStreams : CutAtMost(q))
    BY DEF ClientsKeep, CutAtMost
  <2>4. PlainStreams
    <3>1. \A u \in Threads : HandleServes(u)
      BY <1>l, <2>2, ServesAsBefore DEF StreamsInUse
    <3> QED BY <2>1, <2>2, <2>3, <3>1 DEF PlainStreams, StillStreams
  <2> QED BY <1>l, <2>4, PlainStreamsKeep
<1> QED BY <1>1, <1>2, <1>3 DEF Life

LEMMA AllKeep ==
  ASSUME IInv
  PROVE  /\ quic' = quic => \A c \in Ids : ContextKeeps(c)
         /\ handles' = handles => \A i \in Ids : HandleKeeps(i)
<1>1. quic' = quic => \A c \in Ids : ContextKeeps(c)
  BY DEF ContextKeeps, ContextAsBefore, Freed
<1>2. handles' = handles => \A i \in Ids : HandleKeeps(i)
  BY DEF HandleKeeps, HandleAsBefore
<1> QED BY <1>1, <1>2

\* A call ends, ...
LEMMA EndsAs ==
  ASSUME IInv, NEW t \in Threads, Return(t), call[t].pc \notin Holding, call[t].pc # "forget"
  PROVE  /\ call' = [call EXCEPT ![t] = NoCall]
         /\ ServedAs(call[t], NoCall) /\ ConnectsAs(call[t], NoCall) /\ StreamsAs(call[t], NoCall)
<1>1. call' = [call EXCEPT ![t] = NoCall]
  BY DEF Return, Become
<1> QED BY <1>1, NoCallFields DEF ServedAs, ConnectsAs, StreamsAs, Closers

\* ... begins, ...
LEMMA Begins ==
  ASSUME IInv, NEW t \in Threads, NEW pc, NEW c, NEW i, Begin(t, pc, c, i)
  PROVE  \E s : /\ call' = [call EXCEPT ![t] = s]
                /\ s.pc = pc /\ s.client = c /\ s.id = i
                /\ s.connection = 0 /\ s.rest = {} /\ s.native = NoNative
<1> DEFINE s == [NoCall EXCEPT !.pc = pc, !.client = c, !.id = i]
<1>1. call' = [call EXCEPT ![t] = s]
  BY DEF Begin, Become
<1>2. /\ s.pc = pc /\ s.client = c /\ s.id = i
      /\ s.connection = 0 /\ s.rest = {} /\ s.native = NoNative
  BY DEF NoCall
<1> HIDE DEF s
<1> QED BY <1>1, <1>2

LEMMA NewAs ==
  ASSUME IInv, NEW t \in Threads, NEW pc, NEW c, NEW i, Begin(t, pc, c, i), call[t].pc = "idle",
         Found(c, "client"),
         \/ pc \in {"connect", "open", "datagram", "shutdown"}
         \/ pc = "send" /\ i \in known /\ handles'[i].kind = "stream" /\ handles'[i].client = c
  PROVE  \E s : /\ call' = [call EXCEPT ![t] = s]
                /\ ServedAs(call[t], s) /\ ConnectsAs(call[t], s) /\ StreamsAs(call[t], s)
<1>1. PICK s : /\ call' = [call EXCEPT ![t] = s]
               /\ s.pc = pc /\ s.client = c /\ s.id = i
               /\ s.connection = 0 /\ s.rest = {} /\ s.native = NoNative
  BY Begins
<1>2. ServedAs(call[t], s) /\ ConnectsAs(call[t], s)
  BY <1>1 DEF ServedAs, ConnectsAs, Closers, Releasing
<1>3. StreamsAs(call[t], s)
  BY <1>1 DEF StreamsAs, Holding
<1> QED BY <1>1, <1>2, <1>3

\* ... or goes on.
LEMMA GoesAs ==
  ASSUME IInv, NEW t \in Threads, call[t].pc \notin Holding, call[t].pc \notin {"idle", "forget"},
         NEW s, s.client = call[t].client, s.rest \subseteq call[t].rest, s.connection \in {0, call[t].connection},
         s.pc \notin Holding \cup {"idle", "send", "sending", "closing", "replace", "start", "forget"},
         s.pc \in Releasing <=> call[t].pc \in Releasing,
         s.rest # {} => s.pc \in {"abort", "abort released"}
  PROVE  ServedAs(call[t], s) /\ ConnectsAs(call[t], s) /\ StreamsAs(call[t], s)
<1>1. ServedAs(call[t], s)
  BY DEF ServedAs
<1>2. ConnectsAs(call[t], s)
  BY DEF ConnectsAs, Closers
<1>3. StreamsAs(call[t], s)
  BY DEF StreamsAs
<1> QED BY <1>1, <1>2, <1>3

LEMMA NoRest ==
  ASSUME IInv, Life, NEW t \in Threads, call[t].pc \notin {"abort", "abort released"}
  PROVE  call[t].rest = {}
  BY DEF Life, StreamsInUse, InUse

\* Steps that return.
LEMMA ReturningLives ==
  ASSUME IInv, IInv', NamesInv, Life, ~misused, NEW t \in Threads,
         \/ ShutdownReturns(t) \/ Send(t) \/ SendDatagram(t)
         \/ (FindToSend(t) /\ Return(t)) \/ (Delist(t) /\ Return(t) /\ UNCHANGED quic)
         \/ (CopyConnection(t) /\ Return(t))
         \/ Undo(t)
  PROVE  ~misused' /\ Life'
<1>1. /\ Return(t) /\ call[t].pc \notin Holding /\ call[t].pc # "forget"
      /\ UNCHANGED connections /\ UNCHANGED native /\ UNCHANGED callback /\ UNCHANGED abandoned
      /\ known' = known /\ quic' = quic /\ (\A i \in Ids : HandleKeeps(i)) /\ ~misused'
  <2>0. /\ call[t].pc # "idle" => ~Freed(call[t].client)
        /\ call[t].pc # "forget" => ~Over(call[t].connection)
        /\ call[t].pc \in {"sending", "list", "prefix", "close"} => ~Closed(call[t].native)
    BY Safely
  <2>1. CASE ShutdownReturns(t)
    BY <2>0, <2>1, AllKeep DEF ShutdownReturns, Running, Uses, Holding, table, history
  <2>2. CASE Send(t)
    BY <2>0, <2>2, AllKeep DEF Send, Running, Uses, Holding, table, history
  <2>3. CASE SendDatagram(t)
    BY <2>0, <2>3, AllKeep DEF SendDatagram, Running, Uses, Holding, table, history
  <2>4. CASE FindToSend(t) /\ Return(t)
    BY <2>0, <2>4, AllKeep DEF FindToSend, Running, Uses, Holding, table, history
  <2>5. CASE Delist(t) /\ Return(t) /\ UNCHANGED quic
    BY <2>0, <2>5, AllKeep DEF Delist, Running, Uses, Holding, table, history
  <2>6. CASE CopyConnection(t) /\ Return(t)
    BY <2>0, <2>6, AllKeep DEF CopyConnection, Running, Uses, Holding, table, history
  <2>7. CASE Undo(t)
    <3>1. /\ call[t].pc = "undo" /\ Return(t) /\ known' = known
          /\ handles' = [handles EXCEPT ![call[t].id] = NoHandle]
          /\ UNCHANGED connections /\ UNCHANGED callback /\ UNCHANGED abandoned
      BY <2>7 DEF Undo, Running, history
    <3>2. EntriesOf(call[t].client, call[t].id) = {}
      BY <3>1, UndoneIsUnlisted
    <3> DEFINE mine == {e \in EntriesOf(call[t].client, call[t].id) : Found(e.id, "stream")}
               qs == {e.native : e \in mine}
    <3>3. mine = {} /\ qs = {}
      BY <3>2
    <3>4. Close(qs) /\ quic' = [quic EXCEPT ![call[t].client].streams = @ \ mine]
      BY <2>7 DEF Undo
    <3>5. native' = native /\ quic' = quic /\ ~misused'
      <4>1. native \in [NativeStreams -> Natives] /\ quic \in [Ids -> Quics] /\ call[t].client \in Ids
        BY <3>1, Shapes DEF IInv, TypeOK
      <4> HIDE DEF mine, qs
      <4>2. native' = native
        BY <3>3, <3>4, <4>1 DEF Close
      <4>3. [quic[call[t].client] EXCEPT !.streams = quic[call[t].client].streams] = quic[call[t].client]
        BY <4>1 DEF Quics
      <4>4. quic' = quic
        BY <3>3, <3>4, <4>1, <4>3
      <4> QED BY <3>3, <3>4, <4>2, <4>4 DEF Close, Uses
    <3>6. \A i \in Ids : HandleKeeps(i)
      <4>1. call[t].id \in Ids /\ handles[call[t].id].kind # "client" /\ call[t].id \notin known
        BY <3>1 DEF IInv, UndoesChildren, NamesInv, InFlight, Allocating
      <4>2. \A i \in Ids : handles'[i] = IF i = call[t].id THEN NoHandle ELSE handles[i]
        BY <3>1 DEF IInv, TypeOK
      <4>3. handles[call[t].id].kind # "stream" \/ call[t].id \notin known
        BY <4>1
      <4> QED BY <4>1, <4>2 DEF HandleKeeps, HandleAsBefore, NoHandle
    <3> QED BY <3>1, <3>5, <3>6 DEF Holding
  <2> QED BY <2>1, <2>2, <2>3, <2>4, <2>5, <2>6, <2>7
<1>2. \A c \in Ids : ContextKeeps(c)
  BY <1>1, AllKeep
<1> QED BY <1>1, <1>2, EndsAs, PlainStep

\* Steps that go on with what they have.
LEMMA GoingLives ==
  ASSUME IInv, IInv', NamesInv, Life, ~misused, NEW t \in Threads,
         \/ ConnectRefused(t)
         \/ ConnectTakes(t) /\ quic[call[t].client].connection = 0
         \/ FindConnection(t) /\ Go(t, "undo")
         \/ StreamOpen(t) /\ UNCHANGED native
         \/ \E q \in NativeStreams : Abort(t, q)
  PROVE  ~misused' /\ Life'
<1>0. call \in [Threads -> Calls] /\ call[t] \in Calls /\ quic \in [Ids -> Quics]
  BY Shapes DEF IInv, TypeOK
<1>s. /\ call[t].pc # "idle" => ~Freed(call[t].client)
      /\ call[t].pc # "forget" => ~Over(call[t].connection)
      /\ \A q \in call[t].rest : ~Closed(q)
  BY Safely
<1>1. CASE ConnectRefused(t) \/ (FindConnection(t) /\ Go(t, "undo"))
  <2> DEFINE s == [call[t] EXCEPT !.pc = "undo"]
  <2>1. /\ call[t].pc \in {"connect", "open"} /\ call' = [call EXCEPT ![t] = s] /\ ~misused'
        /\ UNCHANGED connections /\ UNCHANGED native /\ UNCHANGED callback /\ UNCHANGED abandoned
        /\ UNCHANGED <<known, handles, quic>>
    <3>1. CASE ConnectRefused(t)
      BY <1>0, <1>s, <3>1 DEF ConnectRefused, Running, Uses, Go, table, history
    <3>2. CASE FindConnection(t) /\ Go(t, "undo")
      BY <1>0, <1>s, <3>2 DEF FindConnection, Running, Uses, Go, table
    <3> QED BY <1>1, <3>1, <3>2
  <2>2. /\ s.pc = "undo" /\ s.client = call[t].client /\ s.rest = call[t].rest /\ s.connection = call[t].connection
        /\ call[t].rest = {}
    BY <1>0, <2>1, NoRest DEF Calls
  <2> HIDE DEF s
  <2>3. ServedAs(call[t], s) /\ ConnectsAs(call[t], s) /\ StreamsAs(call[t], s)
    BY <2>1, <2>2, GoesAs DEF Holding, Releasing
  <2> QED BY <2>1, <2>3, AllKeep, PlainStep
<1>2. CASE ConnectTakes(t) /\ quic[call[t].client].connection = 0
  <2> DEFINE s == [call[t] EXCEPT !.pc = "dial", !.connection = 0]
  <2>1. /\ call[t].pc = "connect" /\ call' = [call EXCEPT ![t] = s] /\ ~misused'
        /\ UNCHANGED connections /\ UNCHANGED native /\ UNCHANGED callback /\ UNCHANGED abandoned
        /\ UNCHANGED <<known, handles>>
        /\ quic' = [quic EXCEPT ![call[t].client].connection = 0]
    BY <1>s, <1>2 DEF ConnectTakes, Running, Uses, Become, table
  <2>2. quic' = quic
    <3>1. call[t].client \in Ids
      BY <2>1, Shapes
    <3>2. [quic[call[t].client] EXCEPT !.connection = 0] = quic[call[t].client]
      BY <1>0, <1>2, <3>1 DEF Quics
    <3> QED BY <1>0, <2>1, <3>1, <3>2
  <2>3. s.pc = "dial" /\ s.client = call[t].client /\ s.rest = call[t].rest /\ s.connection = 0 /\ call[t].rest = {}
    BY <1>0, <2>1, NoRest DEF Calls
  <2> HIDE DEF s
  <2>4. ServedAs(call[t], s) /\ ConnectsAs(call[t], s) /\ StreamsAs(call[t], s)
    BY <2>1, <2>3, GoesAs DEF Holding, Releasing
  <2> QED BY <2>1, <2>2, <2>4, AllKeep, PlainStep
<1>3. CASE StreamOpen(t) /\ UNCHANGED native
  <2> DEFINE s == [call[t] EXCEPT !.pc = "undo", !.connection = 0]
  <2>1. /\ call[t].pc = "opening" /\ call' = [call EXCEPT ![t] = s] /\ ~misused'
        /\ UNCHANGED connections /\ UNCHANGED native /\ UNCHANGED callback /\ UNCHANGED abandoned
        /\ UNCHANGED <<known, handles, quic>>
    <3>1. ASSUME NEW q \in NativeStreams, native[q].state = "unused",
                 native' = [native EXCEPT ![q] = [state |-> "open", connection |-> call[t].connection]]
          PROVE  native' # native
      <4>1. native'[q].state = "open"
        BY <3>1 DEF IInv, TypeOK
      <4> QED BY <3>1, <4>1
    <3> QED BY <1>s, <1>3, <3>1 DEF StreamOpen, Running, Uses, Become, table, history
  <2>3. s.pc = "undo" /\ s.client = call[t].client /\ s.rest = call[t].rest /\ s.connection = 0 /\ call[t].rest = {}
    BY <1>0, <2>1, NoRest DEF Calls
  <2> HIDE DEF s
  <2>4. ServedAs(call[t], s) /\ ConnectsAs(call[t], s) /\ StreamsAs(call[t], s)
    BY <2>1, <2>3, GoesAs DEF Holding, Releasing
  <2> QED BY <2>1, <2>4, AllKeep, PlainStep
<1>4. ASSUME NEW q \in NativeStreams, Abort(t, q)
      PROVE  ~misused' /\ Life'
  <2> DEFINE s == [call[t] EXCEPT !.rest = @ \ {q}]
  <2>1. /\ call[t].pc \in {"abort", "abort released"} /\ call' = [call EXCEPT ![t] = s] /\ ~misused'
        /\ UNCHANGED connections /\ UNCHANGED native /\ UNCHANGED callback /\ UNCHANGED abandoned
        /\ UNCHANGED <<known, handles, quic>>
    BY <1>0, <1>s, <1>4 DEF Abort, Uses, table, history
  <2>3. /\ s.pc = call[t].pc /\ s.client = call[t].client /\ s.rest = call[t].rest \ {q}
        /\ s.connection = call[t].connection
    BY <1>0, <2>1 DEF Calls
  <2> HIDE DEF s
  <2>4. ServedAs(call[t], s) /\ ConnectsAs(call[t], s) /\ StreamsAs(call[t], s)
    BY <2>1, <2>3, GoesAs DEF Holding, Releasing
  <2> QED BY <2>1, <2>4, AllKeep, PlainStep
<1> QED BY <1>1, <1>2, <1>3, <1>4

\* Steps that begin a call, and those of one.
LEMMA BeginningLives ==
  ASSUME IInv, IInv', NamesInv, Life, ~misused, NEW t \in Threads, NEW i \in Ids,
         \/ wt_client_connect(t, i) \/ wt_session_open_bidi_stream(t, i)
         \/ wt_client_shutdown(t, i) \/ wt_session_close(t, i)
         \/ wt_session_send_datagram(t, i) \/ wt_stream_write(t, i)
  PROVE  ~misused' /\ Life'
<1>0. handles \in [Ids -> Handles] /\ quic \in [Ids -> Quics] /\ next \in 1 .. MaxHandles + 1
  BY DEF IInv, TypeOK
<1>n. \A h : Allocate(h) => \A j \in Ids : HandleKeeps(j)
  <2> SUFFICES ASSUME NEW h, Allocate(h), NEW j \in Ids
               PROVE  HandleKeeps(j)
    OBVIOUS
  <2>1. next \in Ids /\ handles'[j] = IF j = next THEN h ELSE handles[j]
    BY <1>0 DEF Allocate
  <2>2. next \notin known /\ handles[next] = NoHandle
    BY <2>1, Shapes DEF NamesInv, FreshIsFree, IInv, NothingAhead
  <2> QED BY <2>1, <2>2 DEF HandleKeeps, HandleAsBefore, NoHandle
<1>c. Found(i, "session") \/ Found(i, "stream") => Found(handles[i].client, "client")
  BY DEF IInv, ChildrenHaveClient, Found
<1>1. CASE wt_client_connect(t, i)
  <2>1. /\ call[t].pc = "idle" /\ Begin(t, "connect", i, next) /\ Found(i, "client") /\ ~misused'
        /\ UNCHANGED connections /\ UNCHANGED native /\ UNCHANGED callback /\ UNCHANGED abandoned
        /\ UNCHANGED <<known, quic>>
        /\ \A j \in Ids : HandleKeeps(j)
    BY <1>n, <1>1 DEF wt_client_connect, Running, Usable, history
  <2> QED BY <2>1, NewAs, AllKeep, PlainStep
<1>2. CASE wt_session_open_bidi_stream(t, i)
  <2>1. /\ call[t].pc = "idle" /\ Begin(t, "open", handles[i].client, next) /\ Found(handles[i].client, "client") /\ ~misused'
        /\ UNCHANGED connections /\ UNCHANGED native /\ UNCHANGED callback /\ UNCHANGED abandoned
        /\ UNCHANGED <<known, quic>>
        /\ \A j \in Ids : HandleKeeps(j)
    BY <1>n, <1>2 DEF wt_session_open_bidi_stream, Running, Usable, history
  <2> QED BY <2>1, NewAs, AllKeep, PlainStep
<1>3. CASE wt_client_shutdown(t, i)
  <2>1. /\ call[t].pc = "idle" /\ Begin(t, "shutdown", i, 0) /\ Found(i, "client") /\ ~misused'
        /\ UNCHANGED connections /\ UNCHANGED native /\ UNCHANGED callback /\ UNCHANGED abandoned
        /\ UNCHANGED <<known, handles>>
        /\ quic' = [quic EXCEPT ![i].closing = TRUE]
    BY <1>3 DEF wt_client_shutdown, Running, Usable, history, table
  <2>2. \A c \in Ids : ContextKeeps(c)
    <3>1. \A c \in Ids : /\ quic'[c].streams = quic[c].streams /\ quic'[c].doomed = quic[c].doomed
                         /\ quic'[c].life = quic[c].life /\ quic'[c].connection = quic[c].connection
      BY <1>0, <2>1 DEF Quics
    <3> QED BY <3>1 DEF ContextKeeps, ContextAsBefore, Freed
  <2> QED BY <2>1, <2>2, NewAs, AllKeep, PlainStep
<1>4. CASE wt_session_close(t, i) \/ wt_session_send_datagram(t, i)
  <2>1. PICK pc \in {"shutdown", "datagram"} :
          /\ call[t].pc = "idle" /\ Begin(t, pc, handles[i].client, 0) /\ Found(i, "session") /\ ~misused'
          /\ UNCHANGED connections /\ UNCHANGED native /\ UNCHANGED callback /\ UNCHANGED abandoned
          /\ UNCHANGED <<known, quic, handles>>
    BY <1>4 DEF wt_session_close, wt_session_send_datagram, Running, Usable, history, table
  <2> QED BY <1>c, <2>1, NewAs, AllKeep, PlainStep
<1>5. CASE wt_stream_write(t, i)
  <2>1. /\ call[t].pc = "idle" /\ Begin(t, "send", handles[i].client, i) /\ Found(i, "stream") /\ ~misused'
        /\ i \in known /\ handles'[i].kind = "stream" /\ handles'[i].client = handles[i].client
        /\ UNCHANGED connections /\ UNCHANGED native /\ UNCHANGED callback /\ UNCHANGED abandoned
        /\ UNCHANGED <<known, quic, handles>>
    BY <1>5 DEF wt_stream_write, Running, Usable, Found, history, table
  <2> QED BY <1>c, <2>1, NewAs, AllKeep, PlainStep
<1> QED BY <1>1, <1>2, <1>3, <1>4, <1>5

LEMMA TableLives ==
  ASSUME IInv, IInv', NamesInv, Life, ~misused, NEW t \in Threads,
         wt_client_create(t) \/ \E i \in Ids : ReleaseSession(t, i)
  PROVE  ~misused' /\ Life'
<1>0. handles \in [Ids -> Handles] /\ quic \in [Ids -> Quics] /\ next \in 1 .. MaxHandles + 1
      /\ call \in [Threads -> Calls]
  BY DEF IInv, TypeOK
<1>s. ServedAs(call[t], call[t]) /\ ConnectsAs(call[t], call[t]) /\ StreamsAs(call[t], call[t])
  BY DEF ServedAs, ConnectsAs, StreamsAs
<1>1. CASE wt_client_create(t)
  <2>1. PICK a \in Addresses :
          quic' = [quic EXCEPT ![next] = [NoQuic EXCEPT !.life = "live", !.attached = TRUE, !.address = a]]
    BY <1>1 DEF wt_client_create
  <2>2. /\ next \in Ids /\ handles' = [handles EXCEPT ![next] = ClientHandle(next)]
        /\ known' = known \cup {next} /\ ~misused' /\ call' = [call EXCEPT ![t] = call[t]]
        /\ UNCHANGED connections /\ UNCHANGED native /\ UNCHANGED callback /\ UNCHANGED abandoned
    BY <1>0, <1>1 DEF wt_client_create, Allocate, history
  <2>3. next \notin known /\ handles[next] = NoHandle /\ quic[next] = NoQuic
    BY <2>2, Shapes DEF NamesInv, FreshIsFree, IInv, NothingAhead
  <2>4. \A j \in Ids : HandleKeeps(j)
    <3>1. \A j \in Ids : handles'[j] = handles[j] \/ j = next
      BY <1>0, <2>2
    <3> QED BY <2>3, <3>1 DEF HandleKeeps, HandleAsBefore, NoHandle
  <2>5. ASSUME NEW c \in Ids PROVE ContextKeeps(c)
    <3>1. CASE c = next
      <4>1. /\ quic[c].streams = {} /\ quic[c].doomed = {} /\ quic[c].connection = 0 /\ quic[c].life = "none"
            /\ quic'[c].streams = {} /\ quic'[c].doomed = {} /\ quic'[c].connection = 0 /\ quic'[c].life = "live"
        BY <1>0, <2>1, <2>2, <2>3, <3>1 DEF NoQuic
      <4> QED BY <4>1 DEF ContextKeeps, ContextAsBefore
    <3>2. CASE c # next
      <4>1. quic'[c] = quic[c]
        BY <1>0, <2>1, <3>2
      <4> QED BY <4>1 DEF ContextKeeps, ContextAsBefore, Freed
    <3> QED BY <3>1, <3>2
  <2> QED BY <1>s, <2>2, <2>4, <2>5, PlainStep
<1>2. ASSUME NEW i \in Ids, ReleaseSession(t, i)
      PROVE  ~misused' /\ Life'
  <2>1. /\ handles[i].kind = "session" /\ handles' = [handles EXCEPT ![i] = NoHandle]
        /\ known' = known /\ ~misused' /\ call' = [call EXCEPT ![t] = call[t]]
        /\ UNCHANGED connections /\ UNCHANGED native /\ UNCHANGED callback /\ UNCHANGED abandoned /\ UNCHANGED quic
    BY <1>0, <1>2 DEF ReleaseSession, Usable, Found, history
  <2>2. \A j \in Ids : HandleKeeps(j)
    <3>1. \A j \in Ids : handles'[j] = handles[j] \/ (j = i /\ handles'[j].kind = "none")
      BY <1>0, <2>1 DEF NoHandle
    <3> QED BY <2>1, <3>1 DEF HandleKeeps, HandleAsBefore
  <2> QED BY <1>s, <2>1, <2>2, AllKeep, PlainStep
<1> QED BY <1>1, <1>2

CallsGoOn == \A t \in Threads : ServedAs(call[t], call'[t]) /\ StreamsAs(call[t], call'[t])
ContextLives(c) == ContextAsBefore(c) /\ (quic[c].life = "live" => quic'[c].life = "live")

\* A step that is about connections.
LEMMA LinkStep ==
  ASSUME IInv, IInv', NamesInv, Life, ConnectionsInUse', CallsGoOn,
         ClientsKeep, \A q \in NativeStreams : CutAtMost(q),
         UNCHANGED callback, UNCHANGED abandoned, known \subseteq known',
         \A c \in Ids : ContextLives(c),
         UNCHANGED handles
  PROVE  Life'
<1>l. CallsAreServed /\ ConnectionsInUse /\ StreamsInUse
  BY DEF Life
<1>1. CallsAreServed'
  <2>1. \A c \in Ids : quic[c].life = "live" => quic'[c].life = "live"
    BY DEF ContextLives
  <2> QED BY <1>l, <2>1, ServedFrame DEF CallsGoOn
<1>2. StreamsInUse'
  <2>1. \A i \in known : HandleAsBefore(i)
    BY DEF HandleAsBefore
  <2>2. \A c \in Ids : ContextAsBefore(c)
    BY DEF ContextLives
  <2>3. PlainStreams
    <3>1. \A u \in Threads : HandleServes(u)
      BY <1>l, <2>1, ServesAsBefore DEF StreamsInUse
    <3> QED BY <2>2, <3>1 DEF PlainStreams, StillStreams, CallsGoOn
  <2> QED BY <1>l, <2>3, PlainStreamsKeep
<1> QED BY <1>l, <1>1, <1>2 DEF Life

LEMMA SameStreams ==
  /\ native' = native => \A q \in NativeStreams : CutAtMost(q)
  /\ connections' = connections => ClientsKeep
  BY DEF CutAtMost, ClientsKeep

LEMMA CloseCuts ==
  ASSUME IInv, NEW k \in Ids, CloseConnection(k)
  PROVE  /\ ClientsKeep /\ \A q \in NativeStreams : CutAtMost(q)
         /\ \A j \in Ids : connections'[j] = IF j = k THEN [connections[k] EXCEPT !.state = "closed"] ELSE connections[j]
         /\ \A j \in Ids : connections'[j].client = connections[j].client
         /\ \A j \in Ids : connections'[j].state = "closed" <=> j = k \/ connections[j].state = "closed"
         /\ ~misused /\ ~Over(k) => ~misused'
<1>0. connections \in [Ids -> Connections] /\ native \in [NativeStreams -> Natives]
  BY DEF IInv, TypeOK
<1>1. \A j \in Ids : connections'[j] = IF j = k THEN [connections[k] EXCEPT !.state = "closed"] ELSE connections[j]
  BY <1>0 DEF CloseConnection
<1>2. connections[k] \in Connections
  BY <1>0
<1>3. /\ [connections[k] EXCEPT !.state = "closed"].state = "closed"
      /\ [connections[k] EXCEPT !.state = "closed"].client = connections[k].client
  BY <1>2 DEF Connections
<1>4. \A q \in NativeStreams : CutAtMost(q)
  <2> SUFFICES ASSUME NEW q \in NativeStreams PROVE CutAtMost(q)
    OBVIOUS
  <2>1. native[q] \in Natives
    BY <1>0
  <2>2. native'[q] = IF native[q] = [state |-> "open", connection |-> k]
                     THEN [native[q] EXCEPT !.state = "cut"] ELSE native[q]
    BY DEF CloseConnection
  <2>3. CASE native[q] = [state |-> "open", connection |-> k]
    <3>1. /\ native[q].state = "open" /\ native[q].connection = k
          /\ native'[q].state = "cut" /\ native'[q].connection = k
      BY <2>1, <2>2, <2>3 DEF Natives
    <3> QED BY <3>1 DEF CutAtMost, CloseConnection
  <2> QED BY <2>2, <2>3 DEF CutAtMost
<1>5. ~misused /\ ~Over(k) => ~misused'
  BY DEF CloseConnection, Uses
<1> QED BY <1>1, <1>3, <1>4, <1>5 DEF ClientsKeep

LEMMA CallAt ==
  ASSUME IInv, NEW t \in Threads, NEW s, call' = [call EXCEPT ![t] = s]
  PROVE  \A u \in Threads : call'[u] = IF u = t THEN s ELSE call[u]
  BY DEF IInv, TypeOK

\* A connection in a context that is closed is one a connect is about to take out.
LEMMA NotYetTakenOut ==
  ASSUME IInv, Life, NEW c \in Ids, quic[c].connection # 0,
         connections[quic[c].connection].state = "closed"
  PROVE  \E u \in Threads : /\ call[u].pc = "forget" /\ call[u].client = c
                            /\ call[u].connection = quic[c].connection
<1>1. ContextIsOpen /\ CopiesAreOpen
  BY DEF Life, ConnectionsInUse
<1>2. PICK u \in Threads : call[u].pc = "forget" /\ call[u].id = quic[c].connection
  BY <1>1 DEF ContextIsOpen
<1>3. call[u].connection = quic[c].connection
  BY <1>1, <1>2 DEF CopiesAreOpen
<1>4. connections[call[u].connection].client = call[u].client
  BY <1>1, <1>3 DEF CopiesAreOpen
<1> QED BY <1>1, <1>2, <1>3, <1>4 DEF ContextIsOpen

\* Copying the connection of a context.
LEMMA CopyKeeps ==
  ASSUME IInv, NamesInv, Life, UNCHANGED connections,
         NEW t \in Threads, call[t].pc # "idle", call[t].pc \notin Closers,
         \A u \in Others(t, call[t].client) : ~Dials(u),
         NEW s, call' = [call EXCEPT ![t] = s],
         s.client = call[t].client, s.pc \notin Closers \cup {"idle"}, s.connection = quic[call[t].client].connection,
         \A c \in Ids : quic'[c].connection = quic[c].connection /\ quic'[c].life = quic[c].life
  PROVE  ConnectionsInUse'
<1> DEFINE c == call[t].client
<1>0. c \in Ids /\ FreedIsDisconnected /\ ContextIsOpen /\ CopiesAreOpen
  BY Shapes DEF Life, ConnectionsInUse
<1>1. \A u \in Threads : call'[u] = IF u = t THEN s ELSE call[u]
  BY CallAt
<1>2. FreedIsDisconnected'
  BY <1>0 DEF FreedIsDisconnected, Freed
<1>3. ContextIsOpen'
  <2>1. \A u \in Threads : call[u].pc = "forget" => call'[u] = call[u]
    BY <1>1 DEF Closers
  <2> QED BY <1>0, <2>1 DEF ContextIsOpen
<1>4. CopiesAreOpen'
  <2>1. \A u \in Threads : call[u].pc # "idle" /\ call[u].client = c /\ u # t => call[u].pc \notin {"start", "forget"}
    BY DEF Others, Dials
  <2>2. s.connection # 0 => /\ connections[s.connection].client = c /\ connections[s.connection].state # "closed"
    BY <1>0, <2>1, NotYetTakenOut DEF ContextIsOpen, Closers
  <2>3. ASSUME NEW u \in Threads, u # t, call[u].pc \in Closers
        PROVE  s.connection # call[u].connection
    <3>1. call[u].connection # 0
      BY <2>3 DEF NamesInv, ConnectionsOfClients, Closers, Connected
    <3>2. CASE call[u].pc = "replace"
      BY <1>0, <3>2 DEF CopiesAreOpen
    <3>3. CASE call[u].pc \in {"start", "forget"}
      <4>1. connections[call[u].connection].client = call[u].client
        BY <1>0, <3>1 DEF CopiesAreOpen
      <4> QED BY <2>1, <2>2, <2>3, <3>1, <3>3, <4>1
    <3> QED BY <2>3, <3>2, <3>3 DEF Closers
  <2>4. ASSUME NEW u \in Threads, call'[u].connection # 0
        PROVE  /\ call'[u].pc # "idle"
               /\ connections'[call'[u].connection].client = call'[u].client
               /\ connections'[call'[u].connection].state = "closed" => call'[u].pc = "forget"
    BY <1>0, <1>1, <2>2, <2>4 DEF CopiesAreOpen
  <2>5. \A u \in Threads : call'[u].pc \in {"start", "forget"} => call'[u].connection = call'[u].id
    BY <1>0, <1>1 DEF CopiesAreOpen, Closers
  <2>6. \A u \in Threads, d \in Ids : call'[u].pc = "replace" => quic'[d].connection # call'[u].connection
    BY <1>0, <1>1 DEF CopiesAreOpen, Closers
  <2>7. \A u, v \in Threads : u # v /\ call'[u].pc \in Closers => call'[v].connection # call'[u].connection
    BY <1>0, <1>1, <2>3 DEF CopiesAreOpen
  <2> QED BY <2>4, <2>5, <2>6, <2>7 DEF CopiesAreOpen
<1> QED BY <1>2, <1>3, <1>4 DEF ConnectionsInUse

LEMMA CopyingLives ==
  ASSUME IInv, IInv', NamesInv, Life, ~misused, ~overlapped', NEW t \in Threads,
         FindConnection(t) \/ CopyConnection(t)
  PROVE  ~misused' /\ Life'
<1> DEFINE c == call[t].client
<1>0. call[t] \in Calls /\ (call[t].pc # "idle" => ~Freed(c))
  BY Shapes, Safely
<1>1. /\ call[t].pc \in {"open", "datagram"}
      /\ UNCHANGED <<known, handles, quic, connections, native, callback, abandoned>>
      /\ ~misused' /\ \A u \in Others(t, c) : ~Dials(u)
  BY <1>0 DEF FindConnection, CopyConnection, Running, table, Uses
<1>2. CASE (Go(t, "undo") /\ FindConnection(t)) \/ (Return(t) /\ CopyConnection(t))
  BY <1>2, GoingLives, ReturningLives
<1>3. ASSUME NEW pc \in {"opening", "datagram out"},
             Become(t, [call[t] EXCEPT !.pc = pc, !.connection = quic[c].connection])
      PROVE  Life'
  <2> DEFINE s == [call[t] EXCEPT !.pc = pc, !.connection = quic[c].connection]
  <2>1. call' = [call EXCEPT ![t] = s]
    BY <1>3 DEF Become
  <2>2. /\ s.pc = pc /\ s.client = call[t].client /\ s.connection = quic[c].connection /\ s.rest = call[t].rest
        /\ call[t].rest = {}
    BY <1>0, <1>1, NoRest DEF Calls
  <2> HIDE DEF s
  <2>3. ConnectionsInUse'
    <3>1. \A d \in Ids : quic'[d].connection = quic[d].connection /\ quic'[d].life = quic[d].life
      BY <1>1
    <3>2. s.pc \notin Closers \cup {"idle"} /\ call[t].pc \notin Closers
      BY <1>1, <2>2 DEF Closers
    <3> QED BY <1>1, <2>1, <2>2, <3>1, <3>2, CopyKeeps
  <2>4. CallsGoOn
    <3>1. ServedAs(call[t], s)
      BY <1>1, <2>2 DEF ServedAs, Releasing
    <3>2. StreamsAs(call[t], s)
      BY <1>1, <2>2 DEF StreamsAs, Holding
    <3> QED BY <2>1, <3>1, <3>2, OneCall DEF CallsGoOn
  <2>5. \A d \in Ids : ContextLives(d)
    BY <1>1 DEF ContextLives, ContextAsBefore
  <2> QED BY <1>1, <2>3, <2>4, <2>5, SameStreams, LinkStep
<1>4. \/ Go(t, "undo") /\ FindConnection(t)
      \/ Return(t) /\ CopyConnection(t)
      \/ \E pc \in {"opening", "datagram out"} : Become(t, [call[t] EXCEPT !.pc = pc, !.connection = quic[c].connection])
  BY DEF FindConnection, CopyConnection
<1> QED BY <1>1, <1>2, <1>3, <1>4

\* A connect takes over, or closes, the connection of an earlier one.
LEMMA ReplacingLives ==
  ASSUME IInv, IInv', NamesInv, Life, ~misused, ~overlapped', NEW t \in Threads,
         \/ ConnectTakes(t) /\ quic[call[t].client].connection # 0
         \/ ConnectReplaces(t)
  PROVE  ~misused' /\ Life'
<1> DEFINE c == call[t].client
           k == quic[c].connection
<1>0. call[t] \in Calls /\ quic \in [Ids -> Quics] /\ (call[t].pc # "idle" => ~Freed(c) /\ c \in Ids)
  BY Shapes, Safely DEF IInv, TypeOK
<1>p. FreedIsDisconnected /\ ContextIsOpen /\ CopiesAreOpen
  BY DEF Life, ConnectionsInUse
<1>1. CASE ConnectTakes(t) /\ k # 0
  <2> DEFINE s == [call[t] EXCEPT !.pc = "replace", !.connection = k]
  <2>1. /\ call[t].pc = "connect" /\ call' = [call EXCEPT ![t] = s] /\ ~misused'
        /\ UNCHANGED <<known, handles, connections, native, callback, abandoned>>
        /\ quic' = [quic EXCEPT ![c].connection = 0]
        /\ \A u \in Others(t, c) : call[u].connection # k
    BY <1>0, <1>1 DEF ConnectTakes, Running, Uses, Become, table
  <2>2. s.pc = "replace" /\ s.client = c /\ s.rest = call[t].rest /\ s.connection = k /\ call[t].rest = {}
    BY <1>0, <2>1, NoRest DEF Calls
  <2> HIDE DEF s
  <2>c. call' = [call EXCEPT ![t] = s]
    BY <2>1
  <2>3. \A u \in Threads : call'[u] = IF u = t THEN s ELSE call[u]
    BY <2>c, CallAt
  <2>4. \A d \in Ids : /\ quic'[d].connection = IF d = c THEN 0 ELSE quic[d].connection
                       /\ quic'[d].life = quic[d].life
                       /\ quic'[d].streams = quic[d].streams /\ quic'[d].doomed = quic[d].doomed
    BY <1>0, <2>1 DEF Quics
  <2>5. connections[k].client = c /\ connections[k].state # "closed"
    <3>1. \A u \in Threads : u # t /\ call[u].pc # "idle" /\ call[u].client = c => call[u].connection # k
      BY <2>1 DEF Others
    <3> QED BY <1>0, <1>1, <1>p, <2>1, <3>1, NotYetTakenOut DEF ContextIsOpen
  <2>6. ASSUME NEW u \in Threads, u # t PROVE call[u].connection # k
    <3>1. call[u].connection # 0 => call[u].pc # "idle" /\ connections[call[u].connection].client = call[u].client
      BY <1>p DEF CopiesAreOpen
    <3> QED BY <1>1, <2>1, <2>5, <2>6, <3>1 DEF Others
  <2>7. ConnectionsInUse'
    <3>1. FreedIsDisconnected'
      BY <1>p, <2>1, <2>4 DEF FreedIsDisconnected, Freed
    <3>2. ContextIsOpen'
      <4>1. \A u \in Threads : call[u].pc = "forget" => call'[u] = call[u]
        BY <2>1, <2>3
      <4> QED BY <1>p, <2>1, <2>4, <4>1 DEF ContextIsOpen
    <3>3. CopiesAreOpen'
      <4>1. ASSUME NEW u \in Threads, call'[u].connection # 0
            PROVE  /\ call'[u].pc # "idle"
                   /\ connections'[call'[u].connection].client = call'[u].client
                   /\ connections'[call'[u].connection].state = "closed" => call'[u].pc = "forget"
        BY <1>p, <2>1, <2>2, <2>3, <2>5, <4>1 DEF CopiesAreOpen
      <4>2. \A u \in Threads : call'[u].pc \in {"start", "forget"} => call'[u].connection = call'[u].id
        BY <1>p, <2>2, <2>3 DEF CopiesAreOpen
      <4>3. ASSUME NEW u \in Threads, NEW d \in Ids, call'[u].pc = "replace"
            PROVE  quic'[d].connection # call'[u].connection
        <5>1. CASE u = t
          <6>1. d # c /\ quic[d].connection # 0 => connections[quic[d].connection].client = d
            BY <1>p DEF ContextIsOpen
          <6> QED BY <1>1, <2>2, <2>3, <2>4, <2>5, <5>1, <6>1
        <5>2. CASE u # t
          <6>1. call[u].connection # 0 /\ call[u].pc = "replace"
            BY <2>3, <4>3, <5>2 DEF NamesInv, ConnectionsOfClients, Connected
          <6> QED BY <1>p, <2>3, <2>4, <5>2, <6>1 DEF CopiesAreOpen
        <5> QED BY <5>1, <5>2
      <4>4. \A u, v \in Threads : u # v /\ call'[u].pc \in Closers => call'[v].connection # call'[u].connection
        BY <1>p, <2>2, <2>3, <2>6 DEF CopiesAreOpen
      <4> QED BY <4>1, <4>2, <4>3, <4>4 DEF CopiesAreOpen
    <3> QED BY <3>1, <3>2, <3>3 DEF ConnectionsInUse
  <2>8. CallsGoOn
    <3>1. ServedAs(call[t], s)
      BY <2>1, <2>2 DEF ServedAs, Releasing
    <3>2. StreamsAs(call[t], s)
      BY <2>1, <2>2 DEF StreamsAs, Holding
    <3> QED BY <2>1, <3>1, <3>2, OneCall DEF CallsGoOn
  <2>9. \A d \in Ids : ContextLives(d)
    BY <2>4 DEF ContextLives, ContextAsBefore
  <2> QED BY <2>1, <2>7, <2>8, <2>9, SameStreams, LinkStep
<1>2. CASE ConnectReplaces(t)
  <2> DEFINE s == [call[t] EXCEPT !.pc = "dial", !.connection = 0]
             j == call[t].connection
  <2>1. /\ call[t].pc = "replace" /\ call' = [call EXCEPT ![t] = s] /\ CloseConnection(j)
        /\ UNCHANGED <<known, handles, quic, callback, abandoned>>
    BY <1>2 DEF ConnectReplaces, Running, Become, table, history
  <2>j. j \in Ids
    BY <2>1, Shapes DEF NamesInv, ConnectionsOfClients, Connected
  <2>2. s.pc = "dial" /\ s.client = c /\ s.rest = call[t].rest /\ s.connection = 0 /\ call[t].rest = {}
    BY <1>0, <2>1, NoRest DEF Calls
  <2> HIDE DEF s
  <2>3. \A u \in Threads : call'[u] = IF u = t THEN s ELSE call[u]
    BY <2>1, CallAt
  <2>4. /\ ClientsKeep /\ (\A q \in NativeStreams : CutAtMost(q)) /\ ~misused'
        /\ \A i \in Ids : connections'[i].client = connections[i].client
        /\ \A i \in Ids : connections'[i].state = "closed" <=> i = j \/ connections[i].state = "closed"
    BY <2>1, <2>j, CloseCuts, Safely
  <2>5. ConnectionsInUse'
    <3>1. FreedIsDisconnected'
      BY <1>p, <2>1, <2>4 DEF FreedIsDisconnected, Freed
    <3>2. ContextIsOpen'
      <4>1. \A u \in Threads : call[u].pc = "forget" => call'[u] = call[u]
        BY <2>1, <2>3
      <4>2. \A d \in Ids : quic[d].connection # j /\ (quic[d].connection # 0 => quic[d].connection \in Ids)
        BY <1>p, <2>1, Shapes DEF CopiesAreOpen
      <4> QED BY <1>p, <2>1, <2>4, <4>1, <4>2 DEF ContextIsOpen
    <3>3. CopiesAreOpen'
      <4>0. \A u \in Threads : u # t => call[u].connection # j /\ (call[u].connection # 0 => call[u].connection \in Ids)
        BY <1>p, <2>1, Shapes DEF CopiesAreOpen, Closers
      <4>1. ASSUME NEW u \in Threads, call'[u].connection # 0
            PROVE  /\ call'[u].pc # "idle"
                   /\ connections'[call'[u].connection].client = call'[u].client
                   /\ connections'[call'[u].connection].state = "closed" => call'[u].pc = "forget"
        BY <1>p, <2>2, <2>3, <2>4, <4>0, <4>1 DEF CopiesAreOpen
      <4>2. \A u \in Threads : call'[u].pc \in {"start", "forget"} => call'[u].connection = call'[u].id
        BY <1>p, <2>2, <2>3 DEF CopiesAreOpen
      <4>3. \A u \in Threads, d \in Ids : call'[u].pc = "replace" => quic'[d].connection # call'[u].connection
        BY <1>p, <2>1, <2>2, <2>3 DEF CopiesAreOpen
      <4>4. ASSUME NEW u \in Threads, NEW v \in Threads, u # v, call'[u].pc \in Closers
            PROVE  call'[v].connection # call'[u].connection
        <5>1. u # t /\ call'[u] = call[u] /\ call[u].connection # 0
          BY <2>2, <2>3, <4>4 DEF Closers, NamesInv, ConnectionsOfClients, Connected
        <5> QED BY <1>p, <2>2, <2>3, <4>4, <5>1 DEF CopiesAreOpen
      <4> QED BY <4>1, <4>2, <4>3, <4>4 DEF CopiesAreOpen
    <3> QED BY <3>1, <3>2, <3>3 DEF ConnectionsInUse
  <2>6. CallsGoOn
    <3>1. ServedAs(call[t], s)
      BY <2>1, <2>2 DEF ServedAs, Releasing
    <3>2. StreamsAs(call[t], s)
      BY <2>1, <2>2 DEF StreamsAs, Holding
    <3> QED BY <2>1, <3>1, <3>2, OneCall DEF CallsGoOn
  <2>7. \A d \in Ids : ContextLives(d)
    BY <2>1 DEF ContextLives, ContextAsBefore
  <2> QED BY <2>1, <2>4, <2>5, <2>6, <2>7, LinkStep
<1> QED BY <1>1, <1>2

\* The connection of a connect is opened.
LEMMA OpeningLives ==
  ASSUME IInv, IInv', NamesInv, Life, ~misused, NEW t \in Threads, ConnectOpens(t)
  PROVE  ~misused' /\ Life'
<1> DEFINE c == call[t].client
           k == call[t].id
<1>0. /\ call[t] \in Calls /\ call \in [Threads -> Calls] /\ quic \in [Ids -> Quics]
      /\ connections \in [Ids -> Connections]
      /\ (call[t].pc # "idle" => ~Freed(c) /\ c \in Ids)
  BY Shapes, Safely DEF IInv, TypeOK
<1>p. FreedIsDisconnected /\ ContextIsOpen /\ CopiesAreOpen
  BY DEF Life, ConnectionsInUse
<1>1. /\ call[t].pc = "dial" /\ ~misused' /\ UNCHANGED <<known, handles, native, callback, abandoned>>
  BY <1>0 DEF ConnectOpens, Running, Uses, table, history
<1>2. k \in Ids /\ connections[k].state = "none"
  BY <1>1, Shapes DEF NamesInv, ConnectionsOfClients, Allocating
<1>3. CASE Go(t, "undo") /\ UNCHANGED <<quic, connections>>
  <2> DEFINE s == [call[t] EXCEPT !.pc = "undo"]
  <2>1. call' = [call EXCEPT ![t] = s]
    BY <1>0, <1>3 DEF Go
  <2>2. /\ s.pc = "undo" /\ s.client = call[t].client /\ s.rest = call[t].rest /\ s.connection = call[t].connection
        /\ call[t].rest = {}
    BY <1>0, <1>1, NoRest DEF Calls
  <2> HIDE DEF s
  <2>3. ServedAs(call[t], s) /\ ConnectsAs(call[t], s) /\ StreamsAs(call[t], s)
    BY <1>1, <2>2, GoesAs DEF Holding, Releasing
  <2> QED BY <1>1, <1>3, <2>1, <2>3, AllKeep, PlainStep
<1>4. ASSUME quic' = [quic EXCEPT ![c].connection = k],
             connections' = [connections EXCEPT ![k] = [state |-> "open", client |-> c]],
             Become(t, [call[t] EXCEPT !.pc = "start", !.connection = k])
      PROVE  Life'
  <2> DEFINE s == [call[t] EXCEPT !.pc = "start", !.connection = k]
  <2>1. call' = [call EXCEPT ![t] = s]
    BY <1>4 DEF Become
  <2>2. /\ s.pc = "start" /\ s.client = c /\ s.id = k /\ s.rest = call[t].rest /\ s.connection = k /\ call[t].rest = {}
    BY <1>0, <1>1, NoRest DEF Calls
  <2> HIDE DEF s
  <2>3. \A u \in Threads : call'[u] = IF u = t THEN s ELSE call[u]
    BY <2>1, CallAt
  <2>4. \A d \in Ids : /\ quic'[d].connection = IF d = c THEN k ELSE quic[d].connection
                       /\ quic'[d].life = quic[d].life
                       /\ quic'[d].streams = quic[d].streams /\ quic'[d].doomed = quic[d].doomed
    BY <1>0, <1>4 DEF Quics
  <2>5. /\ \A i \in Ids : i # k => connections'[i] = connections[i]
        /\ connections'[k].state = "open" /\ connections'[k].client = c
    BY <1>0, <1>2, <1>4
  <2>6. /\ \A u \in Threads : call[u].connection # 0 => call[u].connection \in Ids /\ call[u].connection # k
        /\ \A d \in Ids : quic[d].connection # 0 => quic[d].connection \in Ids /\ quic[d].connection # k
    BY <1>2, Shapes DEF NamesInv, ConnectionsOfClients
  <2>k. k # 0
    BY <1>2, Shapes
  <2>7. ConnectionsInUse'
    <3>1. FreedIsDisconnected'
      BY <1>0, <1>1, <1>p, <2>4, <2>5 DEF FreedIsDisconnected, Freed
    <3>2. ContextIsOpen'
      <4>1. \A u \in Threads : call[u].pc = "forget" => call'[u] = call[u]
        BY <1>1, <2>3
      <4>2. ASSUME NEW d \in Ids, quic'[d].connection # 0
            PROVE  /\ connections'[quic'[d].connection].client = d
                   /\ connections'[quic'[d].connection].state = "closed" =>
                       \E u \in Threads : call'[u].pc = "forget" /\ call'[u].id = quic'[d].connection
        <5>1. CASE d = c
          BY <2>4, <2>5, <5>1
        <5>2. CASE d # c
          <6>1. quic'[d].connection = quic[d].connection /\ quic[d].connection # 0
            BY <2>4, <4>2, <5>2
          <6>2. connections'[quic[d].connection] = connections[quic[d].connection]
            BY <2>5, <2>6, <6>1
          <6> QED BY <1>p, <4>1, <6>1, <6>2 DEF ContextIsOpen
        <5> QED BY <5>1, <5>2
      <4> QED BY <4>2 DEF ContextIsOpen
    <3>3. CopiesAreOpen'
      <4>1. ASSUME NEW u \in Threads, call'[u].connection # 0
            PROVE  /\ call'[u].pc # "idle"
                   /\ connections'[call'[u].connection].client = call'[u].client
                   /\ connections'[call'[u].connection].state = "closed" => call'[u].pc = "forget"
        BY <1>p, <2>2, <2>3, <2>5, <2>6, <4>1 DEF CopiesAreOpen
      <4>2. \A u \in Threads : call'[u].pc \in {"start", "forget"} => call'[u].connection = call'[u].id
        BY <1>p, <2>2, <2>3 DEF CopiesAreOpen
      <4>3. \A u \in Threads, d \in Ids : call'[u].pc = "replace" => quic'[d].connection # call'[u].connection
        BY <1>p, <2>2, <2>3, <2>4, <2>6, <2>k DEF CopiesAreOpen
      <4>4. \A u, v \in Threads : u # v /\ call'[u].pc \in Closers => call'[v].connection # call'[u].connection
        BY <1>p, <2>2, <2>3, <2>6, <2>k DEF CopiesAreOpen
      <4> QED BY <4>1, <4>2, <4>3, <4>4 DEF CopiesAreOpen
    <3> QED BY <3>1, <3>2, <3>3 DEF ConnectionsInUse
  <2>8. CallsGoOn
    <3>1. ServedAs(call[t], s)
      BY <1>1, <2>2 DEF ServedAs, Releasing
    <3>2. StreamsAs(call[t], s)
      BY <1>1, <2>2 DEF StreamsAs, Holding
    <3> QED BY <2>1, <3>1, <3>2, OneCall DEF CallsGoOn
  <2>9. \A d \in Ids : ContextLives(d)
    BY <2>4 DEF ContextLives, ContextAsBefore
  <2>10. ClientsKeep
    BY <1>2, <2>5 DEF ClientsKeep
  <2> QED BY <1>1, <2>7, <2>8, <2>9, <2>10, SameStreams, LinkStep
<1> QED BY <1>1, <1>3, <1>4 DEF ConnectOpens

\* ... is started, or is closed when that fails, and then taken out of the context.
LEMMA StartingLives ==
  ASSUME IInv, IInv', NamesInv, Life, ~misused, NEW t \in Threads,
         ConnectStarts(t) \/ ConnectFails(t) \/ ConnectForgets(t)
  PROVE  ~misused' /\ Life'
<1> DEFINE c == call[t].client
           k == call[t].id
<1>0. /\ call[t] \in Calls /\ call \in [Threads -> Calls] /\ quic \in [Ids -> Quics]
      /\ connections \in [Ids -> Connections]
      /\ (call[t].pc # "idle" => ~Freed(c) /\ c \in Ids)
  BY Shapes, Safely DEF IInv, TypeOK
<1>p. FreedIsDisconnected /\ ContextIsOpen /\ CopiesAreOpen
  BY DEF Life, ConnectionsInUse
<1>a. call[t].pc \in {"start", "forget"}
  BY DEF ConnectStarts, ConnectFails, ConnectForgets, Running
<1>k. /\ k = call[t].connection /\ k \in Ids /\ k # 0 /\ connections[k].client = c
      /\ \A u \in Threads : u # t => call[u].connection # k
  <2>1. k = call[t].connection /\ k \in Ids /\ k # 0
    BY <1>a, <1>p, Shapes DEF CopiesAreOpen, Allocating
  <2> QED BY <1>a, <1>p, <2>1 DEF CopiesAreOpen, Closers
<1>r. call[t].rest = {}
  BY <1>a, NoRest
<1>1. CASE ConnectStarts(t)
  <2>1. /\ call[t].pc = "start" /\ Return(t) /\ known' = known \cup {k}
        /\ connections' = [connections EXCEPT ![k].state = IF @ = "open" THEN "started" ELSE @]
        /\ UNCHANGED <<handles, quic, native, callback, abandoned>>
    BY <1>1 DEF ConnectStarts, Running, ReturnId, history
  <2>m. ~misused'
    BY <1>1, <1>k, Safely DEF ConnectStarts, Uses, Running
  <2>2. /\ call' = [call EXCEPT ![t] = NoCall]
        /\ ServedAs(call[t], NoCall) /\ StreamsAs(call[t], NoCall)
    BY <2>1, EndsAs DEF Holding
  <2>3. \A u \in Threads : call'[u] = IF u = t THEN NoCall ELSE call[u]
    BY <2>2, CallAt
  <2>4. /\ \A j \in Ids : connections'[j].client = connections[j].client
        /\ \A j \in Ids : connections'[j].state = "closed" <=> connections[j].state = "closed"
        /\ \A j \in Ids : connections'[j].state = "none" <=> connections[j].state = "none"
    <3>1. connections[k] \in Connections
      BY <1>0, <1>k
    <3>2. \A j \in Ids : connections'[j] = IF j = k THEN [connections[k] EXCEPT !.state = IF @ = "open" THEN "started" ELSE @] ELSE connections[j]
      BY <1>0, <1>k, <2>1
    <3>3. /\ [connections[k] EXCEPT !.state = IF @ = "open" THEN "started" ELSE @].client = connections[k].client
          /\ [connections[k] EXCEPT !.state = IF @ = "open" THEN "started" ELSE @].state =
               IF connections[k].state = "open" THEN "started" ELSE connections[k].state
      BY <3>1 DEF Connections
    <3>4. /\ \A j \in Ids : j # k => connections'[j] = connections[j]
          /\ connections'[k].client = connections[k].client
          /\ connections'[k].state = IF connections[k].state = "open" THEN "started" ELSE connections[k].state
      BY <1>k, <3>2, <3>3
    <3> QED BY <3>4
  <2>5. ClientsKeep
    BY <2>4 DEF ClientsKeep
  <2>6. ConnectionsInUse'
    <3>1. FreedIsDisconnected'
      BY <1>p, <2>1, <2>4 DEF FreedIsDisconnected, Freed
    <3>2. ContextIsOpen'
      <4>1. \A u \in Threads : call[u].pc = "forget" => call'[u] = call[u]
        BY <2>1, <2>3
      <4>2. \A d \in Ids : quic[d].connection # 0 => quic[d].connection \in Ids
        BY Shapes
      <4> QED BY <1>p, <2>1, <2>4, <4>1, <4>2 DEF ContextIsOpen
    <3>3. CopiesAreOpen'
      <4>1. \A u \in Threads : call[u].connection # 0 => call[u].connection \in Ids
        BY Shapes
      <4>2. ASSUME NEW u \in Threads, call'[u].connection # 0
            PROVE  /\ call'[u].pc # "idle"
                   /\ connections'[call'[u].connection].client = call'[u].client
                   /\ connections'[call'[u].connection].state = "closed" => call'[u].pc = "forget"
        BY <1>p, <2>3, <2>4, <4>1, <4>2, NoCallFields DEF CopiesAreOpen
      <4>3. \A u \in Threads : call'[u].pc \in {"start", "forget"} => call'[u].connection = call'[u].id
        BY <1>p, <2>3, NoCallFields DEF CopiesAreOpen
      <4>4. \A u \in Threads, d \in Ids : call'[u].pc = "replace" => quic'[d].connection # call'[u].connection
        BY <1>p, <2>1, <2>3, NoCallFields DEF CopiesAreOpen
      <4>5. ASSUME NEW u \in Threads, NEW v \in Threads, u # v, call'[u].pc \in Closers
            PROVE  call'[v].connection # call'[u].connection
        <5>1. u # t /\ call'[u] = call[u] /\ call[u].connection # 0
          BY <2>3, <4>5, NoCallFields DEF Closers, NamesInv, ConnectionsOfClients, Connected
        <5> QED BY <1>p, <2>3, <4>5, <5>1, NoCallFields DEF CopiesAreOpen
      <4> QED BY <4>2, <4>3, <4>4, <4>5 DEF CopiesAreOpen
    <3> QED BY <3>1, <3>2, <3>3 DEF ConnectionsInUse
  <2>7. CallsGoOn
    BY <2>2, OneCall DEF CallsGoOn
  <2>8. \A d \in Ids : ContextLives(d)
    BY <2>1 DEF ContextLives, ContextAsBefore
  <2> QED BY <2>1, <2>m, <2>5, <2>6, <2>7, <2>8, SameStreams, LinkStep
<1>2. CASE ConnectFails(t)
  <2> DEFINE s == [call[t] EXCEPT !.pc = "forget"]
  <2>1. /\ call[t].pc = "start" /\ call' = [call EXCEPT ![t] = s] /\ CloseConnection(k)
        /\ UNCHANGED <<known, handles, quic, callback, abandoned>>
    BY <1>0, <1>2 DEF ConnectFails, Running, Go, table, history
  <2>2. s.pc = "forget" /\ s.client = c /\ s.id = k /\ s.rest = {} /\ s.connection = k
    BY <1>0, <1>k, <1>r, <2>1 DEF Calls
  <2> HIDE DEF s
  <2>c. call' = [call EXCEPT ![t] = s]
    BY <2>1
  <2>3. \A u \in Threads : call'[u] = IF u = t THEN s ELSE call[u]
    BY <2>c, CallAt
  <2>4. /\ ClientsKeep /\ (\A q \in NativeStreams : CutAtMost(q)) /\ ~misused'
        /\ \A i \in Ids : connections'[i].client = connections[i].client
        /\ \A i \in Ids : connections'[i].state = "closed" <=> i = k \/ connections[i].state = "closed"
    BY <1>k, <2>1, CloseCuts, Safely
  <2>5. ConnectionsInUse'
    <3>1. FreedIsDisconnected'
      BY <1>p, <2>1, <2>4 DEF FreedIsDisconnected, Freed
    <3>2. ContextIsOpen'
      <4>1. \A u \in Threads : call[u].pc = "forget" => call'[u] = call[u]
        BY <2>1, <2>3
      <4>2. \A d \in Ids : quic[d].connection # 0 => quic[d].connection \in Ids
        BY Shapes
      <4>3. call'[t].pc = "forget" /\ call'[t].id = k
        BY <2>2, <2>3
      <4> QED BY <1>p, <2>1, <2>4, <4>1, <4>2, <4>3 DEF ContextIsOpen
    <3>3. CopiesAreOpen'
      <4>0. \A u \in Threads : call[u].connection # 0 => call[u].connection \in Ids
        BY Shapes
      <4>1. ASSUME NEW u \in Threads, call'[u].connection # 0
            PROVE  /\ call'[u].pc # "idle"
                   /\ connections'[call'[u].connection].client = call'[u].client
                   /\ connections'[call'[u].connection].state = "closed" => call'[u].pc = "forget"
        BY <1>p, <1>k, <2>2, <2>3, <2>4, <4>0, <4>1 DEF CopiesAreOpen
      <4>2. \A u \in Threads : call'[u].pc \in {"start", "forget"} => call'[u].connection = call'[u].id
        BY <1>p, <2>2, <2>3 DEF CopiesAreOpen
      <4>3. \A u \in Threads, d \in Ids : call'[u].pc = "replace" => quic'[d].connection # call'[u].connection
        BY <1>p, <2>1, <2>2, <2>3 DEF CopiesAreOpen
      <4>4. \A u, v \in Threads : u # v /\ call'[u].pc \in Closers => call'[v].connection # call'[u].connection
        <5>1. \A u, v \in Threads : u # v /\ call[u].pc \in Closers => call[v].connection # call[u].connection
          BY <1>p DEF CopiesAreOpen
        <5> QED BY <1>k, <2>1, <2>2, <2>3, <5>1 DEF Closers
      <4> QED BY <4>1, <4>2, <4>3, <4>4 DEF CopiesAreOpen
    <3> QED BY <3>1, <3>2, <3>3 DEF ConnectionsInUse
  <2>6. CallsGoOn
    <3>1. ServedAs(call[t], s)
      BY <2>1, <2>2 DEF ServedAs, Releasing
    <3>2. StreamsAs(call[t], s)
      BY <1>r, <2>1, <2>2 DEF StreamsAs, Holding
    <3> QED BY <2>1, <3>1, <3>2, OneCall DEF CallsGoOn
  <2>7. \A d \in Ids : ContextLives(d)
    BY <2>1 DEF ContextLives, ContextAsBefore
  <2> QED BY <2>1, <2>4, <2>5, <2>6, <2>7, LinkStep
<1>3. CASE ConnectForgets(t)
  <2> DEFINE s == [call[t] EXCEPT !.pc = "undo", !.connection = 0]
  <2>1. /\ call[t].pc = "forget" /\ call' = [call EXCEPT ![t] = s] /\ ~misused'
        /\ quic' = [quic EXCEPT ![c].connection = 0]
        /\ UNCHANGED <<known, handles, connections, native, callback, abandoned>>
    BY <1>0, <1>3 DEF ConnectForgets, Running, Uses, Become, table, history
  <2>2. s.pc = "undo" /\ s.client = c /\ s.rest = {} /\ s.connection = 0
    BY <1>0, <1>r, <2>1 DEF Calls
  <2> HIDE DEF s
  <2>c. call' = [call EXCEPT ![t] = s]
    BY <2>1
  <2>3. \A u \in Threads : call'[u] = IF u = t THEN s ELSE call[u]
    BY <2>c, CallAt
  <2>4. \A d \in Ids : /\ quic'[d].connection = IF d = c THEN 0 ELSE quic[d].connection
                       /\ quic'[d].life = quic[d].life
                       /\ quic'[d].streams = quic[d].streams /\ quic'[d].doomed = quic[d].doomed
    BY <1>0, <2>1 DEF Quics
  <2>5. ConnectionsInUse'
    <3>1. FreedIsDisconnected'
      BY <1>p, <2>1, <2>4 DEF FreedIsDisconnected, Freed
    <3>2. ContextIsOpen'
      <4>1. ASSUME NEW d \in Ids, quic'[d].connection # 0
            PROVE  /\ connections[quic'[d].connection].client = d
                   /\ connections[quic'[d].connection].state = "closed" =>
                       \E u \in Threads : call'[u].pc = "forget" /\ call'[u].id = quic'[d].connection
        <5>1. d # c /\ quic'[d].connection = quic[d].connection /\ quic[d].connection # 0
          BY <2>4, <4>1
        <5>2. quic[d].connection # k
          BY <1>k, <1>p, <5>1 DEF ContextIsOpen
        <5> QED BY <1>p, <2>3, <5>1, <5>2 DEF ContextIsOpen
      <4> QED BY <2>1, <4>1 DEF ContextIsOpen
    <3>3. CopiesAreOpen'
      <4>1. ASSUME NEW u \in Threads, call'[u].connection # 0
            PROVE  /\ call'[u].pc # "idle"
                   /\ connections'[call'[u].connection].client = call'[u].client
                   /\ connections'[call'[u].connection].state = "closed" => call'[u].pc = "forget"
        BY <1>p, <2>1, <2>2, <2>3, <4>1 DEF CopiesAreOpen
      <4>2. \A u \in Threads : call'[u].pc \in {"start", "forget"} => call'[u].connection = call'[u].id
        BY <1>p, <2>2, <2>3 DEF CopiesAreOpen
      <4>3. ASSUME NEW u \in Threads, NEW d \in Ids, call'[u].pc = "replace"
            PROVE  quic'[d].connection # call'[u].connection
        <5>1. u # t /\ call'[u] = call[u] /\ call[u].connection # 0
          BY <2>2, <2>3, <4>3 DEF NamesInv, ConnectionsOfClients, Connected
        <5> QED BY <1>p, <2>4, <4>3, <5>1 DEF CopiesAreOpen
      <4>4. ASSUME NEW u \in Threads, NEW v \in Threads, u # v, call'[u].pc \in Closers
            PROVE  call'[v].connection # call'[u].connection
        <5>1. u # t /\ call'[u] = call[u] /\ call[u].connection # 0
          BY <2>2, <2>3, <4>4 DEF Closers, NamesInv, ConnectionsOfClients, Connected
        <5> QED BY <1>p, <2>2, <2>3, <4>4, <5>1 DEF CopiesAreOpen
      <4> QED BY <4>1, <4>2, <4>3, <4>4 DEF CopiesAreOpen
    <3> QED BY <3>1, <3>2, <3>3 DEF ConnectionsInUse
  <2>6. CallsGoOn
    <3>1. ServedAs(call[t], s)
      BY <2>1, <2>2 DEF ServedAs, Releasing
    <3>2. StreamsAs(call[t], s)
      BY <1>r, <2>1, <2>2 DEF StreamsAs, Holding
    <3> QED BY <2>1, <3>1, <3>2, OneCall DEF CallsGoOn
  <2>7. \A d \in Ids : ContextLives(d)
    BY <2>4 DEF ContextLives, ContextAsBefore
  <2> QED BY <2>1, <2>5, <2>6, <2>7, SameStreams, LinkStep
<1> QED BY <1>1, <1>2, <1>3

\* No call is on a client that is being destroyed.
LEMMA NobodyThere ==
  ASSUME IInv, Life, NEW c \in Ids, quic[c].life # "live"
  PROVE  /\ \A u \in Threads : call[u].pc = "idle" \/ call[u].client # c
         /\ \A u \in Threads : call[u].connection # 0 => connections[call[u].connection].client # c
         /\ ~Over(quic[c].connection)
<1>1. \A u \in Threads : call[u].pc = "idle" \/ call[u].client # c
  BY DEF Life, CallsAreServed
<1>2. \A u \in Threads : call[u].connection # 0 => connections[call[u].connection].client # c
  BY <1>1 DEF Life, ConnectionsInUse, CopiesAreOpen
<1>3. ~Over(quic[c].connection)
  BY <1>1, NotYetTakenOut, Shapes DEF Over
<1> QED BY <1>1, <1>2, <1>3

\* The end of a destroy.
LEMMA DestroyingLives ==
  ASSUME IInv, IInv', NamesInv, Life, ~misused, NEW c \in Ids,
         DestroyDisconnects(c) \/ DestroyFrees(c)
  PROVE  ~misused' /\ Life'
<1>0. quic \in [Ids -> Quics]
  BY DEF IInv, TypeOK
<1>p. FreedIsDisconnected /\ ContextIsOpen /\ CopiesAreOpen
  BY DEF Life, ConnectionsInUse
<1>a. quic[c].life = "closing" /\ quic[c].doomed = {} /\ UNCHANGED <<known, handles, call, callback, abandoned>>
  BY DEF DestroyDisconnects, DestroyFrees, table, history
<1>u. \A u \in Threads : call'[u] = call[u]
  BY <1>a
<1>c. CallsGoOn
  BY <1>u DEF CallsGoOn, ServedAs, StreamsAs
<1>1. CASE DestroyDisconnects(c)
  <2> DEFINE k == quic[c].connection
  <2>1. k # 0 /\ k \in Ids /\ CloseConnection(k) /\ quic' = [quic EXCEPT ![c].connection = 0]
    BY <1>1, Shapes DEF DestroyDisconnects
  <2>2. /\ ClientsKeep /\ (\A q \in NativeStreams : CutAtMost(q)) /\ ~misused'
        /\ \A i \in Ids : connections'[i].client = connections[i].client
        /\ \A i \in Ids : connections'[i].state = "closed" <=> i = k \/ connections[i].state = "closed"
    BY <1>a, <2>1, CloseCuts, NobodyThere
  <2>3. \A d \in Ids : /\ quic'[d].connection = IF d = c THEN 0 ELSE quic[d].connection
                       /\ quic'[d].life = quic[d].life
                       /\ quic'[d].streams = quic[d].streams /\ quic'[d].doomed = quic[d].doomed
    BY <1>0, <2>1 DEF Quics
  <2>4. \A u \in Threads : call[u].connection # 0 => call[u].connection \in Ids /\ call[u].connection # k
    BY <1>a, <1>p, <2>1, NobodyThere, Shapes DEF ContextIsOpen
  <2>5. ConnectionsInUse'
    <3>1. FreedIsDisconnected'
      BY <1>p, <2>2, <2>3 DEF FreedIsDisconnected, Freed
    <3>2. ContextIsOpen'
      <4>1. \A d \in Ids : quic'[d].connection # 0 =>
              /\ quic'[d].connection = quic[d].connection /\ quic[d].connection # 0
              /\ quic[d].connection \in Ids /\ quic[d].connection # k
        BY <1>p, <2>1, <2>3, Shapes DEF ContextIsOpen
      <4> QED BY <1>p, <1>u, <2>2, <4>1 DEF ContextIsOpen
    <3>3. CopiesAreOpen'
      <4>1. \A u \in Threads, d \in Ids : call[u].pc = "replace" => quic'[d].connection # call[u].connection
        <5>1. \A u \in Threads : call[u].pc = "replace" => call[u].connection # 0
          BY DEF NamesInv, ConnectionsOfClients, Connected
        <5> QED BY <1>p, <2>3, <5>1 DEF CopiesAreOpen
      <4> QED BY <1>p, <1>u, <2>2, <2>4, <4>1 DEF CopiesAreOpen
    <3> QED BY <3>1, <3>2, <3>3 DEF ConnectionsInUse
  <2>6. \A d \in Ids : ContextLives(d)
    BY <2>3 DEF ContextLives, ContextAsBefore
  <2> QED BY <1>a, <1>c, <2>2, <2>5, <2>6, LinkStep
<1>2. CASE DestroyFrees(c)
  <2>1. /\ quic' = [quic EXCEPT ![c].life = "freed"] /\ ~misused' /\ UNCHANGED <<connections, native>>
        /\ \A k \in Ids : connections[k].client = c => connections[k].state = "closed"
    BY <1>2 DEF DestroyFrees
  <2>2. \A d \in Ids : /\ quic'[d].connection = quic[d].connection
                       /\ quic'[d].life = IF d = c THEN "freed" ELSE quic[d].life
                       /\ quic'[d].streams = quic[d].streams /\ quic'[d].doomed = quic[d].doomed
    BY <1>0, <2>1 DEF Quics
  <2>3. ConnectionsInUse'
    <3>1. FreedIsDisconnected'
      BY <1>p, <2>1, <2>2 DEF FreedIsDisconnected, Freed
    <3>2. ContextIsOpen'
      BY <1>p, <1>u, <2>1, <2>2 DEF ContextIsOpen
    <3>3. CopiesAreOpen'
      BY <1>p, <1>u, <2>1, <2>2 DEF CopiesAreOpen
    <3> QED BY <3>1, <3>2, <3>3 DEF ConnectionsInUse
  <2>4. \A d \in Ids : ContextLives(d)
    BY <1>a, <2>2 DEF ContextLives, ContextAsBefore
  <2> QED BY <1>a, <1>c, <2>1, <2>3, <2>4, SameStreams, LinkStep
<1> QED BY <1>1, <1>2

\* The release of a client: nobody else is on it.
LEMMA ReleasingLives ==
  ASSUME IInv, IInv', NamesInv, Life, ~misused, ~overlapped', NEW t \in Threads, NEW i \in Ids, ReleaseClient(t, i)
  PROVE  ~misused' /\ Life'
<1>0. /\ handles \in [Ids -> Handles] /\ quic \in [Ids -> Quics]
  BY DEF IInv, TypeOK
<1>p. CallsAreServed /\ ConnectionsInUse /\ StreamsInUse
  BY DEF Life
<1>1. /\ call[t].pc = "idle" /\ Found(i, "client") /\ Begin(t, "released", i, 0) /\ handles' = WithoutClient(i)
      /\ quic' = [quic EXCEPT ![i].closing = TRUE]
      /\ \A u \in Threads : u # t /\ call[u].pc # "idle" => call[u].client # i
      /\ UNCHANGED <<known, connections, native, callback, abandoned>> /\ ~misused'
  BY DEF ReleaseClient, Running, Usable, Others
<1>2. PICK s : /\ call' = [call EXCEPT ![t] = s]
               /\ s.pc = "released" /\ s.client = i /\ s.id = 0
               /\ s.connection = 0 /\ s.rest = {} /\ s.native = NoNative
  BY <1>1, Begins
<1>3. \A u \in Threads : call'[u] = IF u = t THEN s ELSE call[u]
  BY <1>2, CallAt
<1>4. \A c \in Ids : /\ quic'[c].connection = quic[c].connection /\ quic'[c].life = quic[c].life
                     /\ quic'[c].streams = quic[c].streams /\ quic'[c].doomed = quic[c].doomed
  BY <1>0, <1>1 DEF Quics
<1>5. \A j \in Ids : handles[j].client # i => handles'[j] = handles[j]
  BY <1>0, <1>1 DEF WithoutClient
<1>6. CallsAreServed'
  <2>1. ASSUME NEW u \in Threads, call'[u].pc # "idle"
        PROVE  /\ quic'[call'[u].client].life = "live"
               /\ call'[u].pc \in Releasing \/ Found(call[u].client, "client")'
    <3>1. CASE u = t
      BY <1>1, <1>2, <1>3, <1>4, <3>1 DEF NamesInv, OneAddress, Releasing, Found
    <3>2. CASE u # t
      <4>1. /\ call'[u] = call[u] /\ call[u].pc # "idle" /\ call[u].client \in Ids /\ call[u].client # i
            /\ quic[call[u].client].life = "live" /\ (call[u].pc \in Releasing \/ Found(call[u].client, "client"))
        BY <1>1, <1>3, <1>p, <2>1, <3>2, Shapes DEF CallsAreServed
      <4>2. Found(call[u].client, "client") => handles[call[u].client].client = call[u].client
        BY DEF IInv, ClientsNameThemselves, Found
      <4> QED BY <1>4, <1>5, <4>1, <4>2 DEF Found
    <3> QED BY <3>1, <3>2
  <2>2. ASSUME NEW u \in Threads, NEW v \in Threads, u # v, call'[u].pc \in Releasing, call'[v].pc # "idle"
        PROVE  call'[v].client # call'[u].client
    <3>1. CASE u = t
      BY <1>1, <1>2, <1>3, <2>2, <3>1
    <3>2. CASE v = t
      <4>1. call[u].pc # "idle" /\ call'[u] = call[u]
        BY <1>3, <2>2, <3>2 DEF Releasing
      <4> QED BY <1>1, <1>2, <1>3, <2>2, <3>2, <4>1
    <3>3. CASE u # t /\ v # t
      BY <1>3, <1>p, <2>2, <3>3 DEF CallsAreServed
    <3> QED BY <3>1, <3>2, <3>3
  <2> QED BY <2>1, <2>2 DEF CallsAreServed
<1>7. ConnectionsInUse'
  <2>1. ConnectsAs(call[t], s)
    BY <1>1, <1>2 DEF ConnectsAs, Closers
  <2>2. \A u \in Threads : ConnectsAs(call[u], call'[u])
    BY <1>2, <2>1, OneCall
  <2>3. \A c \in Ids : quic'[c].connection \in {0, quic[c].connection} /\ (quic'[c].life = "freed" => Freed(c))
    BY <1>4 DEF Freed
  <2> QED BY <1>1, <1>p, <2>2, <2>3, ConnectionsFrame
<1>8. StreamsInUse'
  <2>1. StreamsAs(call[t], s)
    BY <1>1, <1>2 DEF StreamsAs, Holding
  <2>2. \A u \in Threads : StreamsAs(call[u], call'[u])
    BY <1>2, <2>1, OneCall
  <2>3. \A c \in Ids : ContextAsBefore(c)
    BY <1>4 DEF ContextAsBefore
  <2>4. ASSUME NEW u \in Threads PROVE HandleServes(u)
    <3>1. SUFFICES ASSUME call'[u] = call[u]
                   PROVE  /\ call[u].pc \in {"send", "sending"} => handles'[call[u].id] = handles[call[u].id]
                          /\ call[u].pc = "closing" => (handles[call[u].id].kind = "none" => handles'[call[u].id].kind = "none")
      BY DEF HandleServes
    <3>2. u # t
      BY <1>1, <1>2, <1>3, <3>1
    <3>3. CASE call[u].pc \in {"send", "sending"}
      <4>1. handles[call[u].id].client = call[u].client /\ call[u].id \in Ids /\ call[u].client # i
        BY <1>1, <1>p, <3>2, <3>3, Shapes DEF StreamsInUse, OnStreams
      <4> QED BY <1>5, <3>3, <4>1
    <3>4. CASE call[u].pc = "closing"
      <4>1. call[u].id \in Ids
        BY <1>p, <3>4, Shapes DEF StreamsInUse, OnStreams
      <4>2. handles'[call[u].id] \in {handles[call[u].id], NoHandle}
        BY <1>1, <4>1 DEF WithoutClient
      <4> QED BY <3>4, <4>2 DEF NoHandle
    <3> QED BY <3>3, <3>4
  <2>5. PlainStreams
    BY <1>1, <2>2, <2>3, <2>4, SameStreams DEF PlainStreams, StillStreams
  <2> QED BY <1>p, <2>5, PlainStreamsKeep
<1> QED BY <1>1, <1>6, <1>7, <1>8 DEF Life

\* The context goes to a destroy.
LEMMA FreeingLives ==
  ASSUME IInv, IInv', NamesInv, Life, ~misused, NEW t \in Threads, FreeContext(t)
  PROVE  ~misused' /\ Life'
<1> DEFINE c == call[t].client
<1>0. quic \in [Ids -> Quics]
  BY DEF IInv, TypeOK
<1>p. CallsAreServed /\ ConnectionsInUse /\ StreamsInUse
  BY DEF Life
<1>1. /\ call[t].pc = "abort released" /\ Return(t) /\ c \in Ids
      /\ quic' = [quic EXCEPT ![c].address = NoNative, ![c].life = "destroying"]
      /\ UNCHANGED <<known, handles, connections, native, callback, abandoned>> /\ ~misused'
  BY Safely, Shapes DEF FreeContext, Running, table, history, Uses
<1>2. /\ call' = [call EXCEPT ![t] = NoCall] /\ NoCall.pc = "idle"
      /\ ConnectsAs(call[t], NoCall) /\ StreamsAs(call[t], NoCall)
  BY <1>1, EndsAs, NoCallFields DEF Holding
<1>3. \A u \in Threads : call'[u] = IF u = t THEN NoCall ELSE call[u]
  BY <1>2, CallAt
<1>4. \A d \in Ids : /\ quic'[d].connection = quic[d].connection
                     /\ quic'[d].life = IF d = c THEN "destroying" ELSE quic[d].life
                     /\ quic'[d].streams = quic[d].streams /\ quic'[d].doomed = quic[d].doomed
  BY <1>0, <1>1 DEF Quics
<1>6. CallsAreServed'
  <2>1. ASSUME NEW u \in Threads, call'[u].pc # "idle"
        PROVE  u # t /\ call'[u] = call[u] /\ call[u].pc # "idle" /\ call[u].client # c /\ call[u].client \in Ids
    <3>1. u # t /\ call'[u] = call[u] /\ call[u].pc # "idle" /\ call[u].client \in Ids
      BY <1>2, <1>3, <2>1, Shapes
    <3>2. call[u].client # c
      BY <1>1, <1>p, <3>1 DEF CallsAreServed, Releasing
    <3> QED BY <3>1, <3>2
  <2>2. ASSUME NEW u \in Threads, call'[u].pc # "idle"
        PROVE  /\ quic'[call'[u].client].life = "live"
               /\ call'[u].pc \in Releasing \/ Found(call[u].client, "client")'
    <3>1. call'[u] = call[u] /\ call[u].pc # "idle" /\ call[u].client # c /\ call[u].client \in Ids
      BY <2>1, <2>2
    <3>2. quic[call[u].client].life = "live" /\ (call[u].pc \in Releasing \/ Found(call[u].client, "client"))
      BY <1>p, <3>1 DEF CallsAreServed
    <3> QED BY <1>1, <1>4, <3>1, <3>2 DEF Found
  <2>3. ASSUME NEW u \in Threads, NEW v \in Threads, u # v, call'[u].pc \in Releasing, call'[v].pc # "idle"
        PROVE  call'[v].client # call'[u].client
    <3>1. call'[u] = call[u] /\ call'[v] = call[v]
      BY <2>1, <2>3 DEF Releasing
    <3> QED BY <1>p, <2>3, <3>1 DEF CallsAreServed
  <2> QED BY <2>2, <2>3 DEF CallsAreServed
<1>7. ConnectionsInUse'
  <2>2. \A u \in Threads : ConnectsAs(call[u], call'[u])
    BY <1>2, OneCall
  <2>3. \A d \in Ids : quic'[d].connection \in {0, quic[d].connection} /\ (quic'[d].life = "freed" => Freed(d))
    BY <1>4 DEF Freed
  <2> QED BY <1>1, <1>p, <2>2, <2>3, ConnectionsFrame
<1>8. StreamsInUse'
  <2>2. \A u \in Threads : StreamsAs(call[u], call'[u])
    BY <1>2, OneCall
  <2>3. \A d \in Ids : ContextAsBefore(d)
    <3>1. quic[c].life = "live"
      BY <1>1, <1>p DEF CallsAreServed
    <3>2. quic[c].doomed = {}
      BY <1>1, <1>p, <3>1 DEF StreamsInUse, HeldByDestroys
    <3> QED BY <1>4, <3>2 DEF ContextAsBefore
  <2>4. \A u \in Threads : HandleServes(u)
    BY <1>1 DEF HandleServes
  <2>5. PlainStreams
    BY <1>1, <2>2, <2>3, <2>4, SameStreams DEF PlainStreams, StillStreams
  <2> QED BY <1>p, <2>5, PlainStreamsKeep
<1> QED BY <1>1, <1>6, <1>7, <1>8 DEF Life

\* A destroy takes the list, ...
LEMMA TakingLives ==
  ASSUME IInv, IInv', NamesInv, Life, ~misused, NEW c \in Ids, DestroyTakes(c)
  PROVE  ~misused' /\ Life'
<1>0. quic \in [Ids -> Quics]
  BY DEF IInv, TypeOK
<1>p. /\ CallsAreServed /\ ConnectionsInUse /\ StreamsInUse /\ NativelyTyped
      /\ StreamsHaveHomes /\ HeldByCalls /\ HeldByCallbacks /\ HeldByLists /\ HeldByDestroys /\ OnStreams /\ InUse
      /\ NothingForgotten
  BY Natively DEF Life, StreamsInUse
<1>1. /\ quic[c].life = "destroying"
      /\ quic' = [quic EXCEPT ![c].life = "closing", ![c].doomed = Listed(c), ![c].streams = {}]
      /\ UNCHANGED <<known, handles, connections, native, call, callback, abandoned>>
  BY DEF DestroyTakes, table, history
<1>2. \A q \in Listed(c) : q \in NativeStreams /\ Whole(q, c)
  <2> SUFFICES ASSUME NEW e \in quic[c].streams
               PROVE  e.native \in NativeStreams /\ Whole(e.native, c)
    BY DEF Listed
  <2>1. /\ native[e.native].state # "unused" /\ Home(e.native) = c /\ e.native \in NativeStreams
        /\ native[e.native].state = "closed" =>
             \E t \in Threads : call[t].pc = "unlist" /\ call[t].native = e.native
    BY <1>p DEF HeldByLists, NativelyTyped
  <2>2. \A t \in Threads : call[t].pc = "unlist" /\ call[t].native = e.native => call[t].client = c
    BY <1>p, <2>1 DEF HeldByCalls, Holding
  <2>3. \A t \in Threads : ~(call[t].pc = "unlist" /\ call[t].native = e.native)
    BY <1>1, <2>2, NobodyThere
  <2> QED BY <2>1, <2>3 DEF Whole
<1>m. ~misused'
  BY <1>1, <1>2, NobodyThere DEF DestroyTakes, Uses, Closed, Whole
<1>4. \A d \in Ids : /\ quic'[d].connection = quic[d].connection
                     /\ quic'[d].life = IF d = c THEN "closing" ELSE quic[d].life
                     /\ quic'[d].streams = IF d = c THEN {} ELSE quic[d].streams
                     /\ quic'[d].doomed = IF d = c THEN Listed(c) ELSE quic[d].doomed
  BY <1>0, <1>1 DEF Quics
<1>u. (\A t \in Threads : call'[t] = call[t]) /\ (\A k \in Ids : callback'[k] = callback[k])
  BY <1>1
<1>6. CallsAreServed'
  <2>1. \A t \in Threads : ServedAs(call[t], call'[t])
    BY <1>u DEF ServedAs
  <2>2. /\ \A d \in Ids : quic[d].life = "live" => quic'[d].life = "live"
        /\ \A d \in Ids : handles[d].kind = "client" => handles'[d].kind = "client"
    BY <1>1, <1>4
  <2> QED BY <1>p, <2>1, <2>2, ServedFrame
<1>7. ConnectionsInUse'
  <2>2. \A t \in Threads : ConnectsAs(call[t], call'[t])
    BY <1>u DEF ConnectsAs
  <2>3. \A d \in Ids : quic'[d].connection \in {0, quic[d].connection} /\ (quic'[d].life = "freed" => Freed(d))
    BY <1>4 DEF Freed
  <2> QED BY <1>1, <1>p, <2>2, <2>3, ConnectionsFrame
<1>k. NativesKeep /\ ClientsKeep
  BY <1>1 DEF NativesKeep, ClientsKeep
<1>h. \A t \in Threads : HeldAsBefore(t) /\ SendsAsBefore(t) /\ AbortsAsBefore(t) /\ ClosesAsBefore(t)
  BY <1>p, <1>u DEF HeldAsBefore, SendsAsBefore, AbortsAsBefore, ClosesAsBefore, InUse
<1>b. \A k \in Ids : BackedAsBefore(k)
  BY <1>u DEF BackedAsBefore
<1>s. \A d \in Ids : quic'[d].streams \subseteq quic[d].streams
  BY <1>4
<1>11. StreamsHaveHomes'
  BY <1>1, <1>p DEF StreamsHaveHomes
<1>12. HeldByCalls'
  BY <1>1, <1>h, <1>k, <1>p, <1>s, HeldByCallsFrame
<1>13. HeldByCallbacks'
  <2>1. \A k, d \in Ids : callback'[k].pc \in Backing =>
           /\ \A e \in quic'[d].streams : e \in quic[d].streams \/ e.native # callback[k].native
           /\ quic'[d].doomed \subseteq quic[d].doomed \cup Listed(d)
    BY <1>4
  <2>2. \A k \in Ids : callback'[k].pc \in Backing => native'[callback[k].native] = native[callback[k].native]
    BY <1>1
  <2>3. \A k \in Ids, t \in Threads : callback'[k].pc \in Backing /\ call'[t].pc \in Holding =>
           HeldAsBefore(t) \/ call'[t].native # callback[k].native
    BY <1>h
  <2> QED BY <1>b, <1>p, <2>1, <2>2, <2>3, HeldByCallbacksFrame
<1>14. HeldByLists'
  <2>1. \A d \in Ids : \A e \in quic'[d].streams : native'[e.native].state = "closed" =>
           /\ native[e.native].state = "closed"
           /\ \A t \in Threads : call[t].pc = "unlist" /\ call[t].native = e.native =>
                   call'[t].pc = "unlist" /\ call'[t].native = call[t].native
    BY <1>1, <1>u
  <2> QED BY <1>k, <1>p, <1>s, <2>1, HeldByListsFrame
<1>15. HeldByDestroys'
  <2>1. ASSUME NEW d \in Ids, NEW q \in quic'[d].doomed
        PROVE  /\ native'[q].state \notin {"unused", "closed"} /\ connections'[native'[q].connection].client = d
               /\ (\A e \in quic'[d].streams : e.native # q) /\ quic'[d].life = "closing"
    <3>1. CASE d = c
      <4>1. q \in Listed(c) /\ quic'[d].streams = {} /\ quic'[d].life = "closing"
        BY <1>4, <2>1, <3>1
      <4>2. Whole(q, c)
        BY <1>2, <4>1
      <4> QED BY <1>1, <3>1, <4>1, <4>2 DEF Whole, Home
    <3>2. CASE d # c
      <4>1. q \in quic[d].doomed /\ quic'[d].streams = quic[d].streams /\ quic'[d].life = quic[d].life
        BY <1>4, <2>1, <3>2
      <4>2. Whole(q, d) /\ q \notin Listed(d) /\ quic[d].life = "closing"
        BY <1>p, <4>1 DEF HeldByDestroys
      <4> QED BY <1>1, <4>1, <4>2 DEF Whole, Home, Listed
    <3> QED BY <3>1, <3>2
  <2> QED BY <2>1 DEF HeldByDestroys, Whole, Home, Listed
<1>16. OnStreams'
  BY <1>1, <1>p DEF OnStreams
<1>17. InUse'
  <2>1. \A q \in NativeStreams : Referred(q) => StaysUsable(q)
    BY <1>1, <1>b, <1>h, <1>s DEF StaysUsable
  <2>2. \A t \in Threads : SendsAsBefore(t) /\ AbortsAsBefore(t) /\ ClosesAsBefore(t)
    BY <1>h
  <2> QED BY <1>k, <1>p, <2>1, <2>2, InUseFrame
<1>18. NothingForgotten'
  <2>1. ASSUME NEW q \in NativeStreams, Unfinished(q)'
        PROVE  Kept(q)' \/ (Unfinished(q) /\ StaysKept(q))
    <3>1. Unfinished(q)
      BY <1>1, <2>1 DEF Unfinished
    <3>2. CASE q \in Listed(c)
      <4>1. q \in quic'[c].doomed
        BY <1>4, <3>2
      <4> QED BY <4>1 DEF Kept
    <3>3. CASE q \notin Listed(c)
      <4>1. \A d \in Ids : /\ q \in quic[d].doomed => q \in quic'[d].doomed
                           /\ \A e \in quic[d].streams : e.native = q => e \in quic'[d].streams
        BY <1>1, <1>4, <1>p, <3>3 DEF Listed, HeldByDestroys
      <4> QED BY <1>u, <3>1, <4>1 DEF StaysKept
    <3> QED BY <3>2, <3>3
  <2>2. ASSUME NEW t \in Threads, call'[t].pc = "prefix"
        PROVE  PrefixAsBefore(t)
    <3>1. call'[t] = call[t] /\ call[t].pc = "prefix" /\ call[t].client \in Ids /\ call[t].client # c
      BY <1>1, <1>u, <2>2, NobodyThere, Shapes
    <3> QED BY <1>1, <1>4, <3>1 DEF PrefixAsBefore
  <2>3. \A d \in Ids : EndsAsBefore(d)
    BY <1>1, <1>4 DEF EndsAsBefore
  <2> QED BY <1>1, <1>p, <2>1, <2>2, <2>3, ForgottenFrame
<1>19. StreamsInUse'
  BY <1>11, <1>12, <1>13, <1>14, <1>15, <1>16, <1>17, <1>18 DEF StreamsInUse
<1> QED BY <1>m, <1>6, <1>7, <1>19 DEF Life

\* A step that is about streams.
CallsRunOn == \A t \in Threads : ServedAs(call[t], call'[t]) /\ ConnectsAs(call[t], call'[t])
LinksKept ==
  /\ connections' = connections
  /\ \A c \in Ids : /\ quic'[c].connection = quic[c].connection
                    /\ quic[c].life = "live" => quic'[c].life = "live"
                    /\ quic'[c].life = "freed" => quic[c].life = "freed"
  /\ \A c \in Ids : handles[c].kind = "client" => handles'[c].kind = "client"

LEMMA WithStreams ==
  ASSUME IInv, NamesInv, Life, LinksKept, CallsRunOn, StreamsInUse'
  PROVE  Life'
<1>0. /\ CallsAreServed /\ ConnectionsInUse /\ UNCHANGED connections
      /\ (\A t \in Threads : ServedAs(call[t], call'[t])) /\ (\A t \in Threads : ConnectsAs(call[t], call'[t]))
      /\ (\A c \in Ids : quic[c].life = "live" => quic'[c].life = "live")
      /\ (\A c \in Ids : handles[c].kind = "client" => handles'[c].kind = "client")
  BY DEF Life, CallsRunOn, LinksKept
<1>1. CallsAreServed'
  BY <1>0, ServedFrame
<1>2. ConnectionsInUse'
  <2>1. \A c \in Ids : quic'[c].connection \in {0, quic[c].connection} /\ (quic'[c].life = "freed" => Freed(c))
    BY DEF LinksKept, Freed
  <2> QED BY <1>0, <2>1, ConnectionsFrame
<1> QED BY <1>1, <1>2 DEF Life

\* A stream is closed that nobody else has.
CloseAs(q, r, s) ==
  \/ s = r /\ (r.pc \in Holding => r.native # q)
  \/ /\ r.pc \in Holding /\ r.native = q /\ s.rest = {}
     /\ (s.pc = "unlist" /\ s.native = q) \/ s.pc \notin Holding \cup {"send", "sending", "closing"}
ClosesOnly(q) ==
  /\ \A p \in NativeStreams : p # q => native'[p] = native[p]
  /\ native'[q].state = "closed" /\ native'[q].connection = native[q].connection
DoomedBut(q) ==
  \A c \in Ids : /\ quic'[c].streams = quic[c].streams /\ quic'[c].life = quic[c].life
                 /\ quic'[c].doomed \in {quic[c].doomed, quic[c].doomed \ {q}}
                 /\ q \notin quic'[c].doomed
ListedToLeave(q) ==
  \A c \in Ids : \A e \in quic[c].streams :
    e.native = q => \E t \in Threads : call'[t].pc = "unlist" /\ call'[t].native = q

LEMMA CloseEffect ==
  ASSUME IInv, NEW q \in NativeStreams, Close({q})
  PROVE  ClosesOnly(q) /\ (~misused /\ ~Closed(q) => ~misused')
<1>1. native \in [NativeStreams -> Natives] /\ native[q] \in Natives
  BY DEF IInv, TypeOK
<1>2. native' = [p \in NativeStreams |-> IF p \in {q} THEN [native[p] EXCEPT !.state = "closed"] ELSE native[p]]
  BY DEF Close
<1>3. /\ \A p \in NativeStreams : p # q => native'[p] = native[p]
      /\ native'[q] = [native[q] EXCEPT !.state = "closed"]
  BY <1>2
<1>4. native'[q].state = "closed" /\ native'[q].connection = native[q].connection
  BY <1>1, <1>3 DEF Natives
<1>5. ~misused /\ ~Closed(q) => ~misused'
  BY DEF Close, Uses
<1> QED BY <1>3, <1>4, <1>5 DEF ClosesOnly

LEMMA ClosingFrame ==
  ASSUME IInv, IInv', NamesInv, StreamsInUse, NEW q \in NativeStreams, native[q].state # "unused",
         ClosesOnly(q), DoomedBut(q), ListedToLeave(q), HeldByCalls',
         UNCHANGED <<connections, callback, abandoned, known, handles>>,
         \A k \in Ids : callback[k].pc \in Backing => callback[k].native # q,
         ~Referred(q),
         \A t \in Threads : CloseAs(q, call[t], call'[t])
  PROVE  StreamsInUse'
<1>p. /\ NativelyTyped
      /\ StreamsHaveHomes /\ HeldByCalls /\ HeldByCallbacks /\ HeldByLists /\ HeldByDestroys /\ OnStreams /\ InUse
      /\ NothingForgotten
  BY Natively DEF StreamsInUse
<1>k. NativesKeep /\ ClientsKeep
  BY DEF NativesKeep, ClientsKeep, ClosesOnly
<1>b. \A k \in Ids : BackedAsBefore(k) /\ callback'[k] = callback[k]
  BY DEF BackedAsBefore
<1>a. ASSUME NEW t \in Threads
      PROVE  /\ SendsAsBefore(t) /\ AbortsAsBefore(t) /\ ClosesAsBefore(t)
             /\ call'[t].pc \in Holding => HeldAsBefore(t) \/ call'[t].native = q
             /\ call[t].pc \in Holding /\ call[t].native # q => call'[t] = call[t]
             /\ call'[t].pc \in {"prefix", "send", "sending", "closing"} => call'[t] = call[t]
  <2>0. CloseAs(q, call[t], call'[t])
    OBVIOUS
  <2>1. CASE call'[t] = call[t]
    BY <1>p, <2>1 DEF HeldAsBefore, SendsAsBefore, AbortsAsBefore, ClosesAsBefore, InUse
  <2>2. CASE call'[t].rest = {} /\ call[t].native = q /\ call'[t].pc = "unlist" /\ call'[t].native = q
    BY <2>2 DEF SendsAsBefore, AbortsAsBefore, ClosesAsBefore
  <2>3. CASE call'[t].rest = {} /\ call[t].native = q /\ call'[t].pc \notin Holding \cup {"send", "sending", "closing"}
    BY <2>3 DEF SendsAsBefore, AbortsAsBefore, ClosesAsBefore, Holding
  <2> QED BY <2>0, <2>1, <2>2, <2>3 DEF CloseAs
<1>x. \A c \in Ids : /\ quic'[c].streams = quic[c].streams /\ quic'[c].life = quic[c].life
                     /\ quic'[c].doomed \subseteq quic[c].doomed
                     /\ \A p \in quic[c].doomed : p # q => p \in quic'[c].doomed
                     /\ q \notin quic'[c].doomed
  BY DEF DoomedBut
<1>1. StreamsHaveHomes'
  BY <1>p DEF StreamsHaveHomes, ClosesOnly
<1>3. HeldByCallbacks'
  <2>1. ASSUME NEW k \in Ids, callback'[k].pc \in Backing
        PROVE  native'[callback[k].native] = native[callback[k].native]
    <3>1. callback[k].pc \in Backing /\ callback[k].native \in NativeStreams /\ callback[k].native # q
      BY <1>b, <1>p, <2>1 DEF NativelyTyped
    <3> QED BY <3>1 DEF ClosesOnly
  <2>2. ASSUME NEW k \in Ids, NEW t \in Threads, callback'[k].pc \in Backing, call'[t].pc \in Holding
        PROVE  HeldAsBefore(t) \/ call'[t].native # callback[k].native
    BY <1>a, <1>b, <2>2
  <2>3. \A k, d \in Ids : callback'[k].pc \in Backing =>
           /\ \A e \in quic'[d].streams : e \in quic[d].streams \/ e.native # callback[k].native
           /\ quic'[d].doomed \subseteq quic[d].doomed \cup Listed(d)
    BY <1>x
  <2>4. \A k \in Ids : BackedAsBefore(k)
    BY <1>b
  <2> QED BY <1>p, <2>1, <2>2, <2>3, <2>4, HeldByCallbacksFrame
<1>4. HeldByLists'
  <2>1. \A c \in Ids : quic'[c].streams \subseteq quic[c].streams
    BY <1>x
  <2>2. ASSUME NEW c \in Ids, NEW e \in quic'[c].streams, native'[e.native].state = "closed"
        PROVE  \/ /\ native[e.native].state = "closed"
                  /\ \A t \in Threads : call[t].pc = "unlist" /\ call[t].native = e.native =>
                       call'[t].pc = "unlist" /\ call'[t].native = call[t].native
               \/ \E t \in Threads : call'[t].pc = "unlist" /\ call'[t].native = e.native
    <3>1. e \in quic[c].streams /\ e.native \in NativeStreams
      BY <1>p, <2>1, <2>2 DEF NativelyTyped
    <3>2. CASE e.native = q
      BY <3>1, <3>2 DEF ListedToLeave
    <3>3. CASE e.native # q
      <4>1. native[e.native].state = "closed"
        BY <2>2, <3>1, <3>3 DEF ClosesOnly
      <4> QED BY <1>a, <3>3, <4>1 DEF Holding
    <3> QED BY <3>2, <3>3
  <2> QED BY <1>k, <1>p, <2>1, <2>2, HeldByListsFrame
<1>5. HeldByDestroys'
  <2>1. ASSUME NEW c \in Ids, NEW p \in quic'[c].doomed
        PROVE  /\ p \in quic[c].doomed
               /\ quic'[c].life = quic[c].life
               /\ native'[p].state = "closed" => native[p].state = "closed"
               /\ \A e \in quic'[c].streams : e \in quic[c].streams \/ e.native # p
    <3>1. p \in quic[c].doomed /\ p # q /\ p \in NativeStreams
      BY <1>p, <1>x, <2>1 DEF NativelyTyped
    <3> QED BY <1>x, <3>1 DEF ClosesOnly
  <2> QED BY <1>k, <1>p, <2>1, HeldByDestroysFrame
<1>6. OnStreams'
  <2>1. \A t \in Threads : call'[t].pc \in {"send", "sending", "closing"} => call'[t] = call[t]
    BY <1>a
  <2> QED BY <1>p, <2>1 DEF OnStreams
<1>7. InUse'
  <2>1. \A t \in Threads : SendsAsBefore(t) /\ AbortsAsBefore(t) /\ ClosesAsBefore(t)
    BY <1>a
  <2>2. ASSUME NEW p \in NativeStreams, Referred(p)
        PROVE  StaysUsable(p)
    <3>1. p # q
      BY <2>2
    <3>2. \A t \in Threads : call'[t].pc \in Holding => HeldAsBefore(t) \/ call'[t].native # p
      BY <1>a, <3>1
    <3> QED BY <1>b, <1>x, <3>1, <3>2 DEF StaysUsable, ClosesOnly
  <2> QED BY <1>k, <1>p, <2>1, <2>2, InUseFrame
<1>8. NothingForgotten'
  <2>1. ASSUME NEW p \in NativeStreams, Unfinished(p)'
        PROVE  Unfinished(p) /\ StaysKept(p)
    <3>1. p # q /\ Unfinished(p)
      BY <2>1 DEF Unfinished, ClosesOnly
    <3>2. \A t \in Threads : call[t].pc \in Holding /\ call[t].native = p => call'[t] = call[t]
      BY <1>a, <3>1
    <3>3. \A c \in Ids : /\ p \in quic[c].doomed => p \in quic'[c].doomed
                         /\ \A e \in quic[c].streams : e.native = p => e \in quic'[c].streams
      BY <1>x, <3>1
    <3> QED BY <1>b, <3>1, <3>2, <3>3 DEF StaysKept
  <2>2. ASSUME NEW t \in Threads, call'[t].pc = "prefix"
        PROVE  PrefixAsBefore(t)
    <3>1. call'[t] = call[t] /\ call[t].native \in NativeStreams /\ call[t].client \in Ids
      BY <1>a, <1>p, <2>2 DEF NativelyTyped, Holding
    <3> QED BY <1>x, <2>2, <3>1 DEF PrefixAsBefore, ClosesOnly
  <2>3. \A c \in Ids : EndsAsBefore(c)
    BY <1>p, <1>x DEF EndsAsBefore
  <2> QED BY <1>p, <2>1, <2>2, <2>3, ForgottenFrame
<1> QED BY <1>1, <1>3, <1>4, <1>5, <1>6, <1>7, <1>8 DEF StreamsInUse

\* A call closes the stream it holds.
LEMMA CallCloses ==
  ASSUME IInv, IInv', NamesInv, Life, NEW t \in Threads,
         Close({call[t].native}),
         NEW s, call' = [call EXCEPT ![t] = s], s.rest = {},
         \/ call[t].pc \in {"list", "close"} /\ s.pc \in {"undo", "idle"}
         \/ /\ call[t].pc = "prefix" /\ s.pc = "unlist" /\ s.native = call[t].native
            /\ s.client = call[t].client /\ s.id = call[t].id,
         UNCHANGED <<connections, callback, abandoned, known, handles, quic>>
  PROVE  StreamsInUse'
<1> DEFINE q == call[t].native
<1>p. /\ NativelyTyped /\ StreamsInUse
      /\ StreamsHaveHomes /\ HeldByCalls /\ HeldByCallbacks /\ HeldByLists /\ HeldByDestroys /\ OnStreams /\ InUse
      /\ NothingForgotten
  BY Natively DEF Life, StreamsInUse
<1>a. call[t].pc \in {"list", "close", "prefix"} /\ call[t].pc \in Holding /\ call[t].pc # "idle"
  BY DEF Holding
<1>q. /\ q \in NativeStreams /\ native[q].state \notin {"unused", "closed"} /\ Home(q) = call[t].client
      /\ \A u \in Threads : u # t /\ call[u].pc \in Holding => call[u].native # q
      /\ \A k \in Ids : callback[k].pc \in Backing => callback[k].native # q
      /\ \A c \in Ids : \A e \in quic[c].streams : e.native = q => call[t].pc = "prefix" /\ e.id = call[t].id
  <2>1. q \in NativeStreams
    BY <1>a, <1>p DEF NativelyTyped
  <2>2. native[q].state \notin {"unused", "closed"} /\ Home(q) = call[t].client
    BY <1>a, <1>p DEF HeldByCalls
  <2>3. \A u \in Threads : u # t /\ call[u].pc \in Holding => call[u].native # q
    BY <1>a, <1>p DEF HeldByCalls
  <2>4. \A k \in Ids : callback[k].pc \in Backing => callback[k].native # q
    BY <1>a, <1>p DEF HeldByCallbacks
  <2>5. \A c \in Ids : \A e \in quic[c].streams : e.native = q => call[t].pc = "prefix" /\ e.id = call[t].id
    BY <1>a, <1>p DEF HeldByCalls, EntriesAt
  <2> QED BY <2>1, <2>2, <2>3, <2>4, <2>5
<1>r. ~Referred(q)
  BY <1>a, <1>p, <1>q DEF InUse
<1>c. \A u \in Threads : call'[u] = IF u = t THEN s ELSE call[u]
  BY CallAt
<1>1. ClosesOnly(q)
  BY <1>q, CloseEffect
<1>2. DoomedBut(q)
  <2>1. ASSUME NEW d \in Ids PROVE q \notin quic[d].doomed
    <3>1. q \in quic[d].doomed => quic[call[t].client].life # "live"
      BY <1>p, <1>q DEF HeldByDestroys, Whole
    <3> QED BY <1>a, <3>1 DEF Life, CallsAreServed
  <2> QED BY <2>1 DEF DoomedBut
<1>3. ListedToLeave(q)
  <2>1. ASSUME NEW d \in Ids, NEW e \in quic[d].streams, e.native = q
        PROVE  call'[t].pc = "unlist" /\ call'[t].native = q
    <3>1. call[t].pc = "prefix"
      BY <1>q, <2>1
    <3> QED BY <1>c, <3>1
  <2> QED BY <2>1 DEF ListedToLeave
<1>4. \A u \in Threads : CloseAs(q, call[u], call'[u])
  <2>1. CloseAs(q, call[t], s)
    BY <1>a DEF CloseAs, Holding
  <2>2. \A u \in Threads : u # t => CloseAs(q, call[u], call[u])
    BY <1>q DEF CloseAs
  <2> HIDE DEF q
  <2> QED BY <1>c, <2>1, <2>2
<1>5. HeldByCalls'
  <2>1. ASSUME NEW u \in Threads, call'[u].pc \in Holding
        PROVE  /\ native'[call'[u].native].state # "unused"
               /\ connections'[native'[call'[u].native].connection].client = call'[u].client
               /\ native'[call'[u].native].state = "closed" <=> call'[u].pc = "unlist"
               /\ call[u].pc \in Holding /\ call'[u].native = call[u].native /\ call'[u].id = call[u].id
               /\ call'[u].pc # call[u].pc => call'[u].pc = "unlist"
    <3>1. CASE u = t
      <4>1. s.pc = "unlist" /\ s.native = q /\ s.client = call[t].client /\ s.id = call[t].id
        BY <1>c, <2>1, <3>1 DEF Holding
      <4>2. connections'[native'[q].connection].client = call[t].client /\ native'[q].state = "closed"
        BY <1>1, <1>q DEF ClosesOnly, Home
      <4> QED BY <1>a, <1>c, <3>1, <4>1, <4>2
    <3>2. CASE u # t
      <4>1. call'[u] = call[u] /\ call[u].pc \in Holding /\ call[u].native # q /\ call[u].native \in NativeStreams
        BY <1>c, <1>p, <1>q, <2>1, <3>2 DEF NativelyTyped
      <4>2. native'[call[u].native] = native[call[u].native]
        BY <1>1, <4>1 DEF ClosesOnly
      <4> QED BY <1>p, <4>1, <4>2 DEF HeldByCalls, Home
    <3> QED BY <3>1, <3>2
  <2>2. \A u, v \in Threads :
          u # v /\ call'[u].pc \in Holding /\ call'[v].pc \in Holding => call'[u].native # call'[v].native
    BY <1>p, <2>1 DEF HeldByCalls
  <2>3. ASSUME NEW u \in Threads, NEW d \in Ids, call'[u].pc \in Holding, NEW e \in quic'[d].streams,
               e.native = call'[u].native
        PROVE  call'[u].pc \in {"prefix", "unlist"} /\ e.id = call'[u].id
    BY <1>p, <2>1, <2>3 DEF HeldByCalls, EntriesAt
  <2> QED BY <2>1, <2>2, <2>3 DEF HeldByCalls, EntriesAt, Home
<1> QED BY <1>1, <1>2, <1>3, <1>4, <1>5, <1>p, <1>q, <1>r, ClosingFrame

LEMMA LinksAsBefore ==
  ASSUME UNCHANGED connections, UNCHANGED quic, UNCHANGED handles
  PROVE  LinksKept
  BY DEF LinksKept

\* The closings of streams nobody has listed, or that a failed prefix leaves listed.
LEMMA ClosingLives ==
  ASSUME IInv, IInv', NamesInv, Life, ~misused, NEW t \in Threads,
         ListStream(t, FALSE) \/ StreamClose(t) \/ SendPrefix(t, FALSE)
  PROVE  ~misused' /\ Life'
<1>0. call[t] \in Calls /\ call \in [Threads -> Calls]
  BY Shapes DEF IInv, TypeOK
<1>1. PICK s : /\ call[t].pc \in {"list", "close", "prefix"} /\ Close({call[t].native})
               /\ call' = [call EXCEPT ![t] = s] /\ s.rest = {} /\ s.connection \in {0, call[t].connection}
               /\ \/ call[t].pc = "list" /\ s.pc = "undo" /\ s.client = call[t].client
                  \/ call[t].pc = "close" /\ s.pc = "idle" /\ s.connection = 0
                  \/ /\ call[t].pc = "prefix" /\ s.pc = "unlist" /\ s.native = call[t].native
                     /\ s.client = call[t].client /\ s.id = call[t].id
               /\ UNCHANGED <<connections, callback, abandoned, known, handles, quic>>
  <2>1. CASE ListStream(t, FALSE)
    <3> DEFINE s == [call[t] EXCEPT !.pc = "undo"]
    <3>1. /\ call[t].pc = "list" /\ Close({call[t].native}) /\ call' = [call EXCEPT ![t] = s]
          /\ UNCHANGED <<connections, callback, abandoned, known, handles, quic>>
      BY <1>0, <2>1 DEF ListStream, Running, Go, table, history
    <3>2. s.pc = "undo" /\ s.client = call[t].client /\ s.rest = {} /\ s.connection = call[t].connection
      BY <1>0, <3>1, NoRest DEF Calls
    <3> HIDE DEF s
    <3> QED BY <3>1, <3>2
  <2>2. CASE StreamClose(t)
    <3>1. /\ call[t].pc = "close" /\ Close({call[t].native}) /\ call' = [call EXCEPT ![t] = NoCall]
          /\ UNCHANGED <<connections, callback, abandoned, known, handles, quic>>
      BY <2>2 DEF StreamClose, Running, Return, Become, table, history
    <3> QED BY <3>1, NoCallFields
  <2>3. CASE SendPrefix(t, FALSE)
    <3> DEFINE s == [call[t] EXCEPT !.pc = "unlist"]
    <3>1. /\ call[t].pc = "prefix" /\ Close({call[t].native}) /\ call' = [call EXCEPT ![t] = s]
          /\ UNCHANGED <<connections, callback, abandoned, known, handles, quic>>
      BY <1>0, <2>3 DEF SendPrefix, Running, Go, table, history
    <3>2. /\ s.pc = "unlist" /\ s.client = call[t].client /\ s.rest = {} /\ s.connection = call[t].connection
          /\ s.native = call[t].native /\ s.id = call[t].id
      BY <1>0, <3>1, NoRest DEF Calls
    <3> HIDE DEF s
    <3> QED BY <3>1, <3>2
  <2> QED BY <2>1, <2>2, <2>3
<1>2. ~misused'
  <2>1. call[t].native \in NativeStreams /\ ~Closed(call[t].native)
    BY <1>1, Safely, Natively DEF NativelyTyped, Holding
  <2> QED BY <1>1, <2>1, CloseEffect
<1>3. StreamsInUse'
  BY <1>1, CallCloses
<1>4. CallsRunOn
  <2>1. ServedAs(call[t], s)
    BY <1>1 DEF ServedAs, Releasing
  <2>2. ConnectsAs(call[t], s)
    BY <1>1 DEF ConnectsAs, Closers
  <2> QED BY <1>1, <2>1, <2>2, OneCall DEF CallsRunOn
<1> QED BY <1>1, <1>2, <1>3, <1>4, LinksAsBefore, WithStreams

\* ... closes what it took, one after the other.
LEMMA DoomedLives ==
  ASSUME IInv, IInv', NamesInv, Life, ~misused, NEW c \in Ids, NEW q \in NativeStreams, DestroyCloses(c, q)
  PROVE  ~misused' /\ Life'
<1>0. quic \in [Ids -> Quics]
  BY DEF IInv, TypeOK
<1>p. /\ NativelyTyped /\ StreamsInUse
      /\ StreamsHaveHomes /\ HeldByCalls /\ HeldByCallbacks /\ HeldByLists /\ HeldByDestroys /\ OnStreams /\ InUse
      /\ NothingForgotten
  BY Natively DEF Life, StreamsInUse
<1>1. /\ quic[c].life = "closing" /\ q \in quic[c].doomed /\ Close({q})
      /\ quic' = [quic EXCEPT ![c].doomed = @ \ {q}]
      /\ UNCHANGED <<known, handles, connections, call, callback, abandoned>>
  BY DEF DestroyCloses, table, history
<1>2. \A d \in Ids : /\ quic'[d].connection = quic[d].connection
                     /\ quic'[d].life = quic[d].life
                     /\ quic'[d].streams = quic[d].streams
                     /\ quic'[d].doomed = IF d = c THEN quic[c].doomed \ {q} ELSE quic[d].doomed
  BY <1>0, <1>1 DEF Quics
<1>3. native[q].state \notin {"unused", "closed"} /\ Home(q) = c /\ q \notin Listed(c)
  BY <1>1, <1>p DEF HeldByDestroys, Whole
<1>4. ClosesOnly(q) /\ ~misused'
  BY <1>1, <1>3, CloseEffect DEF Closed
<1>5. DoomedBut(q)
  <2>1. \A d \in Ids : d # c => q \notin quic[d].doomed
    BY <1>3, <1>p DEF HeldByDestroys, Whole
  <2> QED BY <1>2, <2>1 DEF DoomedBut
<1>6. \A d \in Ids : \A e \in quic[d].streams : e.native # q
  BY <1>3, <1>p DEF HeldByLists, Listed
<1>7. \A t \in Threads : call[t].pc \in Holding => call[t].native # q
  <2>1. \A t \in Threads : call[t].pc # "idle" => call[t].client # c
    BY <1>1, NobodyThere
  <2> QED BY <1>3, <1>p, <2>1 DEF HeldByCalls, Holding
<1>8. \A k \in Ids : callback[k].pc \in Backing => callback[k].native # q
  <2>1. q \in Listed(c) \cup quic[c].doomed
    BY <1>1
  <2>2. HeldByCallbacks
    BY <1>p
  <2>3. ASSUME NEW k \in Ids, callback[k].pc \in Backing
        PROVE  callback[k].native # q
    <3>1. callback[k].native \notin Listed(c) \cup quic[c].doomed
      BY <2>2, <2>3 DEF HeldByCallbacks
    <3> QED BY <2>1, <3>1
  <2> QED BY <2>3
<1>9. ~Referred(q)
  <2>1. \A t \in Threads : call[t].pc # "idle" => call[t].client # c
    BY <1>1, NobodyThere
  <2>2. \A t \in Threads : ~(call[t].pc = "sending" /\ call[t].native = q)
    BY <1>3, <1>p, <2>1 DEF InUse, Whole
  <2>3. \A t \in Threads : q \notin call[t].rest
    BY <1>3, <1>p, <2>1 DEF InUse, Whole
  <2> QED BY <2>2, <2>3 DEF Referred
<1>u. \A t \in Threads : call'[t] = call[t]
  BY <1>1
<1>10. HeldByCalls'
  <2>1. \A t \in Threads : HeldAsBefore(t)
    BY <1>u DEF HeldAsBefore
  <2>2. \A t \in Threads : call'[t].pc \in Holding =>
           (native'[call[t].native].state = "closed" <=> native[call[t].native].state = "closed")
    BY <1>4, <1>7, <1>p, <1>u DEF ClosesOnly, NativelyTyped
  <2>3. \A t \in Threads, d \in Ids : call'[t].pc \in Holding =>
           \A e \in quic'[d].streams : e \in quic[d].streams \/ e.native # call[t].native
    BY <1>2
  <2>4. NativesKeep /\ ClientsKeep
    BY <1>1, <1>4 DEF NativesKeep, ClientsKeep, ClosesOnly
  <2> QED BY <1>p, <2>1, <2>2, <2>3, <2>4, HeldByCallsFrame
<1>11. StreamsInUse'
  <2>1. \A t \in Threads : CloseAs(q, call[t], call'[t])
    BY <1>7, <1>u DEF CloseAs
  <2>2. ListedToLeave(q)
    BY <1>6 DEF ListedToLeave
  <2> QED BY <1>1, <1>3, <1>4, <1>5, <1>8, <1>9, <1>10, <1>p, <2>1, <2>2, ClosingFrame
<1>12. CallsRunOn
  BY <1>u DEF CallsRunOn, ServedAs, ConnectsAs
<1>13. LinksKept
  BY <1>1, <1>2 DEF LinksKept
<1> QED BY <1>4, <1>11, <1>12, <1>13, WithStreams

\* What InUse says of one call, and of one that uses streams and one that closes one.
NobodyHolds(q) ==
  /\ \A t \in Threads : call[t].pc \in Holding => call[t].native # q
  /\ \A k \in Ids : callback[k].pc \in Backing => callback[k].native # q
SendsWell(r) ==
  r.pc = "sending" =>
    Whole(r.native, r.client) /\ NobodyHolds(r.native) /\ \A e \in EntriesAt(r.client, r.native) : e.id = r.id
AbortsWell(r) ==
  /\ r.rest # {} => r.pc \in {"abort", "abort released"}
  /\ \A q \in r.rest : Whole(q, r.client) /\ NobodyHolds(q)
ClosesWell(r, s) ==
  s.pc = "closing" => \A e \in EntriesOf(s.client, s.id) : e.native \notin r.rest

LEMMA InUseWell ==
  ASSUME NativelyTyped, InUse
  PROVE  \A t, u \in Threads : SendsWell(call[t]) /\ AbortsWell(call[t]) /\ ClosesWell(call[t], call[u])
<1>1. ASSUME NEW t \in Threads PROVE SendsWell(call[t])
  <2>1. SUFFICES ASSUME call[t].pc = "sending"
                 PROVE  /\ Whole(call[t].native, call[t].client) /\ NobodyHolds(call[t].native)
                        /\ \A e \in EntriesAt(call[t].client, call[t].native) : e.id = call[t].id
    BY DEF SendsWell
  <2>2. call[t].native \in NativeStreams /\ Referred(call[t].native)
    BY <2>1 DEF NativelyTyped, Referred
  <2> QED BY <2>1, <2>2 DEF InUse, NobodyHolds
<1>2. ASSUME NEW t \in Threads PROVE AbortsWell(call[t])
  <2>1. \A q \in call[t].rest : q \in NativeStreams /\ Referred(q)
    BY DEF NativelyTyped, Referred
  <2> QED BY <2>1 DEF InUse, NobodyHolds, AbortsWell
<1>3. \A t, u \in Threads : ClosesWell(call[t], call[u])
  BY DEF InUse, ClosesWell
<1> QED BY <1>1, <1>2, <1>3

LEMMA InUseStill ==
  ASSUME native' = native, connections' = connections, callback' = callback,
         \A c \in Ids : quic'[c].streams = quic[c].streams,
         \A t \in Threads : HeldAsBefore(t),
         \A t \in Threads : call'[t].pc # "idle" => call'[t].client \in Ids,
         \A t, u \in Threads : SendsWell(call'[t]) /\ AbortsWell(call'[t]) /\ ClosesWell(call'[t], call'[u])
  PROVE  InUse'
<1>0. ASSUME NEW q, NobodyHolds(q)
      PROVE  /\ \A t \in Threads : call'[t].pc \in Holding => call'[t].native # q
             /\ \A k \in Ids : callback'[k].pc \in Backing => callback'[k].native # q
  <2>1. \A t \in Threads : HeldAsBefore(t)
    OBVIOUS
  <2> QED BY <1>0, <2>1 DEF NobodyHolds, HeldAsBefore
<1>w. ASSUME NEW t \in Threads
      PROVE  /\ SendsWell(call'[t]) /\ AbortsWell(call'[t])
             /\ \A u \in Threads : ClosesWell(call'[t], call'[u])
  OBVIOUS
<1>1. ASSUME NEW q \in NativeStreams, Referred(q)'
      PROVE  /\ \A t \in Threads : call'[t].pc \in Holding => call'[t].native # q
             /\ \A k \in Ids : callback'[k].pc \in Backing => callback'[k].native # q
  <2>1. PICK t \in Threads : (call'[t].pc = "sending" /\ call'[t].native = q) \/ q \in call'[t].rest
    BY <1>1 DEF Referred
  <2>2. NobodyHolds(q)
    BY <1>w, <2>1 DEF SendsWell, AbortsWell
  <2> QED BY <1>0, <2>2
<1>2. ASSUME NEW t \in Threads, call'[t].pc = "sending"
      PROVE  /\ native'[call'[t].native].state \notin {"unused", "closed"}
             /\ connections'[native'[call'[t].native].connection].client = call'[t].client
             /\ \A e \in quic'[call'[t].client].streams : e.native = call'[t].native => e.id = call'[t].id
  <2>1. /\ Whole(call'[t].native, call'[t].client) /\ call'[t].client \in Ids
        /\ \A e \in EntriesAt(call'[t].client, call'[t].native) : e.id = call'[t].id
    BY <1>w, <1>2 DEF SendsWell
  <2> QED BY <2>1 DEF Whole, Home, EntriesAt
<1>3. ASSUME NEW t \in Threads, NEW q \in call'[t].rest
      PROVE  /\ native'[q].state \notin {"unused", "closed"}
             /\ connections'[native'[q].connection].client = call'[t].client
             /\ \A u \in Threads : call'[u].pc = "closing" =>
                  \A e \in quic'[call'[u].client].streams : e.id = call'[u].id => e.native # q
  <2>1. Whole(q, call'[t].client)
    BY <1>w DEF AbortsWell
  <2>2. ASSUME NEW u \in Threads, call'[u].pc = "closing", NEW e \in quic'[call'[u].client].streams, e.id = call'[u].id
        PROVE  e.native # q
    <3>1. call'[u].client \in Ids
      BY <2>2
    <3>2. e \in EntriesOf(call'[u].client, call'[u].id)
      BY <2>2, <3>1 DEF EntriesOf
    <3> QED BY <1>w, <2>2, <3>2 DEF ClosesWell
  <2> QED BY <2>1, <2>2 DEF Whole, Home
<1>4. \A t \in Threads : call'[t].rest # {} => call'[t].pc \in {"abort", "abort released"}
  BY <1>w DEF AbortsWell
<1>5. ASSUME NEW t \in Threads, call'[t].pc = "sending"
      PROVE  /\ Whole(call[t].native, call[t].client)'
             /\ \A e \in EntriesAt(call[t].client, call[t].native)' : e.id = call'[t].id
  BY <1>2, <1>5 DEF EntriesAt, Whole, Home
<1>6. ASSUME NEW t \in Threads, NEW q \in call'[t].rest
      PROVE  /\ Whole(q, call[t].client)'
             /\ \A u \in Threads : call'[u].pc = "closing" =>
                  \A e \in EntriesOf(call[u].client, call[u].id)' : e.native # q
  BY <1>3, <1>6 DEF EntriesOf, Whole, Home
<1> QED BY <1>1, <1>4, <1>5, <1>6 DEF InUse

\* A step of one call that holds no stream, with the streams and the lists left alone.
LEMMA UseStep ==
  ASSUME IInv, IInv', NamesInv, StreamsInUse,
         UNCHANGED <<known, connections, native, callback, abandoned>>,
         \A c \in Ids : ContextAsBefore(c),
         NEW t \in Threads, NEW s, call' = [call EXCEPT ![t] = s],
         call[t].pc \notin Holding, s.pc \notin Holding,
         OnStreams',
         SendsWell(s), AbortsWell(s), ClosesWell(s, s),
         \A u \in Threads : u # t => ClosesWell(call[u], s) /\ ClosesWell(s, call[u])
  PROVE  StreamsInUse'
<1>p. NativelyTyped /\ NativelyTyped' /\ InUse
  BY Natively, NativelyNext DEF StreamsInUse
<1>c. \A u \in Threads : call'[u] = IF u = t THEN s ELSE call[u]
  BY CallAt
<1>h. \A u \in Threads : HeldAsBefore(u)
  BY <1>c DEF HeldAsBefore
<1>u. \A u \in Threads : call[u].pc = "unlist" => call'[u].pc = "unlist" /\ call'[u].native = call[u].native
  BY <1>c DEF Holding
<1>s. StillStreams
  BY SameStreams DEF StillStreams
<1>1. /\ StreamsHaveHomes' /\ HeldByCalls' /\ HeldByCallbacks' /\ HeldByLists' /\ HeldByDestroys'
      /\ \A q \in NativeStreams : StaysUsable(q) /\ (Unfinished(q)' <=> Unfinished(q))
      /\ \A c \in Ids : EndsAsBefore(c) /\ quic'[c].streams = quic[c].streams /\ quic'[c].doomed = quic[c].doomed
      /\ abandoned \subseteq abandoned' /\ callback' = callback
  BY <1>h, <1>s, <1>u, StillFrame
<1>2. InUse'
  <2>1. \A u, v \in Threads : SendsWell(call[u]) /\ AbortsWell(call[u]) /\ ClosesWell(call[u], call[v])
    BY <1>p, InUseWell
  <2>2. \A u, v \in Threads : SendsWell(call'[u]) /\ AbortsWell(call'[u]) /\ ClosesWell(call'[u], call'[v])
    BY <1>c, <2>1
  <2>3. \A u \in Threads : call'[u].pc # "idle" => call'[u].client \in Ids
    BY <1>p DEF NativelyTyped
  <2>4. \A c \in Ids : quic'[c].streams = quic[c].streams
    BY <1>1
  <2> QED BY <1>h, <2>2, <2>3, <2>4, InUseStill
<1>3. NothingForgotten'
  <2>1. \A u \in Threads : call[u].pc \in Holding => call'[u] = call[u] \/ (call[u].pc = "prefix" /\ call'[u].pc \notin Holding)
    BY <1>c
  <2>2. \A q \in NativeStreams : Unfinished(q)' <=> Unfinished(q)
    BY <1>1
  <2> QED BY <1>1, <1>h, <2>1, <2>2, StillKept
<1> QED BY <1>1, <1>2, <1>3 DEF StreamsInUse

\* A listed stream whose call is through with it, is open and nobody has it to close it.
LEMMA Untaken ==
  ASSUME IInv, Life, NEW c \in Ids, NEW e \in quic[c].streams,
         \A u \in Threads : call[u].pc \in {"prefix", "unlist"} /\ call[u].client = c => call[u].id # e.id
  PROVE  /\ e.native \in NativeStreams /\ Whole(e.native, c) /\ NobodyHolds(e.native)
         /\ \A f \in EntriesAt(c, e.native) : f = e
<1> DEFINE q == e.native
<1>p. HeldByCalls /\ HeldByCallbacks /\ HeldByLists /\ NativelyTyped
  BY Natively DEF Life, StreamsInUse
<1>1. native[q].state # "unused" /\ Home(q) = c /\ q \in NativeStreams
  BY <1>p DEF HeldByLists, NativelyTyped
<1>2. ASSUME NEW u \in Threads, call[u].pc \in Holding, call[u].native = q
      PROVE  FALSE
  <2>1. call[u].pc \in {"prefix", "unlist"} /\ e.id = call[u].id
    BY <1>2, <1>p DEF HeldByCalls, EntriesAt
  <2>2. call[u].client = c
    BY <1>1, <1>2, <1>p DEF HeldByCalls
  <2> QED BY <2>1, <2>2
<1>3. native[q].state # "closed"
  BY <1>2, <1>p DEF HeldByLists, Holding
<1>4. ASSUME NEW k \in Ids, callback[k].pc \in Backing
      PROVE  callback[k].native # q
  <2>1. callback[k].native \notin Listed(c)
    BY <1>4, <1>p DEF HeldByCallbacks
  <2> QED BY <2>1 DEF Listed
<1>5. \A f \in EntriesAt(c, q) : f = e
  BY <1>p DEF HeldByLists, EntriesAt
<1> QED BY <1>1, <1>2, <1>3, <1>4, <1>5 DEF Whole, NobodyHolds

\* What a known id lists, no call is on its way to take off the list again.
LEMMA KnownUntaken ==
  ASSUME IInv, NamesInv, NEW i \in known
  PROVE  \A u \in Threads : call[u].pc \in {"prefix", "unlist"} => call[u].id # i
  BY DEF NamesInv, InFlight, Allocating

\* Write and reset find the stream.
LEMMA FindingLives ==
  ASSUME IInv, IInv', NamesInv, Life, ~misused, NEW t \in Threads, FindToSend(t), ~Return(t)
  PROVE  ~misused' /\ Life'
<1> DEFINE c == call[t].client
<1>0. call[t] \in Calls /\ call[t].pc = "send" /\ c \in Ids /\ ~Freed(c) /\ call[t].rest = {}
  BY Shapes, Safely, NoRest DEF FindToSend, Running
<1>p. StreamsInUse /\ OnStreams /\ NativelyTyped
  BY Natively DEF Life, StreamsInUse
<1>1. PICK e \in EntriesOf(c, call[t].id) : Become(t, [call[t] EXCEPT !.pc = "sending", !.native = e.native])
  BY DEF FindToSend
<1>2. UNCHANGED <<known, handles, quic, connections, native, callback, abandoned>> /\ ~misused'
  BY <1>0 DEF FindToSend, Uses, table, history
<1> DEFINE s == [call[t] EXCEPT !.pc = "sending", !.native = e.native]
<1>3. call' = [call EXCEPT ![t] = s]
  BY <1>1 DEF Become
<1>4. /\ s.pc = "sending" /\ s.client = c /\ s.id = call[t].id /\ s.rest = {} /\ s.native = e.native
      /\ s.connection = call[t].connection
  BY <1>0 DEF Calls
<1> HIDE DEF s
<1>5. e \in quic[c].streams /\ e.id = call[t].id /\ call[t].id \in known
  BY <1>0, <1>p DEF EntriesOf, OnStreams
<1>6. Whole(e.native, c) /\ NobodyHolds(e.native) /\ \A f \in EntriesAt(c, e.native) : f = e
  <2>1. \A u \in Threads : call[u].pc \in {"prefix", "unlist"} /\ call[u].client = c => call[u].id # e.id
    BY <1>5, KnownUntaken
  <2> QED BY <1>0, <1>5, <2>1, Untaken
<1>7. SendsWell(s) /\ AbortsWell(s) /\ ClosesWell(s, s)
  BY <1>4, <1>5, <1>6 DEF SendsWell, AbortsWell, ClosesWell
<1>8. \A u \in Threads : u # t => ClosesWell(call[u], s) /\ ClosesWell(s, call[u])
  BY <1>4 DEF ClosesWell
<1>9. OnStreams'
  <2>1. \A u \in Threads : call'[u] = IF u = t THEN s ELSE call[u]
    BY <1>3, CallAt
  <2>2. \A u \in Threads : call'[u].pc \in {"send", "sending"} =>
          /\ call[u].pc \in {"send", "sending"} /\ call'[u].id = call[u].id /\ call'[u].client = call[u].client
          /\ handles'[call[u].id] = handles[call[u].id]
    BY <1>0, <1>2, <1>4, <2>1
  <2>3. \A u \in Threads : call'[u].pc = "closing" => call[u].pc = "closing" /\ call'[u].id = call[u].id
    BY <1>4, <2>1
  <2> QED BY <1>2, <1>p, <2>2, <2>3, OnStreamsFrame
<1>10. StreamsInUse'
  <2>1. \A d \in Ids : ContextAsBefore(d)
    BY <1>2 DEF ContextAsBefore
  <2>2. call[t].pc \notin Holding /\ s.pc \notin Holding
    BY <1>0, <1>4 DEF Holding
  <2> QED BY <1>2, <1>3, <1>7, <1>8, <1>9, <1>p, <2>1, <2>2, UseStep
<1>11. CallsRunOn
  <2>1. ServedAs(call[t], s) /\ ConnectsAs(call[t], s)
    BY <1>0, <1>4 DEF ServedAs, ConnectsAs, Closers, Releasing
  <2> QED BY <1>3, <2>1, OneCall DEF CallsRunOn
<1>12. LinksKept
  BY <1>2, LinksAsBefore
<1> QED BY <1>2, <1>10, <1>11, <1>12, WithStreams

\* The copy wt_msquic_shutdown makes.
LEMMA ShuttingLives ==
  ASSUME IInv, IInv', NamesInv, Life, ~misused, ~overlapped', NEW t \in Threads, Shutdown(t)
  PROVE  ~misused' /\ Life'
<1> DEFINE c == call[t].client
<1>0. /\ call[t] \in Calls /\ call[t].pc \in {"shutdown", "released"} /\ c \in Ids /\ ~Freed(c)
      /\ quic \in [Ids -> Quics]
  BY Shapes, Safely DEF Shutdown, IInv, TypeOK
<1>p. StreamsInUse /\ OnStreams /\ NativelyTyped /\ HeldByLists /\ CallsAreServed /\ InUse
  BY Natively DEF Life, StreamsInUse
<1> DEFINE s == [call[t] EXCEPT !.pc = IF @ = "shutdown" THEN "abort" ELSE "abort released",
                               !.rest = Listed(c), !.connection = quic[c].connection]
<1>1. /\ UNCHANGED <<known, handles, connections, native, callback, abandoned>> /\ ~misused'
      /\ \A u \in Others(t, c) : ~MayClose(u)
      /\ quic' = [quic EXCEPT ![c].attached = FALSE]
      /\ call' = [call EXCEPT ![t] = s]
  BY <1>0 DEF Shutdown, Uses, table, history, Become
<1>2. \A d \in Ids : /\ quic'[d].connection = quic[d].connection /\ quic'[d].life = quic[d].life
                     /\ quic'[d].streams = quic[d].streams /\ quic'[d].doomed = quic[d].doomed
  BY <1>0, <1>1 DEF Quics
<1>3. /\ s.pc = (IF call[t].pc = "shutdown" THEN "abort" ELSE "abort released")
      /\ s.client = c /\ s.rest = Listed(c) /\ s.connection = quic[c].connection
  BY <1>0 DEF Calls
<1> HIDE DEF s
<1>4. s.pc \in {"abort", "abort released"} /\ (s.pc \in Releasing <=> call[t].pc \in Releasing)
  BY <1>0, <1>3 DEF Releasing
<1>5. ASSUME NEW e \in quic[c].streams
      PROVE  Whole(e.native, c) /\ NobodyHolds(e.native)
  <2>1. \A u \in Threads : call[u].pc \in {"prefix", "unlist"} /\ call[u].client = c => call[u].id # e.id
    BY <1>0, <1>1 DEF Others, MayClose
  <2> QED BY <1>0, <2>1, Untaken
<1>6. SendsWell(s) /\ AbortsWell(s) /\ ClosesWell(s, s)
  BY <1>3, <1>4, <1>5 DEF SendsWell, AbortsWell, ClosesWell, Listed
<1>7. ASSUME NEW u \in Threads, u # t
      PROVE  ClosesWell(call[u], s) /\ ClosesWell(s, call[u])
  <2>1. ClosesWell(call[u], s)
    BY <1>4 DEF ClosesWell
  <2>2. ASSUME call[u].pc = "closing", NEW e \in EntriesOf(call[u].client, call[u].id)
        PROVE  e.native \notin s.rest
    <3>1. call[u].client # c /\ call[u].client \in Ids /\ e \in quic[call[u].client].streams
      BY <1>1, <1>7, <1>p, <2>2 DEF Others, MayClose, NativelyTyped, EntriesOf
    <3>2. Home(e.native) # c
      BY <1>p, <3>1 DEF HeldByLists
    <3>3. \A f \in quic[c].streams : Home(f.native) = c
      BY <1>0, <1>p DEF HeldByLists
    <3> QED BY <1>3, <3>2, <3>3 DEF Listed
  <2> QED BY <2>1, <2>2 DEF ClosesWell
<1>8. OnStreams'
  <2>1. \A u \in Threads : call'[u] = IF u = t THEN s ELSE call[u]
    BY <1>1, CallAt
  <2>2. \A u \in Threads : call'[u].pc \in {"send", "sending", "closing"} => call'[u] = call[u]
    BY <1>4, <2>1
  <2> QED BY <1>1, <1>p, <2>2 DEF OnStreams
<1>9. StreamsInUse'
  <2>1. \A d \in Ids : ContextAsBefore(d)
    BY <1>2 DEF ContextAsBefore
  <2>2. call[t].pc \notin Holding /\ s.pc \notin Holding
    BY <1>0, <1>4 DEF Holding
  <2> QED BY <1>1, <1>6, <1>7, <1>8, <1>p, <2>1, <2>2, UseStep
<1>10. CallsAreServed'
  <2>1. ServedAs(call[t], s)
    BY <1>0, <1>3, <1>4 DEF ServedAs
  <2>2. \A u \in Threads : ServedAs(call[u], call'[u])
    BY <1>1, <2>1, OneCall
  <2> QED BY <1>1, <1>2, <1>p, <2>2, ServedFrame
<1>11. ConnectionsInUse'
  <2>1. \A u \in Others(t, call[t].client) : ~Dials(u)
    BY <1>1 DEF MayClose
  <2>2. call[t].pc \notin Closers \cup {"idle"} /\ s.pc \notin Closers \cup {"idle"}
    BY <1>0, <1>4 DEF Closers
  <2> QED BY <1>1, <1>2, <1>3, <2>1, <2>2, CopyKeeps
<1> QED BY <1>1, <1>9, <1>10, <1>11 DEF Life

\* The release of a stream handle.
LEMMA HandingBackLives ==
  ASSUME IInv, IInv', NamesInv, Life, ~misused, ~overlapped', NEW t \in Threads, NEW i \in Ids, ReleaseStream(t, i)
  PROVE  ~misused' /\ Life'
<1> DEFINE c == handles[i].client
<1>0. handles \in [Ids -> Handles]
  BY DEF IInv, TypeOK
<1>p. StreamsInUse /\ OnStreams /\ NativelyTyped /\ HeldByLists /\ InUse
  BY Natively DEF Life, StreamsInUse
<1>1. /\ UNCHANGED <<known, quic, connections, native, callback, abandoned>> /\ ~misused'
      /\ call[t].pc = "idle" /\ i \in known /\ handles[i].kind = "stream" /\ Begin(t, "closing", c, i)
      /\ handles' = [handles EXCEPT ![i] = NoHandle]
      /\ \A u \in Others(t, c) : call[u].id # i /\ \A e \in EntriesOf(c, i) : e.native \notin call[u].rest
  BY DEF ReleaseStream, Running, Usable, Found
<1>2. PICK s : /\ call' = [call EXCEPT ![t] = s]
               /\ s.pc = "closing" /\ s.client = c /\ s.id = i
               /\ s.connection = 0 /\ s.rest = {} /\ s.native = NoNative
  BY <1>1, Begins
<1>3. Found(c, "client")
  BY <1>1 DEF IInv, ChildrenHaveClient
<1>c. c \in Ids
  BY <1>3 DEF Found
<1>4. handles'[i].kind = "none" /\ \A j \in Ids : j # i => handles'[j] = handles[j]
  BY <1>0, <1>1 DEF NoHandle
<1>u. \A u \in Threads : call'[u] = IF u = t THEN s ELSE call[u]
  BY <1>2, CallAt
<1>5. SendsWell(s) /\ AbortsWell(s) /\ ClosesWell(s, s)
  BY <1>2 DEF SendsWell, AbortsWell, ClosesWell
<1>6. ASSUME NEW u \in Threads, u # t
      PROVE  ClosesWell(call[u], s) /\ ClosesWell(s, call[u])
  <2>1. ClosesWell(s, call[u])
    BY <1>2 DEF ClosesWell
  <2>2. ASSUME NEW e \in EntriesOf(c, i), e.native \in call[u].rest
        PROVE  FALSE
    <3>1. Home(e.native) = call[u].client /\ call[u].pc # "idle"
      BY <1>p, <2>2 DEF InUse, Whole
    <3>2. Home(e.native) = c
      BY <1>c, <1>p DEF HeldByLists, EntriesOf
    <3> QED BY <1>1, <1>6, <2>2, <3>1, <3>2 DEF Others
  <2> QED BY <1>2, <2>1, <2>2 DEF ClosesWell
<1>7. OnStreams'
  <2>1. ASSUME NEW u \in Threads, call'[u].pc \in {"send", "sending"}
        PROVE  /\ call[u].pc \in {"send", "sending"} /\ call'[u].id = call[u].id /\ call'[u].client = call[u].client
               /\ handles'[call[u].id] = handles[call[u].id]
    <3>1. u # t /\ call'[u] = call[u]
      BY <1>2, <1>u, <2>1
    <3>2. call[u].id \in Ids /\ handles[call[u].id].client = call[u].client
      BY <1>p, <2>1, <3>1, Shapes DEF OnStreams
    <3>3. call[u].id # i
      BY <1>1, <2>1, <3>1, <3>2 DEF Others
    <3> QED BY <1>4, <2>1, <3>1, <3>2, <3>3
  <2>2. ASSUME NEW u \in Threads, call'[u].pc = "closing"
        PROVE  \/ call[u].pc = "closing" /\ call'[u].id = call[u].id
                  /\ (handles[call[u].id].kind = "none" => handles'[call[u].id].kind = "none")
               \/ call'[u].id \in known /\ handles'[call'[u].id].kind = "none"
    <3>1. CASE u = t
      BY <1>1, <1>2, <1>4, <1>u, <3>1
    <3>2. CASE u # t
      <4>1. call'[u] = call[u] /\ call[u].id \in Ids
        BY <1>p, <1>u, <2>2, <3>2, Shapes DEF OnStreams
      <4> QED BY <1>4, <2>2, <4>1
    <3> QED BY <3>1, <3>2
  <2> QED BY <1>1, <1>p, <2>1, <2>2, OnStreamsFrame
<1>8. StreamsInUse'
  <2>1. \A d \in Ids : ContextAsBefore(d)
    BY <1>1 DEF ContextAsBefore
  <2>2. call[t].pc \notin Holding /\ s.pc \notin Holding
    BY <1>1, <1>2 DEF Holding
  <2> QED BY <1>1, <1>2, <1>5, <1>6, <1>7, <1>p, <2>1, <2>2, UseStep
<1>9. CallsRunOn
  <2>1. ServedAs(call[t], s) /\ ConnectsAs(call[t], s)
    BY <1>1, <1>2, <1>3 DEF ServedAs, ConnectsAs, Closers, Releasing
  <2> QED BY <1>2, <2>1, OneCall DEF CallsRunOn
<1>10. LinksKept
  BY <1>1, <1>4 DEF LinksKept
<1> QED BY <1>1, <1>8, <1>9, <1>10, WithStreams

\* The prefix is sent: the caller gets the id.
LEMMA SentLives ==
  ASSUME IInv, IInv', NamesInv, Life, ~misused, NEW t \in Threads, SendPrefix(t, TRUE)
  PROVE  ~misused' /\ Life'
<1>p. StreamsInUse /\ OnStreams /\ NativelyTyped /\ StreamsHaveHomes /\ InUse
  BY Natively DEF Life, StreamsInUse
<1>1. /\ call[t].pc = "prefix" /\ ~misused' /\ call' = [call EXCEPT ![t] = NoCall] /\ known \subseteq known'
      /\ UNCHANGED <<handles, quic, connections, native, callback, abandoned>>
  <2>1. call[t].pc = "prefix"
    BY DEF SendPrefix, Running
  <2>2. ~Closed(call[t].native)
    BY <2>1, Safely
  <2> QED BY <2>1, <2>2 DEF SendPrefix, Uses, ReturnId, Return, Become, history
<1>2. \A u \in Threads : call'[u] = IF u = t THEN NoCall ELSE call[u]
  BY <1>1, CallAt
<1>3. \A u \in Threads : call'[u] = call[u] \/ (call[u].pc = "prefix" /\ call'[u].pc = "idle" /\ call'[u].rest = {})
  BY <1>1, <1>2, NoCallFields
<1>h. \A u \in Threads : HeldAsBefore(u)
  BY <1>3 DEF HeldAsBefore, Holding
<1>4. /\ StreamsHaveHomes' /\ HeldByCalls' /\ HeldByCallbacks' /\ HeldByLists' /\ HeldByDestroys'
      /\ NativesKeep /\ ClientsKeep
      /\ \A q \in NativeStreams : StaysUsable(q) /\ (Unfinished(q)' <=> Unfinished(q))
      /\ \A c \in Ids : EndsAsBefore(c) /\ quic'[c].streams = quic[c].streams /\ quic'[c].doomed = quic[c].doomed
      /\ abandoned \subseteq abandoned' /\ callback' = callback
  <2>1. \A c \in Ids : ContextAsBefore(c)
    BY <1>1 DEF ContextAsBefore
  <2>2. StillStreams
    BY <1>1, <2>1, SameStreams DEF StillStreams
  <2>3. \A u \in Threads : call[u].pc = "unlist" => call'[u].pc = "unlist" /\ call'[u].native = call[u].native
    BY <1>3
  <2> QED BY <1>h, <1>p, <2>2, <2>3, StillFrame
<1>5. OnStreams'
  <2>1. \A u \in Threads : call'[u].pc \in {"send", "sending", "closing"} => call'[u] = call[u]
    BY <1>3
  <2> QED BY <1>1, <1>p, <2>1 DEF OnStreams
<1>6. InUse'
  <2>1. ASSUME NEW u \in Threads PROVE SendsAsBefore(u) /\ AbortsAsBefore(u) /\ ClosesAsBefore(u)
    <3>1. CASE call'[u] = call[u]
      BY <1>p, <3>1 DEF SendsAsBefore, AbortsAsBefore, ClosesAsBefore, InUse
    <3>2. CASE call'[u].pc = "idle" /\ call'[u].rest = {}
      BY <3>2 DEF SendsAsBefore, AbortsAsBefore, ClosesAsBefore
    <3> QED BY <1>3, <3>1, <3>2
  <2>2. \A q \in NativeStreams : Referred(q) => StaysUsable(q)
    BY <1>4
  <2> QED BY <1>4, <1>p, <2>1, <2>2, InUseFrame
<1>7. NothingForgotten'
  <2>1. \A u \in Threads : call[u].pc \in Holding => call'[u] = call[u] \/ (call[u].pc = "prefix" /\ call'[u].pc \notin Holding)
    BY <1>3 DEF Holding
  <2>2. \A q \in NativeStreams : Unfinished(q)' <=> Unfinished(q)
    BY <1>4
  <2> QED BY <1>4, <1>h, <1>p, <2>1, <2>2, StillKept
<1>8. StreamsInUse'
  BY <1>4, <1>5, <1>6, <1>7 DEF StreamsInUse
<1>9. CallsRunOn
  <2>1. ServedAs(call[t], NoCall) /\ ConnectsAs(call[t], NoCall)
    BY <1>1, NoCallFields DEF ServedAs, ConnectsAs, Closers
  <2> QED BY <1>1, <2>1, OneCall DEF CallsRunOn
<1> QED BY <1>1, <1>8, <1>9, LinksAsBefore, WithStreams

\* A stream goes off the list, to whoever took it off or because it is over.
TakesAs(q, r, s) ==
  \/ s = r
  \/ r.pc = "unlist" /\ r.native = q /\ s.pc = "undo" /\ s.rest = {}
  \/ r.pc = "closing" /\ s.pc = "close" /\ s.native = q /\ s.rest = {}
TakenOff(c, q) ==
  \A d \in Ids : /\ quic'[d].life = quic[d].life /\ quic'[d].doomed = quic[d].doomed
                 /\ \A e \in quic'[d].streams : e \in quic[d].streams /\ (d = c => e.native # q)
                 /\ \A e \in quic[d].streams : e.native # q => e \in quic'[d].streams
MayBeOver(q) ==
  /\ \A p \in NativeStreams : p # q => native'[p] = native[p]
  /\ native'[q] = native[q] \/ (native[q].state = "open" /\ native'[q].state = "over")
  /\ native'[q].connection = native[q].connection

LEMMA TakeOff ==
  ASSUME IInv, IInv', NamesInv, StreamsInUse,
         UNCHANGED <<connections, abandoned, known, handles>>,
         NEW c \in Ids, NEW q \in NativeStreams, native[q].state # "unused", Home(q) = c,
         TakenOff(c, q), MayBeOver(q), HeldByCalls',
         \A k \in Ids : callback'[k] = callback[k] \/ (callback'[k].pc \notin Backing /\ callback[k].pc \notin Backing),
         \A k \in Ids : callback[k].pc \in Backing => callback[k].native # q,
         \A t \in Threads : TakesAs(q, call[t], call'[t]),
         Referred(q) => \A t \in Threads : call'[t].pc = "close" => call'[t] = call[t],
         Unfinished(q)' => /\ Kept(q)'
                           /\ \A t \in Threads : call[t].pc = "prefix" => call[t].native # q
  PROVE  StreamsInUse'
<1>p. /\ NativelyTyped
      /\ StreamsHaveHomes /\ HeldByCalls /\ HeldByCallbacks /\ HeldByLists /\ HeldByDestroys /\ OnStreams /\ InUse
      /\ NothingForgotten
  BY Natively DEF StreamsInUse
<1>n. \A p \in NativeStreams : /\ native'[p].state = "closed" <=> native[p].state = "closed"
                               /\ native'[p].state = "unused" <=> native[p].state = "unused"
                               /\ native'[p].connection = native[p].connection
                               /\ native'[p].state \in {"open", "cut"} => native[p].state \in {"open", "cut"}
                               /\ p # q => native'[p] = native[p]
  BY DEF MayBeOver
<1>k. NativesKeep /\ ClientsKeep
  BY <1>n DEF NativesKeep, ClientsKeep
<1>x. \A d \in Ids : /\ quic'[d].life = quic[d].life /\ quic'[d].doomed = quic[d].doomed
                     /\ quic'[d].streams \subseteq quic[d].streams
                     /\ \A e \in quic'[d].streams : d = c => e.native # q
                     /\ \A e \in quic[d].streams : e.native # q => e \in quic'[d].streams
  BY DEF TakenOff
<1>b. \A k \in Ids : /\ BackedAsBefore(k)
                     /\ callback[k].pc \in Backing => callback'[k] = callback[k]
  BY DEF BackedAsBefore, Backing
<1>a. ASSUME NEW t \in Threads
      PROVE  /\ SendsAsBefore(t) /\ AbortsAsBefore(t) /\ ClosesAsBefore(t)
             /\ call'[t].pc \in Holding => HeldAsBefore(t) \/ (call'[t].pc = "close" /\ call'[t].native = q)
             /\ call[t].pc \in Holding /\ call[t].native # q => call'[t] = call[t]
             /\ call'[t].pc \in {"prefix", "send", "sending", "closing"} => call'[t] = call[t]
  <2>0. TakesAs(q, call[t], call'[t])
    OBVIOUS
  <2>1. CASE call'[t] = call[t]
    BY <1>p, <2>1 DEF HeldAsBefore, SendsAsBefore, AbortsAsBefore, ClosesAsBefore, InUse
  <2>2. CASE call[t].pc = "unlist" /\ call[t].native = q /\ call'[t].pc = "undo" /\ call'[t].rest = {}
    BY <2>2 DEF SendsAsBefore, AbortsAsBefore, ClosesAsBefore, Holding
  <2>3. CASE call[t].pc = "closing" /\ call'[t].pc = "close" /\ call'[t].native = q /\ call'[t].rest = {}
    BY <2>3 DEF SendsAsBefore, AbortsAsBefore, ClosesAsBefore, Holding
  <2> QED BY <2>0, <2>1, <2>2, <2>3 DEF TakesAs
<1>1. StreamsHaveHomes'
  BY <1>n, <1>p DEF StreamsHaveHomes
<1>3. HeldByCallbacks'
  <2>1. ASSUME NEW k \in Ids, callback'[k].pc \in Backing
        PROVE  callback[k].pc \in Backing /\ callback[k].native # q /\ callback[k].native \in NativeStreams
    BY <1>b, <1>p, <2>1 DEF NativelyTyped, BackedAsBefore
  <2>2. \A k \in Ids : callback'[k].pc \in Backing => native'[callback[k].native] = native[callback[k].native]
    BY <1>n, <2>1
  <2>3. \A k \in Ids, t \in Threads : callback'[k].pc \in Backing /\ call'[t].pc \in Holding =>
           HeldAsBefore(t) \/ call'[t].native # callback[k].native
    BY <1>a, <2>1
  <2>4. \A k, d \in Ids : callback'[k].pc \in Backing =>
           /\ \A e \in quic'[d].streams : e \in quic[d].streams \/ e.native # callback[k].native
           /\ quic'[d].doomed \subseteq quic[d].doomed \cup Listed(d)
    BY <1>x
  <2>5. \A k \in Ids : BackedAsBefore(k)
    BY <1>b
  <2> QED BY <1>p, <2>2, <2>3, <2>4, <2>5, HeldByCallbacksFrame
<1>4. HeldByLists'
  <2>1. ASSUME NEW d \in Ids, NEW e \in quic'[d].streams, native'[e.native].state = "closed"
        PROVE  /\ native[e.native].state = "closed"
               /\ \A t \in Threads : call[t].pc = "unlist" /\ call[t].native = e.native =>
                    call'[t].pc = "unlist" /\ call'[t].native = call[t].native
    <3>1. e \in quic[d].streams /\ e.native \in NativeStreams
      BY <1>p, <1>x, <2>1 DEF NativelyTyped
    <3>2. e.native # q
      <4>1. Home(e.native) = d
        BY <1>p, <3>1 DEF HeldByLists
      <4> QED BY <1>x, <2>1, <4>1
    <3>3. \A t \in Threads : call[t].pc = "unlist" /\ call[t].native = e.native => call'[t] = call[t]
      BY <1>a, <3>2 DEF Holding
    <3> QED BY <1>n, <2>1, <3>1, <3>3
  <2>2. \A d \in Ids : quic'[d].streams \subseteq quic[d].streams
    BY <1>x
  <2> QED BY <1>k, <1>p, <2>1, <2>2, HeldByListsFrame
<1>5. HeldByDestroys'
  <2>1. ASSUME NEW d \in Ids, NEW p \in quic'[d].doomed
        PROVE  /\ p \in quic[d].doomed
               /\ quic'[d].life = quic[d].life
               /\ native'[p].state = "closed" => native[p].state = "closed"
               /\ \A e \in quic'[d].streams : e \in quic[d].streams \/ e.native # p
    <3>1. p \in quic[d].doomed /\ p \in NativeStreams
      BY <1>p, <1>x, <2>1 DEF NativelyTyped
    <3> QED BY <1>n, <1>x, <3>1
  <2> QED BY <1>k, <1>p, <2>1, HeldByDestroysFrame
<1>6. OnStreams'
  <2>1. \A t \in Threads : call'[t].pc \in {"send", "sending", "closing"} => call'[t] = call[t]
    BY <1>a
  <2> QED BY <1>p, <2>1 DEF OnStreams
<1>7. InUse'
  <2>1. \A t \in Threads : SendsAsBefore(t) /\ AbortsAsBefore(t) /\ ClosesAsBefore(t)
    BY <1>a
  <2>2. ASSUME NEW p \in NativeStreams, Referred(p)
        PROVE  StaysUsable(p)
    <3>1. \A t \in Threads : call'[t].pc \in Holding => HeldAsBefore(t) \/ call'[t].native # p
      <4>1. CASE p # q
        BY <1>a, <4>1
      <4>2. CASE p = q
        <5>1. \A t \in Threads : call'[t].pc = "close" => call'[t] = call[t]
          BY <2>2, <4>2
        <5>2. ASSUME NEW t \in Threads, call'[t].pc = "close" PROVE HeldAsBefore(t)
          BY <5>1, <5>2 DEF HeldAsBefore
        <5> QED BY <1>a, <5>2
      <4> QED BY <4>1, <4>2
    <3> QED BY <1>b, <1>n, <1>x, <3>1 DEF StaysUsable
  <2> QED BY <1>k, <1>p, <2>1, <2>2, InUseFrame
<1>8. NothingForgotten'
  <2>1. ASSUME NEW p \in NativeStreams, Unfinished(p)'
        PROVE  Kept(p)' \/ (Unfinished(p) /\ StaysKept(p))
    <3>1. CASE p = q
      BY <2>1, <3>1
    <3>2. CASE p # q
      <4>1. Unfinished(p)
        BY <1>n, <2>1, <3>2 DEF Unfinished
      <4>2. \A t \in Threads : call[t].pc \in Holding /\ call[t].native = p => call'[t] = call[t]
        BY <1>a, <3>2
      <4>3. \A d \in Ids : /\ p \in quic[d].doomed => p \in quic'[d].doomed
                           /\ \A e \in quic[d].streams : e.native = p => e \in quic'[d].streams
        BY <1>x, <3>2
      <4> QED BY <1>b, <4>1, <4>2, <4>3 DEF StaysKept
    <3> QED BY <3>1, <3>2
  <2>2. ASSUME NEW t \in Threads, call'[t].pc = "prefix", native'[call'[t].native].state \in {"open", "cut"}
        PROVE  PrefixAsBefore(t)
    <3>1. call'[t] = call[t] /\ call[t].native \in NativeStreams /\ call[t].client \in Ids
      BY <1>a, <1>p, <2>2 DEF NativelyTyped, Holding
    <3>2. call[t].native # q
      BY <2>2, <3>1 DEF Unfinished
    <3>3. \A e \in quic[call[t].client].streams : e.native = call[t].native => e \in quic'[call[t].client].streams
      BY <1>x, <3>1, <3>2
    <3> QED BY <1>n, <2>2, <3>1, <3>3 DEF PrefixAsBefore
  <2>3. \A d \in Ids : EndsAsBefore(d)
    BY <1>p, <1>x DEF EndsAsBefore
  <2>4. abandoned \subseteq abandoned'
    OBVIOUS
  <2> QED BY <1>p, <2>1, <2>2, <2>3, <2>4, ForgottenFrame
<1> QED BY <1>1, <1>3, <1>4, <1>5, <1>6, <1>7, <1>8 DEF StreamsInUse

\* A stream that is listed belongs to that list alone.
LEMMA EntriesTaken ==
  ASSUME IInv, NEW c \in Ids, NEW q, quic' = [quic EXCEPT ![c].streams = @ \ EntriesAt(c, q)]
  PROVE  /\ TakenOff(c, q)
         /\ \A d \in Ids : /\ quic'[d].life = quic[d].life /\ quic'[d].connection = quic[d].connection
                           /\ quic'[d].streams \subseteq quic[d].streams
<1>0. quic \in [Ids -> Quics]
  BY DEF IInv, TypeOK
<1>1. \A d \in Ids : /\ quic'[d].connection = quic[d].connection /\ quic'[d].life = quic[d].life
                     /\ quic'[d].streams = (IF d = c THEN quic[c].streams \ EntriesAt(c, q) ELSE quic[d].streams)
                     /\ quic'[d].doomed = quic[d].doomed
  BY <1>0 DEF Quics
<1>2. \A d \in Ids : /\ \A e \in quic'[d].streams : e \in quic[d].streams /\ (d = c => e.native # q)
                     /\ \A e \in quic[d].streams : e.native # q => e \in quic'[d].streams
  <2> SUFFICES ASSUME NEW d \in Ids
               PROVE  /\ \A e \in quic'[d].streams : e \in quic[d].streams /\ (d = c => e.native # q)
                      /\ \A e \in quic[d].streams : e.native # q => e \in quic'[d].streams
    OBVIOUS
  <2>1. CASE d = c
    <3>1. quic'[d].streams = quic[d].streams \ EntriesAt(d, q)
      BY <1>1, <2>1
    <3>2. \A e : e \in quic'[d].streams <=> e \in quic[d].streams /\ e.native # q
      BY <3>1 DEF EntriesAt
    <3> QED BY <3>2
  <2>2. CASE d # c
    BY <1>1, <2>2
  <2> QED BY <2>1, <2>2
<1> QED BY <1>1, <1>2 DEF TakenOff

\* A stream that a failed prefix closed goes off the list.
LEMMA UnlistingLives ==
  ASSUME IInv, IInv', NamesInv, Life, ~misused, NEW t \in Threads, Unlist(t)
  PROVE  ~misused' /\ Life'
<1>q. PICK q : q = call[t].native
  OBVIOUS
<1> DEFINE c == call[t].client
           s == [call[t] EXCEPT !.pc = "undo"]
<1>0. call[t] \in Calls /\ call[t].pc = "unlist" /\ c \in Ids /\ ~Freed(c) /\ call[t].rest = {}
  BY Shapes, Safely, NoRest DEF Unlist, Running
<1>p. /\ NativelyTyped /\ StreamsInUse
      /\ StreamsHaveHomes /\ HeldByCalls /\ HeldByCallbacks /\ HeldByLists /\ HeldByDestroys /\ OnStreams /\ InUse
      /\ NothingForgotten
  BY Natively DEF Life, StreamsInUse
<1>1. /\ UNCHANGED <<known, handles, connections, native, callback, abandoned>> /\ ~misused'
      /\ quic' = [quic EXCEPT ![c].streams = @ \ EntriesAt(c, q)]
      /\ call' = [call EXCEPT ![t] = s]
  BY <1>0, <1>q DEF Unlist, Uses, table, history, Go
<1>2. s.pc = "undo" /\ s.client = c /\ s.rest = {} /\ s.connection = call[t].connection
  BY <1>0 DEF Calls
<1> HIDE DEF s
<1>u. \A u \in Threads : call'[u] = IF u = t THEN s ELSE call[u]
  BY <1>1, CallAt
<1>3. q \in NativeStreams /\ native[q].state = "closed" /\ Home(q) = c
  BY <1>0, <1>p, <1>q DEF NativelyTyped, HeldByCalls, Holding
<1>4. /\ TakenOff(c, q)
      /\ \A d \in Ids : /\ quic'[d].life = quic[d].life /\ quic'[d].connection = quic[d].connection
                        /\ quic'[d].streams \subseteq quic[d].streams
  BY <1>0, <1>1, EntriesTaken
<1>5. MayBeOver(q)
  BY <1>1 DEF MayBeOver
<1>6. HeldByCalls'
  <2>1. \A u \in Threads : HeldAsBefore(u)
    BY <1>2, <1>u DEF HeldAsBefore, Holding
  <2>2. \A u \in Threads : call'[u].pc \in Holding =>
          (native'[call[u].native].state = "closed" <=> native[call[u].native].state = "closed")
    BY <1>1
  <2>3. \A u \in Threads, d \in Ids : call'[u].pc \in Holding =>
          \A e \in quic'[d].streams : e \in quic[d].streams \/ e.native # call[u].native
    BY <1>4
  <2>4. NativesKeep /\ ClientsKeep
    BY <1>1 DEF NativesKeep, ClientsKeep
  <2> QED BY <1>p, <2>1, <2>2, <2>3, <2>4, HeldByCallsFrame
<1>7. \A k \in Ids : callback[k].pc \in Backing => callback[k].native # q
  BY <1>0, <1>p, <1>q DEF HeldByCallbacks, Holding
<1>8. \A u \in Threads : TakesAs(q, call[u], call'[u])
  BY <1>0, <1>2, <1>q, <1>u DEF TakesAs
<1>9. \A u \in Threads : call'[u].pc = "close" => call'[u] = call[u]
  BY <1>2, <1>u
<1>10. ~Unfinished(q)'
  BY <1>1, <1>3 DEF Unfinished
<1>11. StreamsInUse'
  <2>1. \A k \in Ids : callback'[k] = callback[k]
    BY <1>1
  <2> QED BY <1>0, <1>1, <1>3, <1>4, <1>5, <1>6, <1>7, <1>8, <1>9, <1>10, <1>p, <2>1, TakeOff
<1>12. CallsRunOn
  <2>1. ServedAs(call[t], s) /\ ConnectsAs(call[t], s)
    BY <1>0, <1>2 DEF ServedAs, ConnectsAs, Closers, Releasing
  <2> QED BY <1>1, <2>1, OneCall DEF CallsRunOn
<1>13. LinksKept
  BY <1>1, <1>4 DEF LinksKept
<1> QED BY <1>1, <1>11, <1>12, <1>13, WithStreams

\* The release of a handle takes its stream off the list.
LEMMA DelistingLives ==
  ASSUME IInv, IInv', NamesInv, Life, ~misused, NEW t \in Threads, Delist(t),
         NEW e \in EntriesOf(call[t].client, call[t].id),
         Become(t, [call[t] EXCEPT !.pc = "close", !.native = e.native]),
         quic' = [quic EXCEPT ![call[t].client].streams = @ \ EntriesAt(call[t].client, e.native)]
  PROVE  ~misused' /\ Life'
<1> DEFINE c == call[t].client
           q == e.native
           s == [call[t] EXCEPT !.pc = "close", !.native = e.native]
<1>0. call[t] \in Calls /\ call[t].pc = "closing" /\ c \in Ids /\ ~Freed(c) /\ call[t].rest = {}
  BY Shapes, Safely, NoRest DEF Delist, Running
<1>p. /\ NativelyTyped /\ StreamsInUse
      /\ StreamsHaveHomes /\ HeldByCalls /\ HeldByCallbacks /\ HeldByLists /\ HeldByDestroys /\ OnStreams /\ InUse
      /\ NothingForgotten
  BY Natively DEF Life, StreamsInUse
<1>1. /\ UNCHANGED <<known, handles, connections, native, callback, abandoned>> /\ ~misused'
      /\ call' = [call EXCEPT ![t] = s]
  BY <1>0 DEF Delist, Uses, table, history, Become
<1>2. /\ s.pc = "close" /\ s.client = c /\ s.rest = {} /\ s.connection = call[t].connection
      /\ s.native = q /\ s.id = call[t].id
  BY <1>0 DEF Calls
<1> HIDE DEF s
<1>u. \A u \in Threads : call'[u] = IF u = t THEN s ELSE call[u]
  BY <1>1, CallAt
<1>3. e \in quic[c].streams /\ e.id = call[t].id /\ call[t].id \in known /\ handles[call[t].id].kind = "none"
  BY <1>0, <1>p DEF EntriesOf, OnStreams
<1>4. q \in NativeStreams /\ Whole(q, c) /\ NobodyHolds(q) /\ \A f \in EntriesAt(c, q) : f = e
  <2>1. \A u \in Threads : call[u].pc \in {"prefix", "unlist"} /\ call[u].client = c => call[u].id # e.id
    BY <1>3, KnownUntaken
  <2> QED BY <1>0, <1>3, <2>1, Untaken
<1>5. ~Referred(q)
  <2>1. ASSUME NEW u \in Threads, call[u].pc = "sending", call[u].native = q
        PROVE  FALSE
    <3>1. Home(q) = call[u].client /\ \A f \in EntriesAt(call[u].client, q) : f.id = call[u].id
      BY <1>p, <2>1 DEF InUse, Whole
    <3>2. call[u].client = c
      BY <1>4, <3>1 DEF Whole
    <3>3. e.id = call[u].id
      BY <1>3, <3>1, <3>2 DEF EntriesAt
    <3>4. handles[call[u].id].kind = "stream"
      BY <1>p, <2>1 DEF OnStreams
    <3> QED BY <1>3, <3>3, <3>4
  <2>2. \A u \in Threads : q \notin call[u].rest
    BY <1>0, <1>p DEF InUse
  <2> QED BY <2>1, <2>2 DEF Referred
<1>6. /\ TakenOff(c, q)
      /\ \A d \in Ids : /\ quic'[d].life = quic[d].life /\ quic'[d].connection = quic[d].connection
                        /\ quic'[d].streams \subseteq quic[d].streams
  BY <1>0, EntriesTaken
<1>7. MayBeOver(q)
  BY <1>1 DEF MayBeOver
<1>8. HeldByCalls'
  <2>1. ASSUME NEW u \in Threads, call'[u].pc \in Holding
        PROVE  /\ native'[call'[u].native].state # "unused"
               /\ connections'[native'[call'[u].native].connection].client = call'[u].client
               /\ native'[call'[u].native].state = "closed" <=> call'[u].pc = "unlist"
    <3>1. CASE u = t
      BY <1>1, <1>2, <1>4, <1>u, <3>1 DEF Whole, Home
    <3>2. CASE u # t
      BY <1>1, <1>p, <1>u, <2>1, <3>2 DEF HeldByCalls, Home
    <3> QED BY <3>1, <3>2
  <2>2. ASSUME NEW u \in Threads, NEW v \in Threads, u # v, call'[u].pc \in Holding, call'[v].pc \in Holding
        PROVE  call'[u].native # call'[v].native
    BY <1>2, <1>4, <1>p, <1>u, <2>2 DEF HeldByCalls, NobodyHolds
  <2>3. ASSUME NEW u \in Threads, NEW d \in Ids, call'[u].pc \in Holding, NEW f \in quic'[d].streams,
               f.native = call'[u].native
        PROVE  call'[u].pc \in {"prefix", "unlist"} /\ f.id = call'[u].id
    <3>0. f \in quic[d].streams
      BY <1>6
    <3>1. CASE u = t
      <4>1. f.native = q
        BY <1>2, <1>u, <2>3, <3>1
      <4>2. Home(q) = d /\ Home(q) = c
        BY <1>4, <1>p, <3>0, <4>1 DEF HeldByLists, Whole
      <4> QED BY <1>6, <4>1, <4>2 DEF TakenOff
    <3>2. CASE u # t
      BY <1>p, <1>u, <2>3, <3>0, <3>2 DEF HeldByCalls, EntriesAt
    <3> QED BY <3>1, <3>2
  <2> QED BY <2>1, <2>2, <2>3 DEF HeldByCalls, EntriesAt, Home
<1>9. \A u \in Threads : TakesAs(q, call[u], call'[u])
  BY <1>0, <1>2, <1>u DEF TakesAs
<1>10. Kept(q)' /\ \A u \in Threads : call[u].pc = "prefix" => call[u].native # q
  <2>1. \A u \in Threads : call[u].pc = "prefix" => call[u].native # q
    BY <1>4 DEF NobodyHolds, Holding
  <2>2. call'[t].pc \in Holding /\ call'[t].native = q
    BY <1>2, <1>u DEF Holding
  <2> QED BY <2>1, <2>2 DEF Kept
<1>11. StreamsInUse'
  <2>1. \A k \in Ids : callback'[k] = callback[k]
    BY <1>1
  <2>2. native[q].state # "unused" /\ Home(q) = c /\ \A k \in Ids : callback[k].pc \in Backing => callback[k].native # q
    BY <1>4 DEF Whole, NobodyHolds
  <2> QED BY <1>0, <1>1, <1>4, <1>5, <1>6, <1>7, <1>8, <1>9, <1>10, <1>p, <2>1, <2>2, TakeOff
<1>12. CallsRunOn
  <2>1. ServedAs(call[t], s) /\ ConnectsAs(call[t], s)
    BY <1>0, <1>2 DEF ServedAs, ConnectsAs, Closers, Releasing
  <2> QED BY <1>1, <2>1, OneCall DEF CallsRunOn
<1>13. LinksKept
  BY <1>1, <1>6 DEF LinksKept
<1> QED BY <1>1, <1>11, <1>12, <1>13, WithStreams

\* Nobody has a stream that MsQuic does not have.
LEMMA UnusedIsNobodys ==
  ASSUME IInv, StreamsInUse, NEW q \in NativeStreams, native[q].state = "unused"
  PROVE  /\ NobodyHolds(q) /\ ~Referred(q)
         /\ \A c \in Ids : /\ q \notin quic[c].doomed
                           /\ \A e \in quic[c].streams : e.native # q
<1>p. HeldByCalls /\ HeldByCallbacks /\ HeldByLists /\ HeldByDestroys /\ InUse
  BY DEF StreamsInUse
<1>1. \A t \in Threads : call[t].pc \in Holding => call[t].native # q
  BY <1>p DEF HeldByCalls
<1>2. ASSUME NEW k \in Ids, callback[k].pc \in Backing
      PROVE  callback[k].native # q
  <2>1. native[callback[k].native] = [state |-> "open", connection |-> k]
    BY <1>2, <1>p DEF HeldByCallbacks
  <2> QED BY <2>1
<1>3. \A c \in Ids : q \notin quic[c].doomed /\ \A e \in quic[c].streams : e.native # q
  BY <1>p DEF HeldByLists, HeldByDestroys, Whole
<1>4. ~Referred(q)
  BY <1>p DEF Referred, InUse, Whole
<1> QED BY <1>1, <1>2, <1>3, <1>4 DEF NobodyHolds

\* MsQuic has a new stream, and somebody to whom it is handed.
GetsAs(q, r, s) == s = r \/ (r.pc = "opening" /\ s.pc = "list" /\ s.native = q /\ s.rest = {})
BacksAs(q, r, s) == s = r \/ (r.pc = "idle" /\ s.pc = "accept" /\ s.native = q)

LEMMA NewStream ==
  ASSUME IInv, IInv', NamesInv, StreamsInUse,
         UNCHANGED <<connections, abandoned, known, handles, quic>>,
         NEW q \in NativeStreams, native[q].state = "unused",
         NEW k \in Ids, connections[k].state # "none",
         native' = [native EXCEPT ![q] = [state |-> "open", connection |-> k]],
         \A t \in Threads : GetsAs(q, call[t], call'[t]),
         \A j \in Ids : BacksAs(q, callback[j], callback'[j]),
         HeldByCalls', HeldByCallbacks', Kept(q)'
  PROVE  StreamsInUse'
<1>p. /\ NativelyTyped
      /\ StreamsHaveHomes /\ HeldByCalls /\ HeldByCallbacks /\ HeldByLists /\ HeldByDestroys /\ OnStreams /\ InUse
      /\ NothingForgotten
  BY Natively DEF StreamsInUse
<1>q. /\ NobodyHolds(q) /\ ~Referred(q)
      /\ \A c \in Ids : /\ q \notin quic[c].doomed
                        /\ \A e \in quic[c].streams : e.native # q
  BY UnusedIsNobodys
<1>n. /\ \A p \in NativeStreams : p # q => native'[p] = native[p]
      /\ native'[q].state = "open" /\ native'[q].connection = k
  BY DEF IInv, TypeOK
<1>k. NativesKeep /\ ClientsKeep
  BY <1>n DEF NativesKeep, ClientsKeep
<1>a. ASSUME NEW t \in Threads
      PROVE  /\ SendsAsBefore(t) /\ AbortsAsBefore(t) /\ ClosesAsBefore(t)
             /\ call'[t].pc \in Holding => HeldAsBefore(t) \/ call'[t].native = q
             /\ call[t].pc \in Holding => call'[t] = call[t]
             /\ call'[t].pc \in {"prefix", "unlist", "send", "sending", "closing"} => call'[t] = call[t]
  <2>0. GetsAs(q, call[t], call'[t])
    OBVIOUS
  <2>1. CASE call'[t] = call[t]
    BY <1>p, <2>1 DEF HeldAsBefore, SendsAsBefore, AbortsAsBefore, ClosesAsBefore, InUse
  <2>2. CASE call[t].pc = "opening" /\ call'[t].pc = "list" /\ call'[t].native = q /\ call'[t].rest = {}
    BY <2>2 DEF SendsAsBefore, AbortsAsBefore, ClosesAsBefore, Holding
  <2> QED BY <2>0, <2>1, <2>2 DEF GetsAs
<1>b. ASSUME NEW j \in Ids
      PROVE  /\ callback'[j].pc \in Backing => BackedAsBefore(j) \/ callback'[j].native = q
             /\ callback[j].pc \in Backing => callback'[j] = callback[j]
  <2>0. BacksAs(q, callback[j], callback'[j])
    OBVIOUS
  <2> QED BY <2>0 DEF BacksAs, BackedAsBefore, Backing
<1>1. StreamsHaveHomes'
  BY <1>n, <1>p DEF StreamsHaveHomes
<1>2. HeldByLists'
  <2>1. ASSUME NEW c \in Ids, NEW e \in quic'[c].streams, native'[e.native].state = "closed"
        PROVE  /\ native[e.native].state = "closed"
               /\ \A t \in Threads : call[t].pc = "unlist" /\ call[t].native = e.native =>
                    call'[t].pc = "unlist" /\ call'[t].native = call[t].native
    <3>1. e.native # q /\ e.native \in NativeStreams
      BY <1>p, <1>q, <2>1 DEF NativelyTyped
    <3>2. \A t \in Threads : call[t].pc = "unlist" => call'[t] = call[t]
      BY <1>a DEF Holding
    <3> QED BY <1>n, <2>1, <3>1, <3>2
  <2>2. \A c \in Ids : quic'[c].streams \subseteq quic[c].streams
    OBVIOUS
  <2> QED BY <1>k, <1>p, <2>1, <2>2, HeldByListsFrame
<1>3. HeldByDestroys'
  <2>1. ASSUME NEW c \in Ids, NEW p \in quic'[c].doomed
        PROVE  /\ p \in quic[c].doomed
               /\ quic'[c].life = quic[c].life
               /\ native'[p].state = "closed" => native[p].state = "closed"
               /\ \A e \in quic'[c].streams : e \in quic[c].streams \/ e.native # p
    <3>1. p # q /\ p \in NativeStreams
      BY <1>p, <1>q, <2>1 DEF NativelyTyped
    <3> QED BY <1>n, <2>1, <3>1
  <2> QED BY <1>k, <1>p, <2>1, HeldByDestroysFrame
<1>4. OnStreams'
  <2>1. \A t \in Threads : call'[t].pc \in {"send", "sending", "closing"} => call'[t] = call[t]
    BY <1>a
  <2> QED BY <1>p, <2>1 DEF OnStreams
<1>5. InUse'
  <2>1. \A t \in Threads : SendsAsBefore(t) /\ AbortsAsBefore(t) /\ ClosesAsBefore(t)
    BY <1>a
  <2>2. ASSUME NEW p \in NativeStreams, Referred(p)
        PROVE  StaysUsable(p)
    <3>1. p # q
      BY <1>q, <2>2
    <3>2. \A t \in Threads : call'[t].pc \in Holding => HeldAsBefore(t) \/ call'[t].native # p
      BY <1>a, <3>1
    <3>3. \A j \in Ids : callback'[j].pc \in Backing => BackedAsBefore(j) \/ callback'[j].native # p
      BY <1>b, <3>1
    <3> QED BY <1>n, <3>1, <3>2, <3>3 DEF StaysUsable
  <2> QED BY <1>k, <1>p, <2>1, <2>2, InUseFrame
<1>6. NothingForgotten'
  <2>1. ASSUME NEW p \in NativeStreams, Unfinished(p)'
        PROVE  Kept(p)' \/ (Unfinished(p) /\ StaysKept(p))
    <3>1. CASE p = q
      BY <3>1
    <3>2. CASE p # q
      <4>1. Unfinished(p)
        BY <1>n, <2>1, <3>2 DEF Unfinished
      <4>2. StaysKept(p)
        BY <1>a, <1>b DEF StaysKept
      <4> QED BY <4>1, <4>2
    <3> QED BY <3>1, <3>2
  <2>2. ASSUME NEW t \in Threads, call'[t].pc = "prefix", native'[call'[t].native].state \in {"open", "cut"}
        PROVE  PrefixAsBefore(t)
    <3>1. call'[t] = call[t] /\ call[t].native \in NativeStreams /\ call[t].client \in Ids
      BY <1>a, <1>p, <2>2 DEF NativelyTyped, Holding
    <3>2. call[t].native # q
      BY <1>q, <2>2, <3>1 DEF NobodyHolds, Holding
    <3> QED BY <1>n, <2>2, <3>1, <3>2 DEF PrefixAsBefore
  <2>3. \A c \in Ids : EndsAsBefore(c)
    BY <1>p DEF EndsAsBefore
  <2>4. abandoned \subseteq abandoned'
    OBVIOUS
  <2> QED BY <1>p, <2>1, <2>2, <2>3, <2>4, ForgottenFrame
<1> QED BY <1>1, <1>2, <1>3, <1>4, <1>5, <1>6 DEF StreamsInUse

\* StreamOpen of a call.
LEMMA StreamOpens ==
  ASSUME IInv, IInv', NamesInv, Life, ~misused, NEW t \in Threads, StreamOpen(t), ~UNCHANGED native
  PROVE  ~misused' /\ Life'
<1> DEFINE c == call[t].client
<1>0. /\ call[t] \in Calls /\ call[t].pc = "opening" /\ c \in Ids /\ call[t].rest = {}
      /\ ~Over(call[t].connection)
  BY Shapes, Safely, NoRest DEF StreamOpen, Running
<1>p. /\ NativelyTyped /\ StreamsInUse
      /\ StreamsHaveHomes /\ HeldByCalls /\ HeldByCallbacks /\ HeldByLists /\ HeldByDestroys /\ OnStreams /\ InUse
      /\ NothingForgotten /\ CopiesAreOpen
  BY Natively DEF Life, StreamsInUse, ConnectionsInUse
<1>k. PICK k : k = call[t].connection
  OBVIOUS
<1>1. PICK q \in NativeStreams :
        /\ native[q].state = "unused"
        /\ native' = [native EXCEPT ![q] = [state |-> "open", connection |-> k]]
        /\ Become(t, [call[t] EXCEPT !.pc = "list", !.native = q, !.connection = 0])
  BY <1>k DEF StreamOpen
<1> DEFINE s == [call[t] EXCEPT !.pc = "list", !.native = q, !.connection = 0]
<1>2. /\ UNCHANGED <<known, handles, quic, connections, callback, abandoned>> /\ ~misused'
      /\ call' = [call EXCEPT ![t] = s]
  BY <1>0, <1>1 DEF StreamOpen, Uses, table, history, Become
<1>3. s.pc = "list" /\ s.client = c /\ s.rest = {} /\ s.connection = 0 /\ s.native = q
  BY <1>0 DEF Calls
<1> HIDE DEF s
<1>u. \A u \in Threads : call'[u] = IF u = t THEN s ELSE call[u]
  BY <1>2, CallAt
<1>4. k \in Ids /\ connections[k].state # "none" /\ connections[k].client = c
  <2>1. k # 0
    BY <1>0, <1>k DEF NamesInv, ConnectionsOfClients, Connected
  <2> QED BY <1>k, <1>p, <2>1, Shapes DEF NamesInv, ConnectionsOfClients, CopiesAreOpen
<1>q. /\ NobodyHolds(q) /\ ~Referred(q)
      /\ \A d \in Ids : /\ q \notin quic[d].doomed
                        /\ \A e \in quic[d].streams : e.native # q
  BY <1>1, <1>p, UnusedIsNobodys
<1>n. /\ \A p \in NativeStreams : p # q => native'[p] = native[p]
      /\ native'[q].state = "open" /\ native'[q].connection = k
  BY <1>1 DEF IInv, TypeOK
<1>5. HeldByCalls'
  <2>1. ASSUME NEW u \in Threads, call'[u].pc \in Holding
        PROVE  /\ native'[call'[u].native].state # "unused"
               /\ connections'[native'[call'[u].native].connection].client = call'[u].client
               /\ native'[call'[u].native].state = "closed" <=> call'[u].pc = "unlist"
               /\ u # t => call'[u] = call[u] /\ call[u].native # q
    <3>1. CASE u = t
      BY <1>2, <1>3, <1>4, <1>n, <1>u, <3>1
    <3>2. CASE u # t
      <4>1. call'[u] = call[u] /\ call[u].native # q /\ call[u].native \in NativeStreams
        BY <1>p, <1>q, <1>u, <2>1, <3>2 DEF NobodyHolds, NativelyTyped
      <4> QED BY <1>2, <1>n, <1>p, <2>1, <4>1 DEF HeldByCalls, Home
    <3> QED BY <3>1, <3>2
  <2>2. ASSUME NEW u \in Threads, NEW v \in Threads, u # v, call'[u].pc \in Holding, call'[v].pc \in Holding
        PROVE  call'[u].native # call'[v].native
    BY <1>3, <1>p, <1>u, <2>1, <2>2 DEF HeldByCalls
  <2>3. ASSUME NEW u \in Threads, NEW d \in Ids, call'[u].pc \in Holding, NEW f \in quic'[d].streams,
               f.native = call'[u].native
        PROVE  call'[u].pc \in {"prefix", "unlist"} /\ f.id = call'[u].id
    <3>0. f \in quic[d].streams /\ f.native # q
      BY <1>2, <1>q, <2>3
    <3>1. u # t
      BY <1>3, <1>u, <2>3, <3>0
    <3> QED BY <1>p, <1>u, <2>3, <3>0, <3>1 DEF HeldByCalls, EntriesAt
  <2> QED BY <2>1, <2>2, <2>3 DEF HeldByCalls, EntriesAt, Home
<1>6. HeldByCallbacks'
  <2>0. \A j \in Ids : callback'[j] = callback[j]
    BY <1>2
  <2>1. \A j \in Ids : BackedAsBefore(j)
    BY <2>0 DEF BackedAsBefore
  <2>2. \A j \in Ids : callback'[j].pc \in Backing => native'[callback[j].native] = native[callback[j].native]
    BY <1>n, <1>p, <1>q, <2>0 DEF NobodyHolds, NativelyTyped
  <2>3. ASSUME NEW j \in Ids, NEW u \in Threads, callback'[j].pc \in Backing, call'[u].pc \in Holding
        PROVE  HeldAsBefore(u) \/ call'[u].native # callback[j].native
    <3>1. CASE u = t
      BY <1>3, <1>q, <1>u, <2>0, <2>3, <3>1 DEF NobodyHolds
    <3>2. CASE u # t
      BY <1>u, <3>2 DEF HeldAsBefore
    <3> QED BY <3>1, <3>2
  <2>4. \A j, d \in Ids : callback'[j].pc \in Backing =>
           /\ \A e \in quic'[d].streams : e \in quic[d].streams \/ e.native # callback[j].native
           /\ quic'[d].doomed \subseteq quic[d].doomed \cup Listed(d)
    BY <1>2
  <2> QED BY <1>p, <2>1, <2>2, <2>3, <2>4, HeldByCallbacksFrame
<1>7. \A u \in Threads : GetsAs(q, call[u], call'[u])
  BY <1>0, <1>3, <1>u DEF GetsAs
<1>8. Kept(q)'
  <2>1. call'[t].pc \in Holding /\ call'[t].native = q
    BY <1>3, <1>u DEF Holding
  <2> QED BY <2>1 DEF Kept
<1>9. StreamsInUse'
  <2>1. \A j \in Ids : BacksAs(q, callback[j], callback'[j])
    BY <1>2 DEF BacksAs
  <2> QED BY <1>1, <1>2, <1>4, <1>5, <1>6, <1>7, <1>8, <1>p, <2>1, NewStream
<1>10. CallsRunOn
  <2>1. ServedAs(call[t], s) /\ ConnectsAs(call[t], s)
    BY <1>0, <1>3 DEF ServedAs, ConnectsAs, Closers, Releasing
  <2> QED BY <1>2, <2>1, OneCall DEF CallsRunOn
<1>11. LinksKept
  BY <1>2, LinksAsBefore
<1> QED BY <1>2, <1>9, <1>10, <1>11, WithStreams

\* A stream the peer opens.
LEMMA PeerStreamLives ==
  ASSUME IInv, IInv', NamesInv, Life, ~misused, NEW k \in Ids, NEW q \in NativeStreams, PeerStreamStarted(k, q)
  PROVE  ~misused' /\ Life'
<1>p. /\ NativelyTyped /\ StreamsInUse
      /\ StreamsHaveHomes /\ HeldByCalls /\ HeldByCallbacks /\ HeldByLists /\ HeldByDestroys /\ OnStreams /\ InUse
      /\ NothingForgotten
  BY Natively DEF Life, StreamsInUse
<1>1. /\ native[q].state = "unused"
      /\ native' = [native EXCEPT ![q] = [state |-> "open", connection |-> k]]
      /\ connections[k].state = "started" /\ callback[k].pc = "idle"
      /\ UNCHANGED <<known, handles, quic, connections, call, abandoned>> /\ ~misused'
  BY DEF PeerStreamStarted, CallbackBegins, table, history
<1> DEFINE s == [NoCallback EXCEPT !.pc = "accept", !.native = q, !.address = quic[connections[k].client].address]
<1>2. s.pc = "accept" /\ s.native = q
  BY DEF NoCallback
<1>3. callback' = [callback EXCEPT ![k] = s]
  BY DEF PeerStreamStarted, CallbackBegins
<1> HIDE DEF s
<1>4. \A j \in Ids : callback'[j] = IF j = k THEN s ELSE callback[j]
  BY <1>3 DEF IInv, TypeOK
<1>q. /\ NobodyHolds(q) /\ ~Referred(q)
      /\ \A d \in Ids : /\ q \notin quic[d].doomed
                        /\ \A e \in quic[d].streams : e.native # q
  BY <1>1, <1>p, UnusedIsNobodys
<1>n. /\ \A p \in NativeStreams : p # q => native'[p] = native[p]
      /\ native'[q] = [state |-> "open", connection |-> k]
  BY <1>1 DEF IInv, TypeOK
<1>5. HeldByCalls'
  <2>1. \A u \in Threads : HeldAsBefore(u)
    BY <1>1 DEF HeldAsBefore
  <2>2. \A u \in Threads : call'[u].pc \in Holding =>
          (native'[call[u].native].state = "closed" <=> native[call[u].native].state = "closed")
    BY <1>1, <1>n, <1>p, <1>q DEF NobodyHolds, NativelyTyped
  <2>3. \A u \in Threads, d \in Ids : call'[u].pc \in Holding =>
          \A e \in quic'[d].streams : e \in quic[d].streams \/ e.native # call[u].native
    BY <1>1
  <2>4. NativesKeep /\ ClientsKeep
    BY <1>1, <1>n DEF NativesKeep, ClientsKeep
  <2> QED BY <1>p, <2>1, <2>2, <2>3, <2>4, HeldByCallsFrame
<1>6. HeldByCallbacks'
  <2>1. ASSUME NEW j \in Ids, callback'[j].pc \in Backing
        PROVE  /\ native'[callback'[j].native] = [state |-> "open", connection |-> j]
               /\ \A t \in Threads : call'[t].pc \in Holding => call'[t].native # callback'[j].native
               /\ \A c \in Ids : /\ \A e \in quic'[c].streams : e.native # callback'[j].native
                                 /\ callback'[j].native \notin quic'[c].doomed
    <3>1. CASE j = k
      BY <1>1, <1>2, <1>4, <1>n, <1>q, <3>1 DEF NobodyHolds
    <3>2. CASE j # k
      <4>1. callback'[j] = callback[j] /\ callback[j].native # q /\ callback[j].native \in NativeStreams
        BY <1>4, <1>p, <1>q, <2>1, <3>2 DEF NobodyHolds, NativelyTyped
      <4>2. /\ native[callback[j].native] = [state |-> "open", connection |-> j]
            /\ \A t \in Threads : call[t].pc \in Holding => call[t].native # callback[j].native
            /\ \A c \in Ids : callback[j].native \notin Listed(c) \cup quic[c].doomed
        BY <1>p, <2>1, <4>1 DEF HeldByCallbacks
      <4>3. \A c \in Ids : \A e \in quic[c].streams : e.native # callback[j].native
        BY <4>2 DEF Listed
      <4> QED BY <1>1, <1>n, <4>1, <4>2, <4>3
    <3> QED BY <3>1, <3>2
  <2> QED BY <2>1 DEF HeldByCallbacks, Listed
<1>7. Kept(q)'
  <2>1. callback'[k].pc \in Backing /\ callback'[k].native = q
    BY <1>2, <1>4 DEF Backing
  <2> QED BY <2>1 DEF Kept
<1>8. StreamsInUse'
  <2>1. \A j \in Ids : BacksAs(q, callback[j], callback'[j])
    BY <1>1, <1>2, <1>4 DEF BacksAs
  <2>2. \A t \in Threads : GetsAs(q, call[t], call'[t])
    BY <1>1 DEF GetsAs
  <2> QED BY <1>1, <1>5, <1>6, <1>7, <1>p, <2>1, <2>2, NewStream
<1>9. CallsRunOn
  BY <1>1 DEF CallsRunOn, ServedAs, ConnectsAs
<1>10. LinksKept
  BY <1>1, LinksAsBefore
<1> QED BY <1>1, <1>8, <1>9, <1>10, WithStreams

\* A stream goes on the list of its client.
ListsAs(q, c, r, s) ==
  \/ s = r
  \/ r.pc = "list" /\ r.native = q /\ s.pc = "prefix" /\ s.native = q /\ s.client = c /\ s.rest = {}
GoesOnList(c, e) ==
  \A d \in Ids : /\ quic'[d].life = quic[d].life /\ quic'[d].doomed = quic[d].doomed
                 /\ quic'[d].streams = IF d = c THEN quic[d].streams \cup {e} ELSE quic[d].streams

LEMMA Listing ==
  ASSUME IInv, IInv', NamesInv, StreamsInUse,
         UNCHANGED <<native, connections, known, handles>>, abandoned \subseteq abandoned',
         NEW c \in Ids, NEW q \in NativeStreams, Whole(q, c), ~Referred(q),
         \A d \in Ids : q \notin quic[d].doomed /\ \A e \in quic[d].streams : e.native # q,
         NEW e, e.native = q, GoesOnList(c, e),
         quic[c].life \in {"closing", "freed"} => q \in abandoned',
         \A t \in Threads : ListsAs(q, c, call[t], call'[t]),
         \A k \in Ids : callback'[k] = callback[k] \/ (callback[k].native = q /\ callback'[k].pc = "idle"),
         \A k \in Ids : callback'[k].pc \in Backing => callback[k].native # q,
         HeldByCalls'
  PROVE  StreamsInUse'
<1>p. /\ NativelyTyped
      /\ StreamsHaveHomes /\ HeldByCalls /\ HeldByCallbacks /\ HeldByLists /\ HeldByDestroys /\ OnStreams /\ InUse
      /\ NothingForgotten
  BY Natively DEF StreamsInUse
<1>k. NativesKeep /\ ClientsKeep
  BY DEF NativesKeep, ClientsKeep
<1>x. \A d \in Ids : /\ quic'[d].life = quic[d].life /\ quic'[d].doomed = quic[d].doomed
                     /\ \A f \in quic'[d].streams : f \in quic[d].streams \/ (d = c /\ f = e)
                     /\ \A f \in quic[d].streams : f \in quic'[d].streams
  BY DEF GoesOnList
<1>e. e \in quic'[c].streams
  BY DEF GoesOnList
<1>a. ASSUME NEW t \in Threads
      PROVE  /\ SendsAsBefore(t) /\ AbortsAsBefore(t) /\ ClosesAsBefore(t)
             /\ call'[t].pc \in Holding => HeldAsBefore(t) \/ call'[t].native = q
             /\ call[t].pc \in Holding => call'[t] = call[t] \/ call[t].native = q
             /\ call'[t].pc = "prefix" => call'[t] = call[t] \/ (call'[t].native = q /\ call'[t].client = c)
             /\ call'[t].pc \in {"unlist", "send", "sending", "closing"} => call'[t] = call[t]
             /\ call[t].pc = "unlist" => call'[t] = call[t]
  <2>0. ListsAs(q, c, call[t], call'[t])
    OBVIOUS
  <2>1. CASE call'[t] = call[t]
    BY <1>p, <2>1 DEF HeldAsBefore, SendsAsBefore, AbortsAsBefore, ClosesAsBefore, InUse
  <2>2. CASE /\ call[t].pc = "list" /\ call[t].native = q /\ call'[t].pc = "prefix" /\ call'[t].native = q
             /\ call'[t].client = c /\ call'[t].rest = {}
    BY <2>2 DEF SendsAsBefore, AbortsAsBefore, ClosesAsBefore, Holding
  <2> QED BY <2>0, <2>1, <2>2 DEF ListsAs
<1>b. ASSUME NEW k \in Ids
      PROVE  /\ BackedAsBefore(k)
             /\ callback'[k].pc \in Backing => callback'[k] = callback[k]
             /\ callback[k].pc \in Backing => callback'[k] = callback[k] \/ callback[k].native = q
  BY DEF BackedAsBefore, Backing
<1>1. StreamsHaveHomes'
  BY <1>p DEF StreamsHaveHomes
<1>2. HeldByCallbacks'
  <2>1. \A k \in Ids : BackedAsBefore(k)
    BY <1>b
  <2>2. \A k \in Ids : callback'[k].pc \in Backing => native'[callback[k].native] = native[callback[k].native]
    OBVIOUS
  <2>3. \A k \in Ids, t \in Threads : callback'[k].pc \in Backing /\ call'[t].pc \in Holding =>
           HeldAsBefore(t) \/ call'[t].native # callback[k].native
    BY <1>a
  <2>4. \A k, d \in Ids : callback'[k].pc \in Backing =>
           /\ \A f \in quic'[d].streams : f \in quic[d].streams \/ f.native # callback[k].native
           /\ quic'[d].doomed \subseteq quic[d].doomed \cup Listed(d)
    BY <1>x
  <2> QED BY <1>p, <2>1, <2>2, <2>3, <2>4, HeldByCallbacksFrame
<1>3. HeldByLists'
  <2>1. ASSUME NEW d \in Ids, NEW f \in quic'[d].streams
        PROVE  /\ native'[f.native].state # "unused"
               /\ connections'[native'[f.native].connection].client = d
               /\ native'[f.native].state = "closed" =>
                    \E t \in Threads : call'[t].pc = "unlist" /\ call'[t].native = f.native
    <3>1. CASE f \in quic[d].streams
      <4>1. /\ native[f.native].state # "unused" /\ Home(f.native) = d
            /\ native[f.native].state = "closed" =>
                 \E t \in Threads : call[t].pc = "unlist" /\ call[t].native = f.native
        BY <1>p, <3>1 DEF HeldByLists
      <4>2. \A t \in Threads : call[t].pc = "unlist" => call'[t] = call[t]
        BY <1>a
      <4> QED BY <4>1, <4>2 DEF Home
    <3>2. CASE d = c /\ f = e
      BY <3>2 DEF Whole, Home
    <3> QED BY <1>x, <2>1, <3>1, <3>2
  <2>2. \A d \in Ids : \A f, g \in quic'[d].streams : f.native = g.native => f = g
    BY <1>p, <1>x DEF HeldByLists
  <2> QED BY <2>1, <2>2 DEF HeldByLists, Home
<1>4. HeldByDestroys'
  <2>1. ASSUME NEW d \in Ids, NEW p \in quic'[d].doomed
        PROVE  /\ p \in quic[d].doomed
               /\ quic'[d].life = quic[d].life
               /\ native'[p].state = "closed" => native[p].state = "closed"
               /\ \A f \in quic'[d].streams : f \in quic[d].streams \/ f.native # p
    BY <1>x, <2>1
  <2> QED BY <1>k, <1>p, <2>1, HeldByDestroysFrame
<1>5. OnStreams'
  <2>1. \A t \in Threads : call'[t].pc \in {"send", "sending", "closing"} => call'[t] = call[t]
    BY <1>a
  <2> QED BY <1>p, <2>1 DEF OnStreams
<1>6. InUse'
  <2>1. \A t \in Threads : SendsAsBefore(t) /\ AbortsAsBefore(t) /\ ClosesAsBefore(t)
    BY <1>a
  <2>2. ASSUME NEW p \in NativeStreams, Referred(p)
        PROVE  StaysUsable(p)
    <3>1. p # q
      BY <2>2
    <3>2. \A t \in Threads : call'[t].pc \in Holding => HeldAsBefore(t) \/ call'[t].native # p
      BY <1>a, <3>1
    <3> QED BY <1>b, <1>x, <3>1, <3>2 DEF StaysUsable
  <2> QED BY <1>k, <1>p, <2>1, <2>2, InUseFrame
<1>7. NothingForgotten'
  <2>1. ASSUME NEW p \in NativeStreams, Unfinished(p)'
        PROVE  Kept(p)' \/ (Unfinished(p) /\ StaysKept(p))
    <3>1. CASE p = q
      <4>1. \E d \in Ids : \E f \in quic'[d].streams : f.native = p
        BY <1>e, <3>1
      <4> QED BY <4>1 DEF Kept, Listed
    <3>2. CASE p # q
      <4>1. Unfinished(p)
        BY <2>1 DEF Unfinished
      <4>2. StaysKept(p)
        BY <1>a, <1>b, <1>x, <3>2 DEF StaysKept
      <4> QED BY <4>1, <4>2
    <3> QED BY <3>1, <3>2
  <2>2. ASSUME NEW t \in Threads, call'[t].pc = "prefix"
        PROVE  \/ PrefixAsBefore(t)
               \/ \E f \in quic'[call'[t].client].streams : f.native = call'[t].native
    <3>1. CASE call'[t] = call[t]
      <4>1. call[t].client \in Ids
        BY <1>p, <2>2, <3>1 DEF NativelyTyped
      <4> QED BY <1>x, <2>2, <3>1, <4>1 DEF PrefixAsBefore
    <3>2. CASE call'[t].native = q /\ call'[t].client = c
      BY <1>e, <3>2
    <3> QED BY <1>a, <2>2, <3>1, <3>2
  <2>3. \A d \in Ids : EndsAsBefore(d)
    BY <1>x DEF EndsAsBefore
  <2>4. abandoned \subseteq abandoned'
    OBVIOUS
  <2> QED BY <1>p, <2>1, <2>2, <2>3, <2>4, ForgottenFrame
<1> QED BY <1>1, <1>2, <1>3, <1>4, <1>5, <1>6, <1>7 DEF StreamsInUse

\* The two ways onto a list.
LEMMA EntryAdded ==
  ASSUME IInv, NEW c \in Ids, NEW e, quic' = [quic EXCEPT ![c].streams = @ \cup {e}]
  PROVE  GoesOnList(c, e) /\ \A d \in Ids : quic'[d].connection = quic[d].connection
<1>0. quic \in [Ids -> Quics]
  BY DEF IInv, TypeOK
<1>1. \A d \in Ids : /\ quic'[d].connection = quic[d].connection /\ quic'[d].life = quic[d].life
                     /\ quic'[d].streams = (IF d = c THEN quic[d].streams \cup {e} ELSE quic[d].streams)
                     /\ quic'[d].doomed = quic[d].doomed
  BY <1>0 DEF Quics
<1> QED BY <1>1 DEF GoesOnList

LEMMA ListingLives ==
  ASSUME IInv, IInv', NamesInv, Life, ~misused, NEW t \in Threads, ListStream(t, TRUE)
  PROVE  ~misused' /\ Life'
<1>q. PICK q : q = call[t].native
  OBVIOUS
<1>e. PICK e : e = Entry(call[t].id, call[t].native)
  OBVIOUS
<1>c. PICK c : c = call[t].client
  OBVIOUS
<1>0. /\ call[t] \in Calls /\ call[t].pc = "list" /\ c \in Ids /\ call[t].rest = {} /\ ~Freed(c) /\ quic[c].life = "live"
      /\ e.native = q /\ e.id = call[t].id
  <2>1. call[t].pc = "list"
    BY DEF ListStream, Running
  <2>2. quic[c].life = "live"
    BY <1>c, <2>1 DEF Life, CallsAreServed
  <2> QED BY <1>c, <1>e, <1>q, <2>1, <2>2, Shapes, NoRest DEF Freed, Entry
<1>p. /\ NativelyTyped /\ StreamsInUse
      /\ StreamsHaveHomes /\ HeldByCalls /\ HeldByCallbacks /\ HeldByLists /\ HeldByDestroys /\ OnStreams /\ InUse
      /\ NothingForgotten
  BY Natively DEF Life, StreamsInUse
<1> DEFINE s == [call[t] EXCEPT !.pc = "prefix"]
<1>1. /\ UNCHANGED <<known, handles, native, connections, callback, abandoned>> /\ ~misused'
      /\ call' = [call EXCEPT ![t] = s] /\ quic' = [quic EXCEPT ![c].streams = @ \cup {e}]
  BY <1>0, <1>c, <1>e DEF ListStream, Uses, table, history, Go
<1>2. s.pc = "prefix" /\ s.client = c /\ s.rest = {} /\ s.connection = call[t].connection /\ s.native = q /\ s.id = e.id
  BY <1>0, <1>c, <1>q DEF Calls
<1> HIDE DEF s
<1>u. \A u \in Threads : call'[u] = IF u = t THEN s ELSE call[u]
  BY <1>1, CallAt
<1>3. q \in NativeStreams /\ Whole(q, c)
  BY <1>0, <1>c, <1>p, <1>q DEF NativelyTyped, HeldByCalls, Holding, Whole
<1>4. \A u \in Threads : u # t /\ call[u].pc \in Holding => call[u].native # q
  BY <1>0, <1>p, <1>q DEF HeldByCalls, Holding
<1>5. ASSUME NEW k \in Ids, callback[k].pc \in Backing
      PROVE  callback[k].native # q
  <2>1. \A u \in Threads : call[u].pc \in Holding => call[u].native # callback[k].native
    BY <1>5, <1>p DEF HeldByCallbacks
  <2> QED BY <1>0, <1>q, <2>1 DEF Holding
<1>6. \A d \in Ids : \A f \in quic[d].streams : f.native # q
  BY <1>0, <1>p, <1>q DEF HeldByCalls, Holding, EntriesAt
<1>7. \A d \in Ids : q \notin quic[d].doomed
  BY <1>0, <1>3, <1>p DEF HeldByDestroys, Whole
<1>8. ~Referred(q)
  <2>1. call[t].pc \in Holding
    BY <1>0 DEF Holding
  <2> QED BY <1>3, <1>p, <1>q, <2>1 DEF InUse
<1>9. GoesOnList(c, e) /\ \A d \in Ids : quic'[d].connection = quic[d].connection
  BY <1>0, <1>1, EntryAdded
<1>10. HeldByCalls'
  <2>1. ASSUME NEW u \in Threads, call'[u].pc \in Holding
        PROVE  /\ native'[call'[u].native].state # "unused"
               /\ connections'[native'[call'[u].native].connection].client = call'[u].client
               /\ native'[call'[u].native].state = "closed" <=> call'[u].pc = "unlist"
               /\ u # t => call'[u] = call[u] /\ call[u].native # q
    <3>1. CASE u = t
      BY <1>1, <1>2, <1>3, <1>u, <3>1 DEF Whole, Home
    <3>2. CASE u # t
      <4>1. call'[u] = call[u] /\ call[u].native # q
        BY <1>4, <1>u, <2>1, <3>2
      <4> QED BY <1>1, <1>p, <2>1, <4>1 DEF HeldByCalls, Home
    <3> QED BY <3>1, <3>2
  <2>2. ASSUME NEW u \in Threads, NEW v \in Threads, u # v, call'[u].pc \in Holding, call'[v].pc \in Holding
        PROVE  call'[u].native # call'[v].native
    BY <1>2, <1>p, <1>u, <2>1, <2>2 DEF HeldByCalls
  <2>3. ASSUME NEW u \in Threads, NEW d \in Ids, call'[u].pc \in Holding, NEW f \in quic'[d].streams,
               f.native = call'[u].native
        PROVE  call'[u].pc \in {"prefix", "unlist"} /\ f.id = call'[u].id
    <3>0. f \in quic[d].streams \/ f = e
      BY <1>9 DEF GoesOnList
    <3>1. CASE u = t
      BY <1>0, <1>2, <1>6, <1>u, <2>3, <3>0, <3>1
    <3>2. CASE u # t
      <4>1. f \in quic[d].streams /\ call'[u] = call[u]
        BY <1>0, <2>1, <2>3, <3>0, <3>2
      <4> QED BY <1>p, <2>3, <4>1 DEF HeldByCalls, EntriesAt
    <3> QED BY <3>1, <3>2
  <2> QED BY <2>1, <2>2, <2>3 DEF HeldByCalls, EntriesAt, Home
<1>11. \A u \in Threads : ListsAs(q, c, call[u], call'[u])
  BY <1>0, <1>2, <1>q, <1>u DEF ListsAs
<1>12. StreamsInUse'
  <2>1. \A k \in Ids : callback'[k] = callback[k]
    BY <1>1
  <2>2. abandoned \subseteq abandoned'
    BY <1>1
  <2> QED BY <1>0, <1>1, <1>3, <1>5, <1>6, <1>7, <1>8, <1>9, <1>10, <1>11, <1>p, <2>1, <2>2, Listing
<1>13. CallsRunOn
  <2>1. ServedAs(call[t], s) /\ ConnectsAs(call[t], s)
    BY <1>0, <1>2, <1>c DEF ServedAs, ConnectsAs, Closers, Releasing
  <2> QED BY <1>1, <2>1, OneCall DEF CallsRunOn
<1>14. LinksKept
  BY <1>1, <1>9 DEF LinksKept, GoesOnList
<1> QED BY <1>1, <1>12, <1>13, <1>14, WithStreams

\* A callback's own steps.
LEMMA CallbackFrame ==
  ASSUME IInv, IInv', NamesInv, StreamsInUse,
         UNCHANGED <<native, connections, quic, call>>, known \subseteq known', abandoned \subseteq abandoned',
         \A i \in known : HandleAsBefore(i),
         \A k \in Ids : BackedAsBefore(k),
         \A k \in Ids : callback[k].pc \in Backing =>
           \/ callback'[k].pc \in Backing /\ callback'[k].native = callback[k].native
           \/ callback[k].native \in abandoned'
  PROVE  StreamsInUse'
<1>p. /\ NativelyTyped
      /\ StreamsHaveHomes /\ HeldByCalls /\ HeldByCallbacks /\ HeldByLists /\ HeldByDestroys /\ OnStreams /\ InUse
      /\ NothingForgotten
  BY Natively DEF StreamsInUse
<1>k. NativesKeep /\ ClientsKeep
  BY DEF NativesKeep, ClientsKeep
<1>a. \A t \in Threads : HeldAsBefore(t) /\ SendsAsBefore(t) /\ AbortsAsBefore(t) /\ ClosesAsBefore(t)
  BY <1>p DEF HeldAsBefore, SendsAsBefore, AbortsAsBefore, ClosesAsBefore, InUse
<1>b. \A k \in Ids : BackedAsBefore(k)
  OBVIOUS
<1>1. StreamsHaveHomes' /\ HeldByCalls' /\ HeldByLists' /\ HeldByDestroys'
  BY <1>p DEF StreamsHaveHomes, HeldByCalls, HeldByLists, HeldByDestroys, Home, Whole, EntriesAt, Listed
<1>2. HeldByCallbacks'
  BY <1>a, <1>b, <1>p, HeldByCallbacksFrame
<1>3. OnStreams'
  <2>1. \A t \in Threads : HandleServes(t)
    BY <1>p, ServesAsBefore
  <2>2. ASSUME NEW t \in Threads
        PROVE  /\ call'[t] = call[t]
               /\ call[t].pc \in {"send", "sending"} => handles'[call[t].id] = handles[call[t].id]
               /\ call[t].pc = "closing" => (handles[call[t].id].kind = "none" => handles'[call[t].id].kind = "none")
    BY <2>1 DEF HandleServes
  <2>3. \A t \in Threads : call'[t].pc \in {"send", "sending"} =>
          /\ call[t].pc \in {"send", "sending"} /\ call'[t].id = call[t].id /\ call'[t].client = call[t].client
          /\ handles'[call[t].id] = handles[call[t].id]
    BY <2>2
  <2>4. \A t \in Threads : call'[t].pc = "closing" =>
          call[t].pc = "closing" /\ call'[t].id = call[t].id
              /\ (handles[call[t].id].kind = "none" => handles'[call[t].id].kind = "none")
    BY <2>2
  <2> QED BY <1>p, <2>3, <2>4, OnStreamsFrame
<1>4. InUse'
  <2>1. \A q \in NativeStreams : StaysUsable(q)
    BY <1>a, <1>b DEF StaysUsable
  <2> QED BY <1>a, <1>k, <1>p, <2>1, InUseFrame
<1>5. NothingForgotten'
  <2>1. ASSUME NEW p \in NativeStreams, Unfinished(p)'
        PROVE  Kept(p)' \/ (Unfinished(p) /\ StaysKept(p))
    <3>1. CASE p \in abandoned'
      BY <3>1 DEF Kept
    <3>2. CASE p \notin abandoned'
      <4>1. Unfinished(p)
        BY <2>1 DEF Unfinished
      <4>2. StaysKept(p)
        BY <3>2 DEF StaysKept
      <4> QED BY <4>1, <4>2
    <3> QED BY <3>1, <3>2
  <2>2. \A t \in Threads : call'[t].pc = "prefix" => PrefixAsBefore(t)
    BY DEF PrefixAsBefore
  <2>3. \A d \in Ids : EndsAsBefore(d)
    BY DEF EndsAsBefore
  <2>4. abandoned \subseteq abandoned'
    OBVIOUS
  <2> QED BY <1>p, <2>1, <2>2, <2>3, <2>4, ForgottenFrame
<1> QED BY <1>1, <1>2, <1>3, <1>4, <1>5 DEF StreamsInUse

\* A callback's step on the tables.
LEMMA CallbackAlone ==
  ASSUME IInv, IInv', NamesInv, Life, NEW k \in Ids, NEW s, callback' = [callback EXCEPT ![k] = s],
         UNCHANGED <<native, connections, quic, call>>, known \subseteq known', abandoned \subseteq abandoned',
         \A i \in Ids : handles'[i] = handles[i] \/ (i \notin known /\ handles[i] = NoHandle),
         s.pc \in Backing => callback[k].pc \in Backing /\ s.native = callback[k].native,
         callback[k].pc \in Backing =>
           \/ s.pc \in Backing /\ s.native = callback[k].native
           \/ callback[k].native \in abandoned'
  PROVE  Life'
<1>1. \A j \in Ids : callback'[j] = IF j = k THEN s ELSE callback[j]
  BY DEF IInv, TypeOK
<1>2. \A j \in Ids : BackedAsBefore(j)
  BY <1>1 DEF BackedAsBefore
<1>3. \A j \in Ids : callback[j].pc \in Backing =>
        \/ callback'[j].pc \in Backing /\ callback'[j].native = callback[j].native
        \/ callback[j].native \in abandoned'
        \/ j # k
  BY <1>1
<1>4. \A i \in known : HandleAsBefore(i)
  BY Shapes DEF HandleAsBefore
<1>5. StreamsInUse'
  <2>1. \A j \in Ids : callback[j].pc \in Backing =>
          \/ callback'[j].pc \in Backing /\ callback'[j].native = callback[j].native
          \/ callback[j].native \in abandoned'
    BY <1>1
  <2>2. StreamsInUse
    BY DEF Life
  <2> QED BY <1>2, <1>4, <2>1, <2>2, CallbackFrame
<1>6. CallsRunOn
  BY DEF CallsRunOn, ServedAs, ConnectsAs
<1>7. LinksKept
  BY DEF LinksKept, NoHandle
<1> QED BY <1>5, <1>6, <1>7, WithStreams

\* The callback attaches the stream to a session, or refuses it; a stream is looked up and
\* its sink returns; and what is not listed for want of memory is nobody's.
LEMMA AttachingLives ==
  ASSUME IInv, IInv', NamesInv, Life, ~misused, NEW k \in Ids,
         \/ wt_accept_peer_stream(k) \/ SinkReturns(k) \/ ListPeerStream(k, FALSE)
         \/ LookUp(k) /\ UNCHANGED <<quic, native>>
         \/ \E q \in NativeStreams, complete \in BOOLEAN : StreamEvent(k, q, complete)
  PROVE  ~misused' /\ Life'
<1>0. callback[k] \in CallbackStates
  BY Shapes
<1>e. NoCallback.pc = "idle" /\ NoCallback.pc \notin Backing
  BY DEF NoCallback, Backing
<1>1. CASE wt_accept_peer_stream(k)
  <2>1. /\ callback[k].pc = "accept" /\ UNCHANGED <<native, connections, quic, call>> /\ ~misused'
    BY <1>1 DEF wt_accept_peer_stream
  <2>2. \A h : Allocate(h) => \A i \in Ids : handles'[i] = handles[i] \/ (i \notin known /\ handles[i] = NoHandle)
    <3> SUFFICES ASSUME NEW h, Allocate(h), NEW i \in Ids, i = next
                 PROVE  i \notin known /\ handles[i] = NoHandle
      BY DEF Allocate, IInv, TypeOK
    <3> QED BY Shapes DEF NamesInv, FreshIsFree, IInv, NothingAhead
  <2>3. CASE CallbackEnds(k) /\ abandoned' = abandoned \cup {callback[k].native}
    <3>1. callback' = [callback EXCEPT ![k] = NoCallback]
      BY <2>3 DEF CallbackEnds
    <3>2. /\ known \subseteq known'
          /\ \A i \in Ids : handles'[i] = handles[i] \/ (i \notin known /\ handles[i] = NoHandle)
      BY <1>1, <2>2 DEF wt_accept_peer_stream, table
    <3> QED BY <1>e, <2>1, <2>3, <3>1, <3>2, CallbackAlone
  <2>4. CASE callback' = [callback EXCEPT ![k].pc = "list", ![k].id = next] /\ abandoned' = abandoned
    <3> DEFINE s == [callback[k] EXCEPT !.pc = "list", !.id = next]
    <3>1. callback' = [callback EXCEPT ![k] = s]
      BY <2>4 DEF IInv, TypeOK
    <3>2. s.pc = "list" /\ s.native = callback[k].native
      BY <1>0 DEF CallbackStates
    <3> HIDE DEF s
    <3>3. /\ known \subseteq known'
          /\ \A i \in Ids : handles'[i] = handles[i] \/ (i \notin known /\ handles[i] = NoHandle)
      BY <1>1, <2>2 DEF wt_accept_peer_stream, table
    <3>4. s.pc \in Backing /\ callback[k].pc \in Backing
      BY <2>1, <3>2 DEF Backing
    <3> QED BY <2>1, <2>4, <3>1, <3>2, <3>3, <3>4, CallbackAlone
  <2>5. \/ CallbackEnds(k) /\ abandoned' = abandoned \cup {callback[k].native}
        \/ callback' = [callback EXCEPT ![k].pc = "list", ![k].id = next] /\ abandoned' = abandoned
    BY <1>1 DEF wt_accept_peer_stream
  <2> QED BY <2>1, <2>3, <2>4, <2>5
<1>2. CASE SinkReturns(k)
  <2>1. /\ callback[k].pc = "sink" /\ callback' = [callback EXCEPT ![k] = NoCallback] /\ ~misused'
        /\ UNCHANGED <<native, connections, quic, call, known, handles, abandoned>>
    BY <1>2 DEF SinkReturns, CallbackEnds, table, history
  <2>2. callback[k].pc \notin Backing
    BY <2>1 DEF Backing
  <2> QED BY <1>e, <2>1, <2>2, CallbackAlone
<1>3. CASE ListPeerStream(k, FALSE)
  <2>1. /\ callback[k].pc = "list" /\ callback' = [callback EXCEPT ![k] = NoCallback]
        /\ UNCHANGED <<native, connections, quic, call, known, handles>>
        /\ abandoned' = abandoned \cup {callback[k].native} /\ Uses(Freed(connections[k].client))
    BY <1>3 DEF ListPeerStream, CallbackEnds, table
  <2>2. ~Freed(connections[k].client)
    <3>1. connections[k].state = "started" /\ connections[k].client \in Ids
      BY <2>1 DEF NamesInv, ConnectionsOfClients
    <3> QED BY <3>1 DEF Life, ConnectionsInUse, FreedIsDisconnected
  <2>3. ~misused'
    BY <2>1, <2>2 DEF Uses
  <2> QED BY <1>e, <2>1, <2>3, CallbackAlone
<1>4. CASE \E q \in NativeStreams, complete \in BOOLEAN : StreamEvent(k, q, complete)
  <2>1. PICK q \in NativeStreams, complete \in BOOLEAN : StreamEvent(k, q, complete)
    BY <1>4
  <2> DEFINE s == [NoCallback EXCEPT !.pc = IF complete THEN "complete" ELSE "data", !.native = q]
  <2>2. /\ ~misused' /\ UNCHANGED <<native, connections, quic, call, known, handles, abandoned>>
        /\ callback[k].pc = "idle" /\ callback' = [callback EXCEPT ![k] = s]
    BY <2>1 DEF StreamEvent, CallbackBegins, table, history
  <2>3. s.pc \in {"data", "complete"}
    BY DEF NoCallback
  <2> HIDE DEF s
  <2>4. callback[k].pc \notin Backing /\ s.pc \notin Backing
    BY <2>2, <2>3 DEF Backing
  <2> QED BY <2>2, <2>4, CallbackAlone
<1>5. CASE LookUp(k) /\ UNCHANGED <<quic, native>>
  <2>1. /\ UNCHANGED <<native, connections, quic, call, known, handles, abandoned>>
        /\ callback[k].pc \in {"data", "complete"} /\ Uses(Freed(connections[k].client))
    BY <1>5 DEF LookUp, table, history
  <2>2. ~Freed(connections[k].client)
    <3>1. connections[k].state = "started" /\ connections[k].client \in Ids
      BY <2>1 DEF NamesInv, ConnectionsOfClients
    <3> QED BY <3>1 DEF Life, ConnectionsInUse, FreedIsDisconnected
  <2>3. ~misused'
    BY <2>1, <2>2 DEF Uses
  <2>4. PICK s : callback' = [callback EXCEPT ![k] = s] /\ s.pc \notin Backing
    <3>1. CASE callback' = [callback EXCEPT ![k].pc = "sink"]
      <4>1. callback' = [callback EXCEPT ![k] = [callback[k] EXCEPT !.pc = "sink"]]
        BY <3>1 DEF IInv, TypeOK
      <4>2. [callback[k] EXCEPT !.pc = "sink"].pc \notin Backing
        BY <1>0 DEF CallbackStates, Backing
      <4> QED BY <4>1, <4>2
    <3>2. CASE CallbackEnds(k)
      BY <1>e, <3>2 DEF CallbackEnds
    <3> QED BY <1>5, <3>1, <3>2 DEF LookUp
  <2>5. callback[k].pc \notin Backing
    BY <2>1 DEF Backing
  <2> QED BY <2>1, <2>3, <2>4, <2>5, CallbackAlone
<1> QED BY <1>1, <1>2, <1>3, <1>4, <1>5

\* A peer stream goes on the list of the client it was opened to.
LEMMA PeerListingLives ==
  ASSUME IInv, IInv', NamesInv, Life, ~misused, NEW k \in Ids, ListPeerStream(k, TRUE)
  PROVE  ~misused' /\ Life'
<1>q. PICK q : q = callback[k].native
  OBVIOUS
<1>e. PICK e : e = Entry(callback[k].id, callback[k].native)
  OBVIOUS
<1>c. PICK c : c = connections[k].client
  OBVIOUS
<1>p. /\ NativelyTyped /\ StreamsInUse
      /\ StreamsHaveHomes /\ HeldByCalls /\ HeldByCallbacks /\ HeldByLists /\ HeldByDestroys /\ OnStreams /\ InUse
      /\ NothingForgotten
  BY Natively DEF Life, StreamsInUse
<1>0. /\ callback[k].pc = "list" /\ connections[k].state = "started" /\ c \in Ids /\ ~Freed(c)
      /\ e.native = q /\ callback[k].pc \in Backing
  <2>1. callback[k].pc = "list"
    BY DEF ListPeerStream
  <2>2. connections[k].state = "started" /\ c \in Ids
    BY <1>c, <2>1 DEF NamesInv, ConnectionsOfClients
  <2>3. ~Freed(c)
    BY <1>c, <2>2 DEF Life, ConnectionsInUse, FreedIsDisconnected
  <2> QED BY <1>e, <1>q, <2>1, <2>2, <2>3 DEF Entry, Backing
<1>1. /\ UNCHANGED <<known, handles, native, connections, call>> /\ ~misused'
      /\ callback' = [callback EXCEPT ![k] = NoCallback] /\ quic' = [quic EXCEPT ![c].streams = @ \cup {e}]
      /\ abandoned \subseteq abandoned' /\ (quic[c].life = "closing" => q \in abandoned')
  BY <1>0, <1>c, <1>e, <1>q DEF ListPeerStream, Uses, table, CallbackEnds
<1>b. \A j \in Ids : callback'[j] = IF j = k THEN NoCallback ELSE callback[j]
  BY <1>1 DEF IInv, TypeOK
<1>2. /\ native[q].state = "open" /\ native[q].connection = k /\ q \in NativeStreams
      /\ \A t \in Threads : call[t].pc \in Holding => call[t].native # q
      /\ \A d \in Ids : q \notin Listed(d) \cup quic[d].doomed
  <2>1. /\ native[callback[k].native] = [state |-> "open", connection |-> k]
        /\ \A t \in Threads : call[t].pc \in Holding => call[t].native # callback[k].native
        /\ \A d \in Ids : callback[k].native \notin Listed(d) \cup quic[d].doomed
    BY <1>0, <1>p DEF HeldByCallbacks
  <2>2. callback[k].native \in NativeStreams
    BY <1>0, <1>p DEF NativelyTyped
  <2> QED BY <1>q, <2>1, <2>2
<1>3. Whole(q, c)
  BY <1>2, <1>c DEF Whole, Home
<1>4. \A d \in Ids : q \notin quic[d].doomed /\ \A f \in quic[d].streams : f.native # q
  BY <1>2 DEF Listed
<1>5. ~Referred(q)
  BY <1>0, <1>2, <1>p, <1>q DEF InUse
<1>6. GoesOnList(c, e) /\ \A d \in Ids : quic'[d].connection = quic[d].connection
  BY <1>0, <1>1, EntryAdded
<1>7. HeldByCalls'
  <2>1. \A u \in Threads : HeldAsBefore(u)
    BY <1>1 DEF HeldAsBefore
  <2>2. \A u \in Threads : call'[u].pc \in Holding =>
          (native'[call[u].native].state = "closed" <=> native[call[u].native].state = "closed")
    BY <1>1
  <2>3. \A u \in Threads, d \in Ids : call'[u].pc \in Holding =>
          \A f \in quic'[d].streams : f \in quic[d].streams \/ f.native # call[u].native
    BY <1>0, <1>1, <1>2, <1>6 DEF GoesOnList
  <2>4. NativesKeep /\ ClientsKeep
    BY <1>1 DEF NativesKeep, ClientsKeep
  <2> QED BY <1>p, <2>1, <2>2, <2>3, <2>4, HeldByCallsFrame
<1>8. StreamsInUse'
  <2>1. \A t \in Threads : ListsAs(q, c, call[t], call'[t])
    BY <1>1 DEF ListsAs
  <2>2. \A j \in Ids : callback'[j] = callback[j] \/ (callback[j].native = q /\ callback'[j].pc = "idle")
    BY <1>b, <1>q DEF NoCallback
  <2>3. ASSUME NEW j \in Ids, callback'[j].pc \in Backing
        PROVE  callback[j].native # q
    <3>1. j # k /\ callback[j].pc \in Backing
      BY <1>b, <2>3 DEF NoCallback, Backing
    <3>2. native[callback[j].native] = [state |-> "open", connection |-> j]
      BY <1>p, <3>1 DEF HeldByCallbacks
    <3> QED BY <1>2, <3>1, <3>2
  <2>4. quic[c].life \in {"closing", "freed"} => q \in abandoned'
    BY <1>0, <1>1 DEF Freed
  <2> QED BY <1>0, <1>1, <1>2, <1>3, <1>4, <1>5, <1>6, <1>7, <1>p, <2>1, <2>2, <2>3, <2>4, Listing
<1>9. CallsRunOn
  BY <1>1 DEF CallsRunOn, ServedAs, ConnectsAs
<1>10. LinksKept
  BY <1>1, <1>6 DEF LinksKept, GoesOnList
<1> QED BY <1>1, <1>8, <1>9, <1>10, WithStreams

\* The stream whose end a callback reports is open until the callback has taken it off.
CompletesOpen ==
  \A k \in Ids : callback[k].pc = "complete" =>
    native[callback[k].native] = [state |-> "open", connection |-> k]

\* A stream completes by itself.
LEMMA CompletingLives ==
  ASSUME IInv, IInv', NamesInv, Life, ~misused, CompletesOpen, NEW k \in Ids, LookUp(k),
         ~UNCHANGED <<quic, native>>
  PROVE  ~misused' /\ Life'
<1>c. PICK c : c = connections[k].client
  OBVIOUS
<1>q. PICK q : q = callback[k].native
  OBVIOUS
<1>p. /\ NativelyTyped /\ StreamsInUse
      /\ StreamsHaveHomes /\ HeldByCalls /\ HeldByCallbacks /\ HeldByLists /\ HeldByDestroys /\ OnStreams /\ InUse
      /\ NothingForgotten
  BY Natively DEF Life, StreamsInUse
<1>1. /\ UNCHANGED <<known, handles, connections, call, abandoned>>
      /\ callback[k].pc = "complete" /\ EntriesAt(c, q) # {}
      /\ quic' = [quic EXCEPT ![c].streams = @ \ EntriesAt(c, q)]
      /\ native' = [native EXCEPT ![q].state = "over"]
      /\ Uses(Freed(c))
  BY <1>c, <1>q DEF LookUp, table, history
<1>2. native[q] = [state |-> "open", connection |-> k] /\ q \in NativeStreams
  BY <1>1, <1>q DEF CompletesOpen, IInv, WhatCallsHold
<1>3. connections[k].state = "started" /\ ~Freed(c)
  <2>1. connections[k].state = "started" /\ c \in Ids
    BY <1>1, <1>c DEF NamesInv, ConnectionsOfClients
  <2> QED BY <1>c, <2>1 DEF Life, ConnectionsInUse, FreedIsDisconnected
<1>4. ~misused'
  BY <1>1, <1>3 DEF Uses
<1>b. \A j \in Ids : callback'[j] = callback[j] \/ (callback'[j].pc \notin Backing /\ callback[j].pc \notin Backing)
  <2>0. callback \in [Ids -> CallbackStates] /\ callback[k] \in CallbackStates /\ callback[k].pc \notin Backing
    BY <1>1, Shapes DEF Backing, IInv, TypeOK
  <2>1. CASE callback' = [callback EXCEPT ![k].pc = "sink"]
    BY <2>0, <2>1 DEF CallbackStates, Backing
  <2>2. CASE callback' = [callback EXCEPT ![k] = NoCallback]
    BY <2>0, <2>2 DEF NoCallback, Backing
  <2> QED BY <2>1, <2>2 DEF LookUp, CallbackEnds
<1>5. c \in Ids
  BY <1>3, <1>c DEF NamesInv, ConnectionsOfClients
<1>n. /\ \A p \in NativeStreams : p # q => native'[p] = native[p]
      /\ native'[q].state = "over" /\ native'[q].connection = k
      /\ native[q].state = "open" /\ native[q].connection = k
  <2>1. native \in [NativeStreams -> Natives]
    BY DEF IInv, TypeOK
  <2> QED BY <1>1, <1>2, <2>1 DEF Natives
<1>6. MayBeOver(q)
  BY <1>n DEF MayBeOver
<1>7. /\ TakenOff(c, q)
      /\ \A d \in Ids : /\ quic'[d].life = quic[d].life /\ quic'[d].connection = quic[d].connection
                        /\ quic'[d].streams \subseteq quic[d].streams
  BY <1>1, <1>5, EntriesTaken
<1>8. HeldByCalls'
  <2>1. \A u \in Threads : HeldAsBefore(u)
    BY <1>1 DEF HeldAsBefore
  <2>2. \A u \in Threads : call'[u].pc \in Holding =>
          (native'[call[u].native].state = "closed" <=> native[call[u].native].state = "closed")
    BY <1>1, <1>n, <1>p DEF NativelyTyped
  <2>3. \A u \in Threads, d \in Ids : call'[u].pc \in Holding =>
          \A f \in quic'[d].streams : f \in quic[d].streams \/ f.native # call[u].native
    BY <1>7
  <2>4. NativesKeep /\ ClientsKeep
    BY <1>1, <1>n DEF NativesKeep, ClientsKeep
  <2> QED BY <1>p, <2>1, <2>2, <2>3, <2>4, HeldByCallsFrame
<1>9. ASSUME NEW j \in Ids, callback[j].pc \in Backing
      PROVE  callback[j].native # q
  <2>1. callback[j].native \notin Listed(c)
    BY <1>5, <1>9, <1>p DEF HeldByCallbacks
  <2> QED BY <1>1, <2>1 DEF Listed, EntriesAt
<1>10. StreamsInUse'
  <2>1. \A t \in Threads : TakesAs(q, call[t], call'[t]) /\ call'[t] = call[t]
    BY <1>1 DEF TakesAs
  <2>2. native[q].state # "unused" /\ Home(q) = c
    BY <1>c, <1>n DEF Home
  <2>3. ~Unfinished(q)'
    BY <1>n DEF Unfinished
  <2> QED BY <1>1, <1>2, <1>5, <1>6, <1>7, <1>8, <1>9, <1>b, <1>p, <2>1, <2>2, <2>3, TakeOff
<1>11. CallsRunOn
  BY <1>1 DEF CallsRunOn, ServedAs, ConnectsAs
<1>12. LinksKept
  BY <1>1, <1>7 DEF LinksKept
<1> QED BY <1>1, <1>4, <1>10, <1>11, <1>12, WithStreams

-----------------------------------------------------------------------------
(* The stream of a callback that reports its end *)

\* Nobody closes it: StreamClose and ConnectionClose wait for the callback.
CompletingAsBefore(k) ==
  callback'[k].pc = "complete" =>
    callback'[k] = callback[k] /\ native'[callback[k].native] = native[callback[k].native]

LEMMA CompletingFrame ==
  ASSUME CompletesOpen, \A k \in Ids : CompletingAsBefore(k)
  PROVE  CompletesOpen'
  BY DEF CompletesOpen, CompletingAsBefore

LEMMA CompletingOpen ==
  ASSUME IInv, CompletesOpen, NEW k \in Ids, callback[k].pc = "complete"
  PROVE  /\ callback[k].native \in NativeStreams
         /\ native[callback[k].native].state = "open" /\ native[callback[k].native].connection = k
<1>1. callback[k].native \in NativeStreams
  BY DEF IInv, WhatCallsHold
<1>2. native[callback[k].native] = [state |-> "open", connection |-> k]
  BY DEF CompletesOpen
<1> QED BY <1>1, <1>2

LEMMA CloseWaits ==
  ASSUME IInv, callback' = callback, NEW q, Close({q}), Quiet(q)
  PROVE  \A k \in Ids : CompletingAsBefore(k)
<1> SUFFICES ASSUME NEW k \in Ids, callback[k].pc = "complete"
             PROVE  native'[callback[k].native] = native[callback[k].native]
  BY DEF CompletingAsBefore
<1>1. callback[k].native \in NativeStreams /\ callback[k].native # q
  BY DEF IInv, WhatCallsHold, Quiet
<1> QED BY <1>1 DEF Close

LEMMA DisconnectWaits ==
  ASSUME IInv, CompletesOpen, callback' = callback, NEW j, CloseConnection(j)
  PROVE  \A k \in Ids : CompletingAsBefore(k)
<1> SUFFICES ASSUME NEW k \in Ids, callback[k].pc = "complete"
             PROVE  native'[callback[k].native] = native[callback[k].native]
  BY DEF CompletingAsBefore
<1>1. callback[k].native \in NativeStreams /\ native[callback[k].native] = [state |-> "open", connection |-> k] /\ j # k
  BY DEF IInv, WhatCallsHold, CompletesOpen, CloseConnection
<1>2. native[callback[k].native] # [state |-> "open", connection |-> j]
  BY <1>1
<1> QED BY <1>1, <1>2 DEF CloseConnection

LEMMA OpeningSpares ==
  ASSUME IInv, CompletesOpen, NEW q \in NativeStreams, native[q].state = "unused", NEW r,
         native' = [native EXCEPT ![q] = r],
         \A k \in Ids : callback'[k] = callback[k] \/ callback'[k].pc # "complete"
  PROVE  \A k \in Ids : CompletingAsBefore(k)
<1> SUFFICES ASSUME NEW k \in Ids, callback[k].pc = "complete"
             PROVE  native'[callback[k].native] = native[callback[k].native]
  BY DEF CompletingAsBefore
<1>1. callback[k].native \in NativeStreams /\ native[callback[k].native].state = "open"
  BY CompletingOpen
<1>2. callback[k].native # q
  BY <1>1
<1> QED BY <1>1, <1>2 DEF IInv, TypeOK

LEMMA CompletesStep ==
  ASSUME IInv, NamesInv, CompletesOpen, [Next]_vars
  PROVE  CompletesOpen'
<1>0. callback \in [Ids -> CallbackStates] /\ NoCallback.pc = "idle"
  BY DEF IInv, TypeOK, NoCallback
<1>u. UNCHANGED <<native, callback>> => \A k \in Ids : CompletingAsBefore(k)
  BY DEF CompletingAsBefore
<1>1. ASSUME NEW t \in Threads, ClientCalls(t) PROVE CompletesOpen'
  <2>1. CASE wt_client_create(t) \/ ConnectRefused(t) \/ ConnectTakes(t) \/ ConnectOpens(t) \/ ConnectStarts(t)
             \/ ConnectForgets(t)
    BY <1>u, <2>1, CompletingFrame DEF wt_client_create, ConnectRefused, ConnectTakes, ConnectOpens, ConnectStarts,
                      ConnectForgets
  <2>2. CASE Shutdown(t) \/ ShutdownReturns(t) \/ FreeContext(t) \/ \E q \in NativeStreams : Abort(t, q)
    BY <1>u, <2>2, CompletingFrame DEF Shutdown, ShutdownReturns, FreeContext, Abort
  <2>3. CASE \E c \in Ids : wt_client_connect(t, c) \/ wt_client_shutdown(t, c) \/ ReleaseClient(t, c)
    BY <1>u, <2>3, CompletingFrame DEF wt_client_connect, wt_client_shutdown, ReleaseClient
  <2>4. CASE ConnectReplaces(t) \/ ConnectFails(t)
    BY <2>4, DisconnectWaits, CompletingFrame DEF ConnectReplaces, ConnectFails
  <2>5. CASE Undo(t)
    <3>1. EntriesOf(call[t].client, call[t].id) = {}
      BY <2>5, UndoneIsUnlisted DEF Undo, Running
    <3>2. {e.native : e \in {e \in EntriesOf(call[t].client, call[t].id) : Found(e.id, "stream")}} = {}
      BY <3>1
    <3>3. Close({}) /\ callback' = callback
      BY <2>5, <3>2 DEF Undo
    <3>4. native' = native
      BY <3>3 DEF Close, IInv, TypeOK
    <3> QED BY <1>u, <3>3, <3>4, CompletingFrame
  <2> QED BY <1>1, <2>1, <2>2, <2>3, <2>4, <2>5 DEF ClientCalls
<1>2. ASSUME NEW t \in Threads, SessionCalls(t) PROVE CompletesOpen'
  <2>1. CASE \E s \in Ids : \/ wt_session_open_bidi_stream(t, s) \/ wt_session_send_datagram(t, s)
                            \/ wt_session_close(t, s) \/ ReleaseSession(t, s)
    BY <1>u, <2>1, CompletingFrame DEF wt_session_open_bidi_stream, wt_session_send_datagram, wt_session_close,
                      ReleaseSession
  <2>2. CASE FindConnection(t) \/ Unlist(t) \/ CopyConnection(t) \/ SendDatagram(t)
    BY <1>u, <2>2, CompletingFrame DEF FindConnection, Unlist, CopyConnection, SendDatagram
  <2>3. CASE StreamOpen(t)
    <3>1. callback' = callback
      BY <2>3 DEF StreamOpen
    <3>2. CASE UNCHANGED native
      BY <1>u, <3>1, <3>2, CompletingFrame
    <3>3. ASSUME NEW q \in NativeStreams, native[q].state = "unused",
                 native' = [native EXCEPT ![q] = [state |-> "open", connection |-> call[t].connection]]
          PROVE  CompletesOpen'
      BY <3>1, <3>3, OpeningSpares, CompletingFrame
    <3> QED BY <2>3, <3>2, <3>3 DEF StreamOpen
  <2>4. ASSUME NEW ok \in BOOLEAN, ListStream(t, ok) \/ SendPrefix(t, ok) PROVE CompletesOpen'
    <3>1. callback' = callback /\ (native' = native \/ (Close({call[t].native}) /\ Quiet(call[t].native)))
      BY <2>4 DEF ListStream, SendPrefix, history
    <3> QED BY <1>u, <3>1, CloseWaits, CompletingFrame
  <2> QED BY <1>2, <2>1, <2>2, <2>3, <2>4 DEF SessionCalls
<1>3. ASSUME NEW t \in Threads, StreamCalls(t) PROVE CompletesOpen'
  <2>1. CASE StreamClose(t)
    BY <2>1, CloseWaits, CompletingFrame DEF StreamClose
  <2>2. CASE ~StreamClose(t)
    BY <1>3, <1>u, <2>2, CompletingFrame DEF StreamCalls, wt_stream_write, ReleaseStream, FindToSend, Send, Delist
  <2> QED BY <2>1, <2>2
<1>4. ASSUME NEW c \in Ids, Destroys(c) PROVE CompletesOpen'
  <2>1. CASE DestroyTakes(c) \/ DestroyFrees(c)
    BY <1>u, <2>1, CompletingFrame DEF DestroyTakes, DestroyFrees
  <2>2. CASE DestroyDisconnects(c)
    BY <2>2, DisconnectWaits, CompletingFrame DEF DestroyDisconnects
  <2>3. ASSUME NEW q \in NativeStreams, DestroyCloses(c, q) PROVE CompletesOpen'
    BY <2>3, CloseWaits, CompletingFrame DEF DestroyCloses
  <2> QED BY <1>4, <2>1, <2>2, <2>3 DEF Destroys
<1>5. ASSUME NEW k \in Ids, Callbacks(k) PROVE CompletesOpen'
  <2>1. ASSUME NEW q \in NativeStreams, PeerStreamStarted(k, q) PROVE CompletesOpen'
    <3>1. \A j \in Ids : callback'[j] = callback[j] \/ callback'[j].pc # "complete"
      BY <1>0, <2>1 DEF PeerStreamStarted, CallbackBegins, NoCallback
    <3> QED BY <2>1, <3>1, OpeningSpares, CompletingFrame DEF PeerStreamStarted
  <2>2. ASSUME NEW q \in NativeStreams, NEW complete \in BOOLEAN, StreamEvent(k, q, complete) PROVE CompletesOpen'
    <3> DEFINE r == [NoCallback EXCEPT !.pc = IF complete THEN "complete" ELSE "data", !.native = q]
    <3>1. /\ native[q] = [state |-> "open", connection |-> k] /\ native' = native
          /\ callback' = [callback EXCEPT ![k] = r]
      BY <2>2 DEF StreamEvent, CallbackBegins
    <3>2. r.native = q
      BY DEF NoCallback
    <3> HIDE DEF r
    <3>3. \A j \in Ids : callback'[j] = IF j = k THEN r ELSE callback[j]
      BY <1>0, <3>1
    <3> QED BY <3>1, <3>2, <3>3 DEF CompletesOpen
  <2>3. CASE wt_accept_peer_stream(k) \/ SinkReturns(k) \/ \E memory \in BOOLEAN : ListPeerStream(k, memory)
    <3>1. native' = native
      BY <2>3 DEF wt_accept_peer_stream, SinkReturns, ListPeerStream
    <3>2. \/ CallbackEnds(k)
          \/ callback' = [callback EXCEPT ![k].pc = "list", ![k].id = next]
      BY <2>3 DEF wt_accept_peer_stream, SinkReturns, ListPeerStream
    <3>3. \A j \in Ids : callback'[j] = callback[j] \/ callback'[j].pc # "complete"
      BY <1>0, <3>2 DEF CallbackEnds, CallbackStates
    <3> QED BY <3>1, <3>3, CompletingFrame DEF CompletingAsBefore
  <2>4. CASE LookUp(k)
    <3>1. \A j \in Ids : j # k => callback'[j] = callback[j]
      BY <1>0, <2>4 DEF LookUp, CallbackEnds
    <3>2. callback'[k].pc # "complete"
      <4>1. CASE callback' = [callback EXCEPT ![k].pc = "sink"]
        BY <1>0, <4>1 DEF CallbackStates
      <4>2. CASE CallbackEnds(k)
        BY <1>0, <4>2 DEF CallbackEnds
      <4> QED BY <2>4, <4>1, <4>2 DEF LookUp
    <3>3. ASSUME NEW j \in Ids, j # k, callback[j].pc = "complete"
          PROVE  native'[callback[j].native] = native[callback[j].native]
      <4>1. CASE native' = native
        BY <4>1
      <4>2. CASE callback[k].pc = "complete" /\ native' = [native EXCEPT ![callback[k].native].state = "over"]
        <5>1. /\ native[callback[j].native].connection = j /\ callback[j].native \in NativeStreams
              /\ native[callback[k].native].connection = k
          BY <3>3, <4>2, CompletingOpen
        <5>2. callback[j].native # callback[k].native
          BY <3>3, <5>1
        <5> QED BY <4>2, <5>1, <5>2 DEF IInv, TypeOK
      <4> QED BY <2>4, <4>1, <4>2 DEF LookUp
    <3>4. \A j \in Ids : CompletingAsBefore(j)
      BY <3>1, <3>2, <3>3 DEF CompletingAsBefore
    <3> QED BY <3>4, CompletingFrame
  <2> QED BY <1>5, <2>1, <2>2, <2>3, <2>4 DEF Callbacks
<1>6. CASE UNCHANGED vars
  BY <1>6, <1>u, CompletingFrame DEF vars
<1> QED BY <1>1, <1>2, <1>3, <1>4, <1>5, <1>6 DEF Next

LEMMA CompletesAlways == Spec => []CompletesOpen
<1>1. Init => CompletesOpen
  BY DEF Init, CompletesOpen, NoCallback
<1>2. IInv /\ NamesInv /\ CompletesOpen /\ [Next]_vars => CompletesOpen'
  BY CompletesStep
<1> QED BY <1>1, <1>2, Invariant, NamesAlways, PTL DEF Spec

-----------------------------------------------------------------------------
(* Every step *)

\* What overlapped stays so.
LEMMA OnceOverlapped ==
  ASSUME IInv, [Next]_vars, overlapped
  PROVE  overlapped'
<1>1. ASSUME NEW t \in Threads, ClientCalls(t) PROVE overlapped'
  <2>1. CASE wt_client_create(t) \/ ConnectRefused(t) \/ ConnectReplaces(t) \/ ConnectOpens(t)
    BY <2>1 DEF wt_client_create, ConnectRefused, ConnectReplaces, ConnectOpens, history
  <2>2. CASE ConnectStarts(t) \/ ConnectFails(t) \/ ConnectForgets(t) \/ Undo(t) \/ ShutdownReturns(t) \/ FreeContext(t)
    BY <2>2 DEF ConnectStarts, ConnectFails, ConnectForgets, Undo, ShutdownReturns, FreeContext, history
  <2>3. CASE ConnectTakes(t) \/ Shutdown(t)
    BY <2>3 DEF ConnectTakes, Shutdown
  <2>4. CASE \E c \in Ids : wt_client_connect(t, c) \/ wt_client_shutdown(t, c)
    BY <2>4 DEF wt_client_connect, wt_client_shutdown, history
  <2>5. CASE \E c \in Ids : ReleaseClient(t, c)
    BY <2>5 DEF ReleaseClient
  <2>6. CASE \E q \in NativeStreams : Abort(t, q)
    BY <2>6 DEF Abort, history
  <2> QED BY <1>1, <2>1, <2>2, <2>3, <2>4, <2>5, <2>6 DEF ClientCalls
<1>2. ASSUME NEW t \in Threads, SessionCalls(t) PROVE overlapped'
  <2>1. CASE StreamOpen(t) \/ Unlist(t) \/ SendDatagram(t)
    BY <2>1 DEF StreamOpen, Unlist, SendDatagram, history
  <2>2. CASE FindConnection(t) \/ CopyConnection(t)
    BY <2>2 DEF FindConnection, CopyConnection
  <2>3. CASE \E s \in Ids : \/ wt_session_open_bidi_stream(t, s) \/ wt_session_send_datagram(t, s)
                            \/ wt_session_close(t, s) \/ ReleaseSession(t, s)
    BY <2>3 DEF wt_session_open_bidi_stream, wt_session_send_datagram, wt_session_close, ReleaseSession, history
  <2>4. CASE \E ok \in BOOLEAN : ListStream(t, ok) \/ SendPrefix(t, ok)
    BY <2>4 DEF ListStream, SendPrefix, history
  <2> QED BY <1>2, <2>1, <2>2, <2>3, <2>4 DEF SessionCalls
<1>3. ASSUME NEW t \in Threads, StreamCalls(t) PROVE overlapped'
  <2>1. CASE FindToSend(t) \/ Send(t) \/ Delist(t) \/ StreamClose(t)
    BY <2>1 DEF FindToSend, Send, Delist, StreamClose, history
  <2>2. CASE \E i \in Ids : wt_stream_write(t, i)
    BY <2>2 DEF wt_stream_write, history
  <2>3. CASE \E i \in Ids : ReleaseStream(t, i)
    BY <2>3 DEF ReleaseStream
  <2> QED BY <1>3, <2>1, <2>2, <2>3 DEF StreamCalls
<1>4. ASSUME NEW c \in Ids, Destroys(c) PROVE overlapped'
  BY <1>4 DEF Destroys, DestroyTakes, DestroyDisconnects, DestroyFrees, DestroyCloses, history
<1>5. ASSUME NEW k \in Ids, Callbacks(k) PROVE overlapped'
  BY <1>5 DEF Callbacks, PeerStreamStarted, StreamEvent, LookUp, wt_accept_peer_stream, SinkReturns, ListPeerStream, history
<1>6. CASE UNCHANGED vars
  BY <1>6 DEF vars
<1> QED BY <1>1, <1>2, <1>3, <1>4, <1>5, <1>6 DEF Next

\* Nothing was used after its end, and nothing can be.
LifeInv == ~overlapped => ~misused /\ Life

LEMMA ClientLives ==
  ASSUME IInv, IInv', NamesInv, Life, ~misused, ~overlapped', NEW t \in Threads, ClientCalls(t)
  PROVE  ~misused' /\ Life'
<1>1. CASE wt_client_create(t)
  BY <1>1, TableLives
<1>2. CASE \E c \in Ids : wt_client_connect(t, c) \/ wt_client_shutdown(t, c)
  BY <1>2, BeginningLives
<1>3. CASE \E c \in Ids : ReleaseClient(t, c)
  BY <1>3, ReleasingLives
<1>4. CASE ConnectRefused(t) \/ \E q \in NativeStreams : Abort(t, q)
  BY <1>4, GoingLives
<1>5. CASE ConnectTakes(t) \/ ConnectReplaces(t)
  BY <1>5, GoingLives, ReplacingLives
<1>6. CASE ConnectOpens(t)
  BY <1>6, OpeningLives
<1>7. CASE ConnectStarts(t) \/ ConnectFails(t) \/ ConnectForgets(t)
  BY <1>7, StartingLives
<1>8. CASE Undo(t) \/ ShutdownReturns(t)
  BY <1>8, ReturningLives
<1>9. CASE Shutdown(t)
  BY <1>9, ShuttingLives
<1>10. CASE FreeContext(t)
  BY <1>10, FreeingLives
<1> QED BY <1>1, <1>2, <1>3, <1>4, <1>5, <1>6, <1>7, <1>8, <1>9, <1>10 DEF ClientCalls

LEMMA SessionLives ==
  ASSUME IInv, IInv', NamesInv, Life, ~misused, ~overlapped', NEW t \in Threads, SessionCalls(t)
  PROVE  ~misused' /\ Life'
<1>1. CASE \E s \in Ids : \/ wt_session_open_bidi_stream(t, s) \/ wt_session_send_datagram(t, s) \/ wt_session_close(t, s)
  BY <1>1, BeginningLives
<1>2. CASE \E s \in Ids : ReleaseSession(t, s)
  BY <1>2, TableLives
<1>3. CASE FindConnection(t) \/ CopyConnection(t)
  BY <1>3, CopyingLives
<1>4. CASE StreamOpen(t)
  <2>1. CASE UNCHANGED native
    BY <1>4, <2>1, GoingLives
  <2>2. CASE ~UNCHANGED native
    BY <1>4, <2>2, StreamOpens
  <2> QED BY <2>1, <2>2
<1>5. CASE Unlist(t)
  BY <1>5, UnlistingLives
<1>6. CASE SendDatagram(t)
  BY <1>6, ReturningLives
<1>7. ASSUME NEW ok \in BOOLEAN, ListStream(t, ok) PROVE ~misused' /\ Life'
  <2>1. CASE ListStream(t, TRUE)
    BY <2>1, ListingLives
  <2>2. CASE ListStream(t, FALSE)
    BY <2>2, ClosingLives
  <2> QED BY <1>7, <2>1, <2>2
<1>8. ASSUME NEW ok \in BOOLEAN, SendPrefix(t, ok) PROVE ~misused' /\ Life'
  <2>1. CASE SendPrefix(t, TRUE)
    BY <2>1, SentLives
  <2>2. CASE SendPrefix(t, FALSE)
    BY <2>2, ClosingLives
  <2> QED BY <1>8, <2>1, <2>2
<1> QED BY <1>1, <1>2, <1>3, <1>4, <1>5, <1>6, <1>7, <1>8 DEF SessionCalls

LEMMA StreamLives ==
  ASSUME IInv, IInv', NamesInv, Life, ~misused, ~overlapped', NEW t \in Threads, StreamCalls(t)
  PROVE  ~misused' /\ Life'
<1>1. CASE \E i \in Ids : wt_stream_write(t, i)
  BY <1>1, BeginningLives
<1>2. CASE \E i \in Ids : ReleaseStream(t, i)
  BY <1>2, HandingBackLives
<1>3. CASE FindToSend(t)
  <2>1. CASE Return(t)
    BY <1>3, <2>1, ReturningLives
  <2>2. CASE ~Return(t)
    BY <1>3, <2>2, FindingLives
  <2> QED BY <2>1, <2>2
<1>4. CASE Send(t)
  BY <1>4, ReturningLives
<1>5. CASE Delist(t)
  <2>1. CASE Return(t) /\ UNCHANGED quic
    BY <1>5, <2>1, ReturningLives
  <2>2. ASSUME NEW e \in EntriesOf(call[t].client, call[t].id),
               Become(t, [call[t] EXCEPT !.pc = "close", !.native = e.native]),
               quic' = [quic EXCEPT ![call[t].client].streams = @ \ EntriesAt(call[t].client, e.native)]
        PROVE  ~misused' /\ Life'
    BY <1>5, <2>2, DelistingLives
  <2> QED BY <1>5, <2>1, <2>2 DEF Delist
<1>6. CASE StreamClose(t)
  BY <1>6, ClosingLives
<1> QED BY <1>1, <1>2, <1>3, <1>4, <1>5, <1>6 DEF StreamCalls

LEMMA LibraryLives ==
  ASSUME IInv, IInv', NamesInv, Life, ~misused, CompletesOpen, NEW i \in Ids, Destroys(i) \/ Callbacks(i)
  PROVE  ~misused' /\ Life'
<1>1. CASE Destroys(i)
  BY <1>1, TakingLives, DestroyingLives, DoomedLives DEF Destroys
<1>2. ASSUME NEW q \in NativeStreams, PeerStreamStarted(i, q) PROVE ~misused' /\ Life'
  BY <1>2, PeerStreamLives
<1>3. ASSUME NEW q \in NativeStreams, NEW complete \in BOOLEAN, StreamEvent(i, q, complete) PROVE ~misused' /\ Life'
  BY <1>3, AttachingLives
<1>6. CASE LookUp(i)
  <2>1. CASE UNCHANGED <<quic, native>>
    BY <1>6, <2>1, AttachingLives
  <2>2. CASE ~UNCHANGED <<quic, native>>
    BY <1>6, <2>2, CompletingLives
  <2> QED BY <2>1, <2>2
<1>4. CASE wt_accept_peer_stream(i) \/ SinkReturns(i)
  BY <1>4, AttachingLives
<1>5. ASSUME NEW memory \in BOOLEAN, ListPeerStream(i, memory) PROVE ~misused' /\ Life'
  <2>1. CASE ListPeerStream(i, TRUE)
    BY <2>1, PeerListingLives
  <2>2. CASE ListPeerStream(i, FALSE)
    BY <2>2, AttachingLives
  <2> QED BY <1>5, <2>1, <2>2
<1> QED BY <1>1, <1>2, <1>3, <1>4, <1>5, <1>6 DEF Callbacks

LEMMA LifeStep ==
  ASSUME IInv, IInv', NamesInv, CompletesOpen, LifeInv, [Next]_vars
  PROVE  LifeInv'
<1> SUFFICES ASSUME ~overlapped'
             PROVE  ~misused' /\ Life'
  BY DEF LifeInv
<1>0. ~misused /\ Life
  BY OnceOverlapped DEF LifeInv
<1>1. ASSUME NEW t \in Threads, ClientCalls(t) \/ SessionCalls(t) \/ StreamCalls(t)
      PROVE  ~misused' /\ Life'
  BY <1>0, <1>1, ClientLives, SessionLives, StreamLives
<1>2. ASSUME NEW i \in Ids, Destroys(i) \/ Callbacks(i)
      PROVE  ~misused' /\ Life'
  BY <1>0, <1>2, LibraryLives
<1>3. CASE UNCHANGED vars
  <2>1. /\ UNCHANGED <<native, connections, quic, call>> /\ known \subseteq known' /\ abandoned \subseteq abandoned'
        /\ callback' = callback /\ handles' = handles /\ misused' = misused
    BY <1>3 DEF vars
  <2>2. \A i \in known : HandleAsBefore(i)
    BY <2>1 DEF HandleAsBefore
  <2>3. \A k \in Ids : BackedAsBefore(k)
    BY <2>1 DEF BackedAsBefore
  <2>4. StreamsInUse'
    <3>1. \A k \in Ids : callback[k].pc \in Backing =>
            \/ callback'[k].pc \in Backing /\ callback'[k].native = callback[k].native
            \/ callback[k].native \in abandoned'
      BY <2>1
    <3> QED BY <1>0, <2>1, <2>2, <2>3, <3>1, CallbackFrame DEF Life
  <2>5. CallsRunOn
    BY <2>1 DEF CallsRunOn, ServedAs, ConnectsAs
  <2>6. LinksKept
    BY <2>1 DEF LinksKept
  <2> QED BY <1>0, <2>1, <2>4, <2>5, <2>6, WithStreams
<1> QED BY <1>1, <1>2, <1>3 DEF Next

LEMMA LifeInit ==
  ASSUME Init
  PROVE  LifeInv
<1>f. /\ \A t \in Threads : call[t].pc = "idle" /\ call[t].connection = 0 /\ call[t].rest = {}
      /\ \A c \in Ids : quic[c].life = "none" /\ quic[c].connection = 0 /\ quic[c].streams = {} /\ quic[c].doomed = {}
      /\ \A k \in Ids : callback[k].pc = "idle"
      /\ \A q \in NativeStreams : native[q].state = "unused"
      /\ ~misused
  BY DEF Init, NoCall, NoQuic, NoCallback
<1>1. CallsAreServed
  BY <1>f DEF CallsAreServed, Releasing
<1>2. ConnectionsInUse
  BY <1>f DEF ConnectionsInUse, FreedIsDisconnected, ContextIsOpen, CopiesAreOpen, Freed, Closers
<1>3. HeldByCalls /\ HeldByCallbacks
  BY <1>f DEF HeldByCalls, HeldByCallbacks, Holding, Backing
<1>4. StreamsHaveHomes /\ HeldByLists /\ HeldByDestroys /\ OnStreams
  BY <1>f DEF StreamsHaveHomes, HeldByLists, HeldByDestroys, OnStreams
<1>5. InUse
  BY <1>f DEF InUse, Referred
<1>6. NothingForgotten
  BY <1>f DEF NothingForgotten, Unfinished
<1> QED BY <1>1, <1>2, <1>3, <1>4, <1>5, <1>6, <1>f DEF LifeInv, Life, StreamsInUse

LEMMA LifeAlways == Spec => []LifeInv
<1>1. Init => LifeInv
  BY LifeInit
<1>2. IInv /\ IInv' /\ NamesInv /\ CompletesOpen /\ LifeInv /\ [Next]_vars => LifeInv'
  BY LifeStep
<1> QED BY <1>1, <1>2, Invariant, NamesAlways, CompletesAlways, PTL DEF Spec

\* No step reads freed memory or uses, or closes again, a stream or a connection of MsQuic
\* that was closed, unless the application itself overlapped a release with a call.
THEOREM NothingUsedAfter == Spec => []NothingUsedAfterItsEnd
<1>1. LifeInv => NothingUsedAfterItsEnd
  BY DEF LifeInv, NothingUsedAfterItsEnd
<1> QED BY <1>1, LifeAlways, PTL

\* A freed client's streams are in nobody's hands any more.
LEMMA EndsWithNothing ==
  ASSUME IInv, NamesInv, Life, NEW q \in NativeStreams, Unfinished(q), Freed(Home(q))
  PROVE  q \in abandoned
<1> DEFINE c == Home(q)
<1>p. /\ NativelyTyped
      /\ StreamsHaveHomes /\ HeldByCalls /\ HeldByCallbacks /\ HeldByLists /\ HeldByDestroys /\ NothingForgotten
      /\ CallsAreServed /\ FreedIsDisconnected
  BY Natively DEF Life, StreamsInUse, ConnectionsInUse
<1>1. c \in Ids /\ quic[c].life = "freed"
  BY <1>p DEF Unfinished, StreamsHaveHomes, Home, NamesInv, ConnectionsOfClients, Freed
<1>2. ASSUME NEW t \in Threads, call[t].pc \in Holding, call[t].native = q
      PROVE  FALSE
  <2>1. call[t].client = c /\ call[t].pc # "idle"
    BY <1>2, <1>p DEF HeldByCalls, Holding
  <2> QED BY <1>1, <1>p, <2>1 DEF CallsAreServed
<1>3. ASSUME NEW k \in Ids, callback[k].pc \in Backing, callback[k].native = q
      PROVE  FALSE
  <2>1. native[q] = [state |-> "open", connection |-> k]
    BY <1>3, <1>p DEF HeldByCallbacks
  <2>2. connections[k].client = c
    BY <2>1 DEF Home
  <2>3. connections[k].state = "started"
    BY <1>3 DEF NamesInv, ConnectionsOfClients, Backing
  <2> QED BY <1>1, <1>p, <2>2, <2>3 DEF FreedIsDisconnected, Freed
<1>4. ASSUME NEW d \in Ids, q \in Listed(d)
      PROVE  q \in abandoned
  <2>1. Home(q) = d
    BY <1>4, <1>p DEF HeldByLists, Listed
  <2> QED BY <1>1, <1>4, <1>p, <2>1 DEF NothingForgotten
<1>5. ASSUME NEW d \in Ids, q \in quic[d].doomed
      PROVE  FALSE
  <2>1. Home(q) = d /\ quic[d].life = "closing"
    BY <1>5, <1>p DEF HeldByDestroys, Whole
  <2> QED BY <1>1, <2>1
<1>6. Kept(q)
  BY <1>p DEF NothingForgotten
<1> QED BY <1>2, <1>3, <1>4, <1>5, <1>6 DEF Kept

\* When wt_msquic_context_destroy is through with a client whose calls the application never
\* overlapped, every stream of it was closed or has completed, or is a peer stream that was
\* refused, could not be listed, or was listed after the destroy took the list.
THEOREM DestroyGivesBack == Spec => []DestroyClosesEverything
<1>1. IInv /\ NamesInv /\ LifeInv => DestroyClosesEverything
  <2> SUFFICES ASSUME IInv, NamesInv, LifeInv, ~overlapped, NEW q \in NativeStreams,
                      native[q].state \in {"open", "cut"}, Freed(connections[native[q].connection].client)
               PROVE  q \in abandoned
    BY DEF DestroyClosesEverything
  <2> QED BY EndsWithNothing DEF LifeInv, Unfinished, Home
<1> QED BY <1>1, Invariant, NamesAlways, LifeAlways, PTL
=============================================================================
