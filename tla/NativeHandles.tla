--------------------------- MODULE NativeHandles ----------------------------
(***************************************************************************)
(* Handles, contexts and native streams of the native library              *)
(* (webtransport_native.c over wt_msquic.c): who may still use what while  *)
(* application threads, MsQuic callbacks and detached destroys interleave. *)
(*                                                                         *)
(* The handle table is guarded by the process-wide lock, the MsQuic        *)
(* context of a client by a lock of its own.  Calls and callbacks give up  *)
(* either lock and go on with what they found under it, so one action is   *)
(* one section of a lock, or one call of MsQuic between two of them.  A    *)
(* close of MsQuic waits for the callbacks of what it closes.              *)
(***************************************************************************)
EXTENDS Naturals, FiniteSets

CONSTANTS
  Threads,        \* application threads
  Addresses,      \* where calloc may put a client context
  NativeStreams,  \* MsQuic streams
  NoNative,       \* not a stream
  MaxHandles      \* bound on the ids handed out

ASSUME HandlesAssumption == MaxHandles \in Nat
ASSUME NativeAssumption == NoNative \notin NativeStreams

Ids == 1 .. MaxHandles

VARIABLES
  next,        \* g_next_handle_id
  known,       \* ids a call returned or an event announced: the ones the application can use
  handles,     \* g_handles: id |-> the handle, NoHandle when none has that id
  quic,        \* client id |-> its MsQuic context and the client context behind it
  connections, \* MsQuic's connections, under the id of the session whose connect opened them
  native,      \* MsQuic's side of a stream: its state, and its connection
  call,        \* thread |-> the ABI call it is in
  callback,    \* connection |-> the MsQuic callback running for it, one at a time
  abandoned,   \* history: peer streams nothing will close: refused, not listed, or listed after
               \* a destroy took the list
  overlapped,  \* history: a release, a shutdown or a connect came in the middle of another
               \* thread's call on the same stream, connection or client
  misused      \* history: freed memory, a closed stream or a closed connection was used, or
               \* closed again

vars == <<next, known, handles, quic, connections, native, call, callback,
          abandoned, overlapped, misused>>
table == <<next, handles, known>>
history == <<abandoned, overlapped>>

NoHandle == [kind |-> "none", client |-> 0, session |-> 0]
ClientHandle(c) == [kind |-> "client", client |-> c, session |-> 0]
SessionHandle(c) == [kind |-> "session", client |-> c, session |-> 0]
StreamHandle(c, s) == [kind |-> "stream", client |-> c, session |-> s]

NoQuic == [life |-> "none", attached |-> FALSE, closing |-> FALSE, connection |-> 0,
           address |-> NoNative, streams |-> {}, doomed |-> {}]
NoConnection == [state |-> "none", client |-> 0]
NoCall == [pc |-> "idle", client |-> 0, id |-> 0, connection |-> 0,
           native |-> NoNative, rest |-> {}]
NoCallback == [pc |-> "idle", native |-> NoNative, id |-> 0, address |-> NoNative]

Init ==
  /\ next = 1
  /\ known = {}
  /\ handles = [i \in Ids |-> NoHandle]
  /\ quic = [i \in Ids |-> NoQuic]
  /\ connections = [i \in Ids |-> NoConnection]
  /\ native = [q \in NativeStreams |-> [state |-> "unused", connection |-> 0]]
  /\ call = [t \in Threads |-> NoCall]
  /\ callback = [i \in Ids |-> NoCallback]
  /\ abandoned = {}
  /\ overlapped = FALSE
  /\ misused = FALSE

-----------------------------------------------------------------------------
(* The handle table, under the process-wide lock *)

\* wt_find_handle
Found(i, kind) == i \in Ids /\ handles[i].kind = kind

\* A handle the application can call with.
Usable(i, kind) == i \in known /\ Found(i, kind)

\* wt_allocate_handle with the context the caller gives it
Allocate(handle) ==
  /\ next \in Ids
  /\ handles' = [handles EXCEPT ![next] = handle]
  /\ next' = next + 1

(* An operator named after a definition, with a suffix, is that definition  *)
(* with a plausible bug: the properties must notice it.                     *)

\* Forgets the streams.
WithoutClient_SessionsOnly(c) ==
  [i \in Ids |-> IF i = c \/ (handles[i].kind = "session" /\ handles[i].client = c)
                 THEN NoHandle ELSE handles[i]]

\* The removed client and wt_remove_child_handles_for_client.
WithoutClient(c) == [i \in Ids |-> IF handles[i].client = c THEN NoHandle ELSE handles[i]]

\* wt_push_event succeeds: it cannot when the client is gone or closing, and need
\* not when the queue is full.
MayPush(c) == Found(c, "client") /\ ~quic[c].closing

-----------------------------------------------------------------------------
(* The stream list of a MsQuic context, under its lock *)

\* The id is not filled in.
Entry_NoId(i, q) == [id |-> 0, native |-> q]

\* An entry of the list; wt_msquic_add_stream refuses id 0.
Entry(i, q) == [id |-> i, native |-> q]
EntriesOf(c, i) == {e \in quic[c].streams : e.id = i}
EntriesAt(c, q) == {e \in quic[c].streams : e.native = q}
Listed(c) == {e.native : e \in quic[c].streams}

\* Any use of the context of a client, and any of a native stream.
Freed(c) == quic[c].life = "freed"
Closed(q) == native[q].state = "closed"
Over(k) == k \in Ids /\ connections[k].state = "closed"

Running(t, pc) == call[t].pc = pc
Become(t, record) == call' = [call EXCEPT ![t] = record]
Return(t) == Become(t, NoCall)
ReturnId(t) == Return(t) /\ known' = known \cup {call[t].id}
Go(t, pc) == call' = [call EXCEPT ![t].pc = pc]
Begin(t, pc, c, i) == Become(t, [NoCall EXCEPT !.pc = pc, !.client = c, !.id = i])
Others(t, c) == {u \in Threads \ {t} : call[u].pc # "idle" /\ call[u].client = c}

Uses(bad) == misused' = (misused \/ bad)

\* StreamClose
Close(qs) ==
  /\ Uses(\E q \in qs : Closed(q))
  /\ native' = [q \in NativeStreams |->
                  IF q \in qs THEN [native[q] EXCEPT !.state = "closed"] ELSE native[q]]

\* No callback of a stream runs: StreamClose waits for that.
Quiet(q) == \A k \in Ids : callback[k].pc # "idle" => callback[k].native # q

\* ConnectionClose: it waits for the callbacks of the connection, and ends those of its
\* streams.
CloseConnection(k) ==
  /\ callback[k].pc = "idle"
  /\ Uses(Over(k))
  /\ connections' = [connections EXCEPT ![k].state = "closed"]
  /\ native' = [q \in NativeStreams |->
                  IF native[q] = [state |-> "open", connection |-> k]
                  THEN [native[q] EXCEPT !.state = "cut"] ELSE native[q]]

-----------------------------------------------------------------------------
(* Clients and sessions *)

\* wt_client_create: all of it under the lock, the sinks included.
wt_client_create(t) ==
  /\ Running(t, "idle") /\ next \in Ids
  /\ \E a \in Addresses :
       /\ \A c \in Ids : quic[c].address # a
       /\ quic' = [quic EXCEPT ![next] = [NoQuic EXCEPT !.life = "live", !.attached = TRUE,
                                            !.address = a]]
  /\ Allocate(ClientHandle(next))
  /\ known' = known \cup {next}
  /\ UNCHANGED <<connections, native, call, callback, history, misused>>

\* wt_client_connect up to the unlock: the session is there before the connection.
wt_client_connect(t, c) ==
  /\ Running(t, "idle") /\ Usable(c, "client")
  /\ Allocate(SessionHandle(c))
  /\ Begin(t, "connect", c, next)
  /\ UNCHANGED <<known, quic, connections, native, callback, history, misused>>

\* wt_msquic_connect: a URL or headers it refuses change nothing.
ConnectRefused(t) ==
  /\ Running(t, "connect")
  /\ Uses(Freed(call[t].client))
  /\ Go(t, "undo")
  /\ UNCHANGED <<table, quic, connections, native, callback, history>>

\* Under the lock the connection of an earlier connect is taken out of the context ...
ConnectTakes(t) ==
  LET c == call[t].client
      k == quic[c].connection IN
  /\ Running(t, "connect")
  /\ Uses(Freed(c))
  /\ quic' = [quic EXCEPT ![c].connection = 0]
  /\ Become(t, [call[t] EXCEPT !.pc = IF k = 0 THEN "dial" ELSE "replace", !.connection = k])
  /\ overlapped' = (overlapped \/ \E u \in Others(t, c) : k # 0 /\ call[u].connection = k)
  /\ UNCHANGED <<table, connections, native, callback, abandoned>>

\* ... and closed without.
ConnectReplaces(t) ==
  /\ Running(t, "replace")
  /\ CloseConnection(call[t].connection)
  /\ Become(t, [call[t] EXCEPT !.pc = "dial", !.connection = 0])
  /\ UNCHANGED <<table, quic, callback, history>>

\* The configuration or ConnectionOpen fails, or the connection is opened and put into
\* the context, whatever another connect has put there in the meantime.
ConnectOpens(t) ==
  LET c == call[t].client
      k == call[t].id IN
  /\ Running(t, "dial")
  /\ Uses(Freed(c))
  /\ \/ Go(t, "undo") /\ UNCHANGED <<quic, connections>>
     \/ /\ quic' = [quic EXCEPT ![c].connection = k]
        /\ connections' = [connections EXCEPT ![k] = [state |-> "open", client |-> c]]
        /\ Become(t, [call[t] EXCEPT !.pc = "start", !.connection = k])
  /\ UNCHANGED <<table, native, callback, history>>

\* ConnectionStart
ConnectStarts(t) ==
  LET k == call[t].id IN
  /\ Running(t, "start")
  /\ Uses(Over(k))
  /\ connections' = [connections EXCEPT ![k].state = IF @ = "open" THEN "started" ELSE @]
  /\ ReturnId(t)
  /\ UNCHANGED <<next, handles, quic, native, callback, history>>

\* When it fails the connection is closed ...
ConnectFails(t) ==
  /\ Running(t, "start")
  /\ CloseConnection(call[t].id)
  /\ Go(t, "forget")
  /\ UNCHANGED <<table, quic, callback, history>>

\* ... and only then taken out of the context.
ConnectForgets(t) ==
  LET c == call[t].client IN
  /\ Running(t, "forget")
  /\ Uses(Freed(c))
  /\ quic' = [quic EXCEPT ![c].connection = 0]
  /\ Become(t, [call[t] EXCEPT !.pc = "undo", !.connection = 0])
  /\ UNCHANGED <<table, connections, native, callback, history>>

\* wt_release of the handle the failed call allocated, under the lock all the way:
\* a stream still listed would be closed here, which waits for callbacks that may
\* wait for the lock.
Undo(t) ==
  LET c == call[t].client
      mine == {e \in EntriesOf(c, call[t].id) : Found(e.id, "stream")} IN
  /\ Running(t, "undo")
  /\ handles' = [handles EXCEPT ![call[t].id] = NoHandle]
  /\ quic' = [quic EXCEPT ![c].streams = @ \ mine]
  /\ Close({e.native : e \in mine})
  /\ Return(t)
  /\ UNCHANGED <<next, known, connections, callback, history>>

\* wt_client_shutdown up to the unlock
wt_client_shutdown(t, c) ==
  /\ Running(t, "idle") /\ Usable(c, "client")
  /\ quic' = [quic EXCEPT ![c].closing = TRUE]
  /\ Begin(t, "shutdown", c, 0)
  /\ UNCHANGED <<table, connections, native, callback, history, misused>>

\* wt_session_close up to the unlock: without room for its event it fails and closes
\* nothing.
wt_session_close(t, s) ==
  /\ Running(t, "idle") /\ Usable(s, "session")
  /\ MayPush(handles[s].client)
  /\ Begin(t, "shutdown", handles[s].client, 0)
  /\ UNCHANGED <<table, quic, connections, native, callback, history, misused>>

\* A call that may close the connection it has put into the context, and one that may
\* close the stream it has listed or finds listed.
Dials(u) == call[u].pc \in {"start", "forget"}
MayClose(u) == Dials(u) \/ call[u].pc \in {"prefix", "unlist", "closing"}

\* wt_msquic_shutdown under the lock: detaches the sinks and copies the list and the
\* connection.
Shutdown(t) ==
  LET c == call[t].client IN
  /\ call[t].pc \in {"shutdown", "released"}
  /\ Uses(Freed(c))
  /\ overlapped' = (overlapped \/ \E u \in Others(t, c) : MayClose(u))
  /\ quic' = [quic EXCEPT ![c].attached = FALSE]
  /\ Become(t, [call[t] EXCEPT !.pc = IF @ = "shutdown" THEN "abort" ELSE "abort released",
                               !.rest = Listed(c), !.connection = quic[c].connection])
  /\ UNCHANGED <<table, connections, native, callback, abandoned>>

\* StreamShutdown of the streams in the copy, one after the other, without the lock.
Abort(t, q) ==
  /\ call[t].pc \in {"abort", "abort released"}
  /\ q \in call[t].rest
  /\ Uses(Closed(q))
  /\ call' = [call EXCEPT ![t].rest = @ \ {q}]
  /\ UNCHANGED <<table, quic, connections, native, callback, history>>

\* ConnectionShutdown
ShutdownReturns(t) ==
  /\ Running(t, "abort") /\ call[t].rest = {}
  /\ Uses(Over(call[t].connection))
  /\ Return(t)
  /\ UNCHANGED <<table, quic, connections, native, callback, history>>

-----------------------------------------------------------------------------
(* Streams the application opens *)

\* wt_session_open_bidi_stream up to the unlock: the handle is there before the stream.
wt_session_open_bidi_stream(t, s) ==
  LET c == handles[s].client IN
  /\ Running(t, "idle") /\ Usable(s, "session") /\ Found(c, "client")
  /\ Allocate(StreamHandle(c, s))
  /\ Begin(t, "open", c, next)
  /\ UNCHANGED <<known, quic, connections, native, callback, history, misused>>

\* wt_msquic_open_bidi_stream copies the connection, if there is one, under the lock ...
FindConnection(t) ==
  LET c == call[t].client IN
  /\ Running(t, "open")
  /\ Uses(Freed(c))
  /\ IF quic[c].connection = 0 THEN Go(t, "undo")
     ELSE Become(t, [call[t] EXCEPT !.pc = "opening", !.connection = quic[c].connection])
  /\ overlapped' = (overlapped \/ \E u \in Others(t, c) : Dials(u))
  /\ UNCHANGED <<table, quic, connections, native, callback, abandoned>>

\* ... and opens the stream without.
StreamOpen(t) ==
  LET k == call[t].connection IN
  /\ Running(t, "opening")
  /\ Uses(Over(k))
  /\ \/ Become(t, [call[t] EXCEPT !.pc = "undo", !.connection = 0]) /\ UNCHANGED native
     \/ \E q \in NativeStreams :
          /\ native[q].state = "unused"
          /\ native' = [native EXCEPT ![q] = [state |-> "open", connection |-> k]]
          /\ Become(t, [call[t] EXCEPT !.pc = "list", !.native = q, !.connection = 0])
  /\ UNCHANGED <<table, quic, connections, callback, history>>

\* wt_msquic_add_stream, or without memory for it StreamClose.
ListStream(t, memory) ==
  LET c == call[t].client IN
  /\ Running(t, "list")
  /\ IF memory
     THEN /\ quic' = [quic EXCEPT ![c].streams = @ \cup {Entry(call[t].id, call[t].native)}]
          /\ Uses(Freed(c))
          /\ UNCHANGED native
     ELSE Quiet(call[t].native) /\ Close({call[t].native}) /\ UNCHANGED quic
  /\ Go(t, IF memory THEN "prefix" ELSE "undo")
  /\ UNCHANGED <<table, connections, callback, history>>

\* Closes the stream and leaves it listed.
SendPrefix_StaysListed(t, sent) ==
  /\ Running(t, "prefix")
  /\ IF sent THEN Uses(Closed(call[t].native)) /\ UNCHANGED native
     ELSE Quiet(call[t].native) /\ Close({call[t].native})
  /\ IF sent THEN ReturnId(t) ELSE Go(t, "undo") /\ UNCHANGED known
  /\ UNCHANGED <<next, handles, quic, connections, callback, history>>

\* The prefix is sent, or cannot be, and the stream is closed ...
SendPrefix(t, sent) ==
  /\ Running(t, "prefix")
  /\ IF sent THEN Uses(Closed(call[t].native)) /\ UNCHANGED native
     ELSE Quiet(call[t].native) /\ Close({call[t].native})
  /\ IF sent THEN ReturnId(t) ELSE Go(t, "unlist") /\ UNCHANGED known
  /\ UNCHANGED <<next, handles, quic, connections, callback, history>>

\* ... and only then taken off the list (wt_msquic_remove_stream).
Unlist(t) ==
  LET c == call[t].client IN
  /\ Running(t, "unlist")
  /\ Uses(Freed(c))
  /\ quic' = [quic EXCEPT ![c].streams = @ \ EntriesAt(c, call[t].native)]
  /\ Go(t, "undo")
  /\ UNCHANGED <<table, connections, native, callback, history>>

\* wt_stream_write, wt_stream_finish, wt_stream_reset up to the first unlock
wt_stream_write(t, i) ==
  /\ Running(t, "idle")
  /\ Usable(i, "stream") /\ Found(handles[i].session, "session") /\ Found(handles[i].client, "client")
  /\ Begin(t, "send", handles[i].client, i)
  /\ UNCHANGED <<table, quic, connections, native, callback, history, misused>>

\* wt_msquic_stream_write, wt_msquic_stream_reset look the stream up under their lock ...
FindToSend(t) ==
  LET c == call[t].client IN
  /\ Running(t, "send")
  /\ Uses(Freed(c))
  /\ \/ EntriesOf(c, call[t].id) = {} /\ Return(t)
     \/ \E e \in EntriesOf(c, call[t].id) :
          Become(t, [call[t] EXCEPT !.pc = "sending", !.native = e.native])
  /\ UNCHANGED <<table, quic, connections, native, callback, history>>

\* ... and use it without.  The flag the caller sets afterwards is never read.
Send(t) ==
  /\ Running(t, "sending")
  /\ Uses(Closed(call[t].native))
  /\ Return(t)
  /\ UNCHANGED <<table, quic, connections, native, callback, history>>

\* wt_session_send_datagram up to the unlock; wt_msquic_datagram_send copies the
\* connection under its lock and sends without.
wt_session_send_datagram(t, s) ==
  /\ Running(t, "idle") /\ Usable(s, "session") /\ Found(handles[s].client, "client")
  /\ Begin(t, "datagram", handles[s].client, 0)
  /\ UNCHANGED <<table, quic, connections, native, callback, history, misused>>

CopyConnection(t) ==
  LET c == call[t].client IN
  /\ Running(t, "datagram")
  /\ Uses(Freed(c))
  /\ IF quic[c].connection = 0 THEN Return(t)
     ELSE Become(t, [call[t] EXCEPT !.pc = "datagram out", !.connection = quic[c].connection])
  /\ overlapped' = (overlapped \/ \E u \in Others(t, c) : Dials(u))
  /\ UNCHANGED <<table, quic, connections, native, callback, abandoned>>

SendDatagram(t) ==
  /\ Running(t, "datagram out")
  /\ Uses(Freed(call[t].client) \/ Over(call[t].connection))
  /\ Return(t)
  /\ UNCHANGED <<table, quic, connections, native, callback, history>>

-----------------------------------------------------------------------------
(* wt_release *)

ReleaseSession(t, s) ==
  /\ Running(t, "idle") /\ Usable(s, "session")
  /\ handles' = [handles EXCEPT ![s] = NoHandle]
  /\ UNCHANGED <<next, known, quic, connections, native, call, callback, history, misused>>

\* A stream, up to the unlock.
ReleaseStream(t, i) ==
  LET c == handles[i].client IN
  /\ Running(t, "idle") /\ Usable(i, "stream")
  /\ handles' = [handles EXCEPT ![i] = NoHandle]
  /\ Begin(t, "closing", c, i)
  /\ overlapped' = (overlapped \/ \E u \in Others(t, c) :
                      call[u].id = i \/ \E e \in EntriesOf(c, i) : e.native \in call[u].rest)
  /\ UNCHANGED <<next, known, quic, connections, native, callback, abandoned, misused>>

\* Leaves the stream listed.
Delist_OnlyFinds(t) ==
  LET c == call[t].client IN
  /\ Running(t, "closing")
  /\ Uses(Freed(c))
  /\ \/ EntriesOf(c, call[t].id) = {} /\ Return(t) /\ UNCHANGED quic
     \/ \E e \in EntriesOf(c, call[t].id) :
          /\ Become(t, [call[t] EXCEPT !.pc = "close", !.native = e.native])
          /\ UNCHANGED quic
  /\ UNCHANGED <<table, connections, native, callback, history>>

\* wt_msquic_close_stream_handle takes the stream off the list under its lock ...
Delist(t) ==
  LET c == call[t].client IN
  /\ Running(t, "closing")
  /\ Uses(Freed(c))
  /\ \/ EntriesOf(c, call[t].id) = {} /\ Return(t) /\ UNCHANGED quic
     \/ \E e \in EntriesOf(c, call[t].id) :
          /\ Become(t, [call[t] EXCEPT !.pc = "close", !.native = e.native])
          /\ quic' = [quic EXCEPT ![c].streams = @ \ EntriesAt(c, e.native)]
  /\ UNCHANGED <<table, connections, native, callback, history>>

\* ... and closes it without.
StreamClose(t) ==
  /\ Running(t, "close")
  /\ Quiet(call[t].native)
  /\ Close({call[t].native})
  /\ Return(t)
  /\ UNCHANGED <<table, quic, connections, callback, history>>

\* A client, up to the unlock; wt_msquic_shutdown follows, then FreeContext.
ReleaseClient(t, c) ==
  /\ Running(t, "idle") /\ Usable(c, "client")
  /\ handles' = WithoutClient(c)
  /\ quic' = [quic EXCEPT ![c].closing = TRUE]
  /\ Begin(t, "released", c, 0)
  /\ overlapped' = (overlapped \/ Others(t, c) # {})
  /\ UNCHANGED <<next, known, connections, native, callback, abandoned, misused>>

\* ConnectionShutdown, free(context) and wt_msquic_context_destroy_detached
FreeContext(t) ==
  LET c == call[t].client IN
  /\ Running(t, "abort released") /\ call[t].rest = {}
  /\ Uses(Over(call[t].connection))
  /\ quic' = [quic EXCEPT ![c].address = NoNative, ![c].life = "destroying"]
  /\ Return(t)
  /\ UNCHANGED <<table, connections, native, callback, history>>

-----------------------------------------------------------------------------
(* wt_msquic_context_destroy, on a thread of its own *)

\* Copies the list after emptying it.
DestroyTakes_Emptied(c) ==
  /\ quic[c].life = "destroying"
  /\ Uses(Over(quic[c].connection) \/ \E q \in Listed(c) : Closed(q))
  /\ quic' = [quic EXCEPT ![c].life = "closing", ![c].streams = {}]
  /\ UNCHANGED <<table, connections, native, call, callback, history>>

\* The second wt_msquic_shutdown, and the list and the handles taken under the lock.
DestroyTakes(c) ==
  /\ quic[c].life = "destroying"
  /\ Uses(Over(quic[c].connection) \/ \E q \in Listed(c) : Closed(q))
  /\ quic' = [quic EXCEPT ![c].life = "closing", ![c].doomed = Listed(c), ![c].streams = {}]
  /\ UNCHANGED <<table, connections, native, call, callback, history>>

DestroyCloses(c, q) ==
  /\ quic[c].life = "closing" /\ q \in quic[c].doomed
  /\ Quiet(q)
  /\ Close({q})
  /\ quic' = [quic EXCEPT ![c].doomed = @ \ {q}]
  /\ UNCHANGED <<table, connections, call, callback, history>>

\* ConnectionClose of the connection in the context ...
DestroyDisconnects(c) ==
  /\ quic[c].life = "closing" /\ quic[c].doomed = {} /\ quic[c].connection # 0
  /\ CloseConnection(quic[c].connection)
  /\ quic' = [quic EXCEPT ![c].connection = 0]
  /\ UNCHANGED <<table, call, callback, history>>

\* ... and of the registration, which waits for every connection of it; then the context
\* is freed.
DestroyFrees(c) ==
  /\ quic[c].life = "closing" /\ quic[c].doomed = {} /\ quic[c].connection = 0
  /\ \A k \in Ids : connections[k].client = c => connections[k].state = "closed"
  /\ quic' = [quic EXCEPT ![c].life = "freed"]
  /\ UNCHANGED <<table, connections, native, call, callback, history, misused>>

-----------------------------------------------------------------------------
(* MsQuic callbacks: they begin while the sinks are attached, and end when they end *)

CallbackBegins(k, record) ==
  /\ connections[k].state = "started" /\ quic[connections[k].client].attached
  /\ callback[k].pc = "idle"
  /\ callback' = [callback EXCEPT ![k] = record]
CallbackEnds(k) == callback' = [callback EXCEPT ![k] = NoCallback]

\* PEER_STREAM_STARTED up to the unlock: the sink and its client context are copied.
PeerStreamStarted(k, q) ==
  /\ native[q].state = "unused"
  /\ native' = [native EXCEPT ![q] = [state |-> "open", connection |-> k]]
  /\ CallbackBegins(k, [NoCallback EXCEPT !.pc = "accept", !.native = q,
                                          !.address = quic[connections[k].client].address])
  /\ UNCHANGED <<table, quic, connections, call, history, misused>>

\* The session wt_accept_peer_stream_from_msquic finds first: the list has new handles
\* in front.
SessionsOf(c) == {s \in Ids : Found(s, "session") /\ handles[s].client = c}
Newest(S) == CHOOSE s \in S : \A r \in S : r <= s

\* The clients at the address the callback copied: one at most.
ClientsAt(a) == {c \in Ids : Found(c, "client") /\ quic[c].address = a}

\* Attaches the stream to whatever client it meets.
wt_accept_peer_stream_AnyClient(k) ==
  /\ callback[k].pc = "accept"
  /\ \/ /\ next \in Ids
        /\ \E d \in Ids : Found(d, "client") /\ Allocate(StreamHandle(d, 0))
        /\ callback' = [callback EXCEPT ![k].pc = "list", ![k].id = next]
        /\ known' = known \cup {next}
        /\ UNCHANGED abandoned
     \/ /\ abandoned' = abandoned \cup {callback[k].native}
        /\ CallbackEnds(k)
        /\ UNCHANGED table
  /\ UNCHANGED <<quic, connections, native, call, overlapped, misused>>

\* wt_accept_peer_stream_from_msquic: without a client at the address or a session the
\* stream is refused; when the event is, the handle stays.
wt_accept_peer_stream(k) ==
  /\ callback[k].pc = "accept"
  /\ \/ \E d \in ClientsAt(callback[k].address) :
          /\ SessionsOf(d) # {}
          /\ Allocate(StreamHandle(d, Newest(SessionsOf(d))))
          /\ \/ /\ MayPush(d)
                /\ callback' = [callback EXCEPT ![k].pc = "list", ![k].id = next]
                /\ known' = known \cup {next}
                /\ UNCHANGED abandoned
             \/ /\ abandoned' = abandoned \cup {callback[k].native}
                /\ CallbackEnds(k)
                /\ UNCHANGED known
     \/ /\ \A d \in ClientsAt(callback[k].address) : SessionsOf(d) = {}
        /\ abandoned' = abandoned \cup {callback[k].native}
        /\ CallbackEnds(k)
        /\ UNCHANGED table
  /\ UNCHANGED <<quic, connections, native, call, overlapped, misused>>

\* wt_msquic_add_stream for a peer stream: its failure is ignored, and it may come
\* after a destroy took the list.
ListPeerStream(k, memory) ==
  LET q == callback[k].native
      c == connections[k].client IN
  /\ callback[k].pc = "list"
  /\ Uses(Freed(c))
  /\ quic' = IF memory THEN [quic EXCEPT ![c].streams = @ \cup {Entry(callback[k].id, q)}] ELSE quic
  /\ abandoned' = IF memory /\ quic[c].life # "closing" THEN abandoned ELSE abandoned \cup {q}
  /\ CallbackEnds(k)
  /\ UNCHANGED <<table, connections, native, call, overlapped>>

\* RECEIVE and SHUTDOWN_COMPLETE of a stream, up to the first unlock.
StreamEvent(k, q, complete) ==
  /\ native[q] = [state |-> "open", connection |-> k]
  /\ CallbackBegins(k, [NoCallback EXCEPT !.pc = IF complete THEN "complete" ELSE "data",
                                          !.native = q])
  /\ UNCHANGED <<table, quic, connections, native, call, history, misused>>

\* Under the lock again the stream is looked up, and once complete taken off the list:
\* nothing closes it any more. A stream on no list stays as it is. The sinks may have been
\* detached in the meantime.
LookUp(k) ==
  LET c == connections[k].client
      q == callback[k].native
      found == EntriesAt(c, q) IN
  /\ callback[k].pc \in {"data", "complete"}
  /\ Uses(Freed(c))
  /\ IF callback[k].pc = "complete" /\ found # {}
     THEN /\ quic' = [quic EXCEPT ![c].streams = @ \ found]
          /\ native' = [native EXCEPT ![q].state = "over"]
     ELSE UNCHANGED <<quic, native>>
  /\ IF found # {} /\ quic[c].attached THEN callback' = [callback EXCEPT ![k].pc = "sink"]
     ELSE CallbackEnds(k)
  /\ UNCHANGED <<table, connections, call, history>>

\* The sink of data or of the event: it looks the handle up by its id and touches
\* nothing of the client it was copied from.
SinkReturns(k) ==
  /\ callback[k].pc = "sink"
  /\ CallbackEnds(k)
  /\ UNCHANGED <<table, quic, connections, native, call, history, misused>>

-----------------------------------------------------------------------------
ClientCalls(t) ==
  \/ wt_client_create(t)
  \/ \E c \in Ids : wt_client_connect(t, c) \/ wt_client_shutdown(t, c) \/ ReleaseClient(t, c)
  \/ ConnectRefused(t) \/ ConnectTakes(t) \/ ConnectReplaces(t) \/ ConnectOpens(t)
  \/ ConnectStarts(t) \/ ConnectFails(t) \/ ConnectForgets(t)
  \/ Undo(t)
  \/ Shutdown(t) \/ ShutdownReturns(t) \/ FreeContext(t)
  \/ \E q \in NativeStreams : Abort(t, q)

SessionCalls(t) ==
  \/ \E s \in Ids : \/ wt_session_open_bidi_stream(t, s)
                    \/ wt_session_send_datagram(t, s)
                    \/ wt_session_close(t, s)
                    \/ ReleaseSession(t, s)
  \/ FindConnection(t) \/ StreamOpen(t) \/ Unlist(t)
  \/ CopyConnection(t) \/ SendDatagram(t)
  \/ \E ok \in BOOLEAN : ListStream(t, ok) \/ SendPrefix(t, ok)

StreamCalls(t) ==
  \/ \E i \in Ids : wt_stream_write(t, i) \/ ReleaseStream(t, i)
  \/ FindToSend(t) \/ Send(t) \/ Delist(t) \/ StreamClose(t)

Destroys(c) ==
  \/ DestroyTakes(c) \/ DestroyDisconnects(c) \/ DestroyFrees(c)
  \/ \E q \in NativeStreams : DestroyCloses(c, q)

Callbacks(k) ==
  \/ \E q \in NativeStreams : \/ PeerStreamStarted(k, q)
                              \/ \E complete \in BOOLEAN : StreamEvent(k, q, complete)
  \/ wt_accept_peer_stream(k) \/ LookUp(k) \/ SinkReturns(k)
  \/ \E memory \in BOOLEAN : ListPeerStream(k, memory)

\* Once freed memory was used anything may happen: the model ends there.
Next ==
  /\ ~misused
  /\ \/ \E t \in Threads : ClientCalls(t) \/ SessionCalls(t) \/ StreamCalls(t)
     \/ \E i \in Ids : Destroys(i) \/ Callbacks(i)

Spec == Init /\ [][Next]_vars

-----------------------------------------------------------------------------
Handles == [kind : {"none", "client", "session", "stream"},
            client : 0 .. MaxHandles, session : 0 .. MaxHandles]
Entries == [id : Ids, native : NativeStreams]
Quics == [life : {"none", "live", "destroying", "closing", "freed"},
          attached : BOOLEAN, closing : BOOLEAN,
          connection : 0 .. MaxHandles,
          address : Addresses \cup {NoNative},
          streams : SUBSET Entries, doomed : SUBSET NativeStreams]
\* An open connection has a client.
Connections == [state : {"none", "closed"}, client : 0 .. MaxHandles]
               \cup [state : {"open", "started"}, client : Ids]
Natives == [state : {"unused", "open", "cut", "over", "closed"}, connection : 0 .. MaxHandles]
Calls == [pc : {"idle", "connect", "replace", "dial", "start", "forget", "undo",
                "open", "opening", "list", "prefix", "unlist", "send", "sending",
                "datagram", "datagram out", "shutdown", "released", "abort", "abort released",
                "closing", "close"},
          client : 0 .. MaxHandles, id : 0 .. MaxHandles, connection : 0 .. MaxHandles,
          native : NativeStreams \cup {NoNative}, rest : SUBSET NativeStreams]
CallbackStates == [pc : {"idle", "accept", "list", "data", "complete", "sink"},
              native : NativeStreams \cup {NoNative}, id : 0 .. MaxHandles,
              address : Addresses \cup {NoNative}]

\* The tables, contexts, calls and callbacks hold what their fields may hold.
TypeOK ==
  /\ next \in 1 .. MaxHandles + 1
  /\ known \in SUBSET Ids
  /\ handles \in [Ids -> Handles]
  /\ quic \in [Ids -> Quics]
  /\ connections \in [Ids -> Connections]
  /\ native \in [NativeStreams -> Natives]
  /\ call \in [Threads -> Calls]
  /\ callback \in [Ids -> CallbackStates]
  /\ abandoned \in SUBSET NativeStreams
  /\ overlapped \in BOOLEAN
  /\ misused \in BOOLEAN

\* Children go with their client, and are only made under one: wt_release removes them
\* under the lock under which everything that allocates a child looks the client up.
ChildrenHaveClient ==
  \A i \in Ids : handles[i].kind \in {"session", "stream"} => Found(handles[i].client, "client")

\* Freed contexts and closed streams are not used, nor closed again, by callbacks in
\* flight, detached destroys or calls, unless the application released or shut something
\* down in the middle of another call on it.
NothingUsedAfterItsEnd == misused => overlapped

\* The release of a handle whose call failed never closes a stream: it holds the
\* process-wide lock, and StreamClose waits for callbacks that wait for that lock. Not
\* even when the application releases and shuts down in the middle of the call.
NoCloseUnderLock ==
  \A t \in Threads : Running(t, "undo") => EntriesOf(call[t].client, call[t].id) = {}

\* When the destroy of a client is through, MsQuic has back every open stream of it that
\* was not abandoned; what completed by itself is never closed either. Three things are
\* left out: states after the application overlapped its own calls; peer streams that were
\* refused or could not be listed, which nobody owns; and a peer stream announced before and
\* listed after the destroy took the list, which the application owns and nothing closes.
DestroyClosesEverything ==
  ~overlapped =>
    \A q \in NativeStreams :
      /\ native[q].state \in {"open", "cut"}
      /\ Freed(connections[native[q].connection].client)
      => q \in abandoned

\* A peer stream is attached to a session of the client it was opened to, as long as
\* that client lives: the callback copied the address of its context, and after a
\* release a new client may live there and get the stream.
PeerStreamsStayWithClient ==
  \A c \in Ids : Found(c, "client") =>
    \A e \in quic[c].streams : Found(e.id, "stream") => handles[e.id].client = c
=============================================================================
