# Verification of webtransport-csharp

A WebTransport client for .NET: managed classes (`src/src/WebTransport.Client`)
over a C library (`src/native/webtransport_native`) over MsQuic. The modules here
are read from that code; where a doc or a test says something else, a run that
ends in a violation shows it.

## The system

| Part | State | Operations | Talks to |
|---|---|---|---|
| Public API (`WebTransportClient`, `Session`, `Stream`) | the backend, disposed flags | connect, dispose, forwarders | adapter, backends |
| Adapter (`NativeBackendAdapter`) | the native client, the coordinator | `ConnectAsync`, `TryPollEvent`, `DisposeAsync` | coordinator, P/Invoke |
| Session and stream backends | native id, `_disposed` | receive, accept, read loops; close, dispose; send, open, write forwarders | coordinator, P/Invoke |
| Coordinator (`NativeEventCoordinator`) | five waiter tables, two queues of peer streams, three sets of what has happened, terminal exception | pump, `Register*`, `TryDequeue*`, cancellation, dispose | polled events, callers |
| Native ABI (`webtransport_native.c`) | handle table; per client an event array; per session a datagram list; per stream a receive buffer; one process-wide lock | create, connect, poll, read, receive, write, close, shutdown, release | MsQuic binding |
| MsQuic binding (`wt_msquic.c`) | connection, request stream, sinks, stream list, handshake flags; a lock per client | callbacks, open, write, shutdown, detached destroy | MsQuic, ABI sinks |
| Codecs (`wt_http3.c`, `wt_qpack.c`, `wt_datagrams.c`, `wt_url.c`) | none | encode, decode | binding |

Data flows up in two ways at once. A MsQuic worker thread stores data in a native
queue and pushes an event, under the process lock. The managed pump polls events
every 10 ms at the latest and completes the waiters of the table the event belongs
to. Callers look into the native queue first, register a waiter, look again, and
only then wait. Whatever is wrong between "stored" and "announced", "looked" and
"registered", or "remembered" and "completed" is a lost wakeup, and no test
provokes it reliably.

What is hard here:

* **Interleaving.** MsQuic workers, the pump, any number of callers, the thread
  that cancels a token and the thread that disposes meet at two native locks and
  one managed lock, and the code gives each of them up between steps that belong together.
* **Limits.** 4096 events, 1 MiB per stream, 1024 datagrams or 4 MiB, 1024
  unaccepted streams: each is refused or dropped differently, and not every caller looks.
* **Handshake.** The id of the request stream, the answer in any pieces, a refusal, a
  datagram and the next connect of the same client reach one context in any order,
  and the context clears what the last connect left in parts.
* **Ends.** Peer close, transport error, session close, session dispose, client
  dispose, connect timeout and cancellation all end waits, some only some of them.
* **Arithmetic.** Two arrays with a moving start, compaction, growth and a clamp;
  a list with two pointers and two counters.

`PROJECT.json` lists every hazard at its line with the properties aimed at it.

### What makes each part correct

* Event array: in bounds, no uninitialized event delivered, FIFO, refuses only when full.
* Receive buffer: in bounds, every byte once and in order while nothing was refused.
* Datagram list: list, tail and counters agree; limits hold; FIFO; nothing leaks.
* Coordinator: nobody sleeps on what already happened; every pending waiter is in
  somebody's hands; a peer stream has one owner; dispose and cancellation wake everybody.
* Managed client: no lost wakeup through the native queues; a failed connect leaves
  no session; close and dispose end the calls they should.
* Native handles: children go with their client; no freed context, closed stream or
  closed connection is used; no stream is closed under the process lock; a destroy
  closes every stream it should; a peer stream stays with its client.
* Binding and codecs: the peer reads what was meant; the answer is read the same in
  whatever pieces it comes; an accepted session is announced, once, on an answer to its
  own request; datagrams reach the session they are for.

## The modules

### `BoundedQueue`, `EventQueue`

`EventQueue` is the pending-event array of `wt_client_context`: `slots`, `offset`,
`count`, `capacity` are its fields, `phase` the `closing` flag and the handle's
existence, `reply` what a call returned. `wt_push_event`, `wt_poll_event`,
`wt_client_shutdown` and `wt_release` are one action each, because each is one
section of the process lock; `realloc` may fail and returns uninitialized cells.
`BoundedQueue` says what users of the array rely on, and `EventQueue` implements it
with `queue <- Pending`, the events of the window.

### `StreamBuffer`

The receive buffer of one stream: `buffer`, `length`, `offset` are the fields of
`wt_stream_context`, with the array as long as the last `realloc` made it. The
append slides the unread bytes before it checks anything, so a refused append has
moved them too. `arrived`, `delivered` and `refused` are histories. `alive`
becoming false is the release of the handle. The status the append returns is
free among those a failing push can give.

### `DatagramQueue`

The linked list of `wt_session_context`, as a heap of nodes with `next` pointers,
`head`, `tail`, `count` and `bytes`. `arrived`, `queued`, `received` are histories.

### `Coordinator`

`NativeEventCoordinator`, one action for one `lock (_gate)` section or one step
between two of them.

| Code | Model |
|---|---|
| the five waiter dictionaries | `waiting`, by table and id |
| `NativeEventWaiter` | `task`, `callback`, `token` of the caller's name; a name is reused once its waiter is disposed and nobody holds it |
| `_connectedSessions`, `_closedSessions`, `_closedStreams` | `connected`, `closedSessions`, `closedStreams` |
| `_bidiStreams`, `_uniStreams` | `incoming` |
| `PumpAsync`, `Route` | `pumpPc`, `ev`, `todo`, `taken`: poll, mark under the lock, take a list under the lock, complete its waiters one by one outside |
| `CompleteAll` | `PumpDrain`, `DisposeDrain`: set the terminal exception and take everything |
| `EnqueueOpenedStream` | `PumpEnqueue`, `PumpRelease` |
| cancellation callback | `CancelRemove` under the lock, `CancelComplete` outside |
| `DisposeAsync` | `DisposeBegin`, `DisposeDrain`, `DisposeComplete`, `DisposeJoin` |

A token cancelled before registration runs its callback inside the constructor,
before `AddWaiter`, so the waiter enters the table already cancelled; `Register`
does that. `DisposeWaiter` cannot pass a callback that is half done, as
`CancellationTokenRegistration.Dispose` waits for it. What polls return is the
constant `Polled`, any set of native events, in any order.

### `ManagedClient`

Extends `Coordinator` with the loops of the callers (`pc`, `result`), the native
library as the managed side sees it (`events`, `datagrams`, `buffered`, `handle`,
`closing`), the peer and the connection (`connection`, `answered`, `sent`,
`arrived`, `ended`, `peerOpened`), the sinks of the binding, and the steps of
`CloseAsync`, session `DisposeAsync` and adapter `DisposeAsync` (`closePc`,
`adapterPc`). A call is *try*, *register*, *retry*, *wait*, and what follows; a
read checks `IsStreamClosed` in a step of its own after each empty read, because
the code does.

| Code | Model |
|---|---|
| `WebTransportClient.ConnectAsync` looks at `_disposed`, without the lock `DisposeAsync` sets it under | `Start` of a connect needs `~ClientDisposed`; the client may be disposed between that and the next step |
| `NativeBackendAdapter.ConnectAsync` | `Connect` (token, `wt_client_connect`: the session handle and the connection begin here), `RegisterCall`, `Resume`, `ConnectTimeout`, `Leave`, `Abandon` |
| `ReceiveDatagramAsync`, `Accept*StreamAsync`, `ReadAsync` | `ReceiveTry`, `AcceptTry`, `ReadTry`, `ReadChecksClosed`, `RegisterCall`, `Resume`, `Leave`, `ThrowFrom` |
| session `CloseAsync` and `DisposeAsync` | `CloseBegin`, `CloseShutdown`, `CloseRelease` |
| client and adapter `DisposeAsync` | `AdapterShutdown`, `AdapterDetach`, `AdapterDispose`, `AdapterRelease` |
| callbacks of the binding and the ABI functions they call | `NativeNext`, one action per event |

Abstractions: data is counted in pieces; one session per client, as the native
library assumes; a MsQuic callback checks its sink and calls it in one step; the
control and CONNECT sends of a handshake succeed; native queues do not reach
their own limits (`StreamBuffer` and `DatagramQueue` are about those), and with them the
ERROR that a refused datagram pushes (`wt_msquic.c:866-876`) is left out.

### `NativeHandles`

Who may still use what in the native library. `next` and `handles` are
`g_next_handle_id` and `g_handles`; `quic[c]` is the `wt_msquic_context` of client
`c` together with its `wt_client_context` (`attached`: its sinks are set, `closing`,
`connection`, `address`: where the client context lies, `streams`: its stream list,
`doomed`: what its destroy took and has still to close); `connections` and `native`
are MsQuic's own objects. `call[t]` is the ABI call thread `t` is in and what that
call copied before it gave up a lock, `callback[k]` the one MsQuic callback running
for connection `k`.

| Code | Model |
|---|---|
| `wt_client_connect`, `wt_msquic_connect` | `wt_client_connect`, then `ConnectTakes`, `ConnectReplaces`, `ConnectOpens`, `ConnectStarts`, or `ConnectRefused`, `ConnectFails`, `ConnectForgets`, and `Undo` |
| `wt_session_open_bidi_stream`, `wt_msquic_open_bidi_stream` | the action of that name, `FindConnection`, `StreamOpen`, `ListStream`, `SendPrefix`, `Unlist`, `Undo` |
| write, finish, reset | `wt_stream_write`, `FindToSend`, `Send` |
| `wt_session_send_datagram` | the action of that name, `CopyConnection`, `SendDatagram` |
| `wt_client_shutdown`, `wt_session_close`, `wt_msquic_shutdown` | the actions of those names, `Shutdown`, `Abort` for each stream of the copy, `ShutdownReturns` |
| `wt_release` | `ReleaseSession`; `ReleaseStream`, `Delist`, `StreamClose`; `ReleaseClient`, `Shutdown`, `Abort`, `FreeContext` |
| `wt_msquic_context_destroy`, detached | `DestroyTakes`, `DestroyCloses`, `DestroyDisconnects`, `DestroyFrees` |
| peer stream callback | `PeerStreamStarted`, `wt_accept_peer_stream`, `ListPeerStream` |
| stream callbacks | `StreamEvent` (up to the first unlock), `LookUp`, `SinkReturns` |

Histories: `known` holds the ids the application can know; `abandoned` the peer
streams that were refused, not listed, or listed after a destroy took the list; `overlapped` says that the application released,
shut down or connected something in the middle of another call on it; `misused` says
that something freed or closed was used. The code leaves overlapping calls of one
client to the application, so `NothingUsedAfterItsEnd` is `misused => overlapped`:
callbacks and detached destroys, which the application cannot see, never cause it.
After a misuse behaviour is undefined and the model ends.

Abstractions: the handshake is left to `Handshake`, and with it the request and the
control stream and the configuration; memory fails only where a stream is listed; the
destroy thread starts; refused events are a choice and events are not kept
(`EventQueue` is about them); no call is made from a callback. `FreeContext` and
`DestroyTakes` include the ConnectionShutdown that comes before them on the same thread.

### `Codec`

The pure functions: varints, frames, settings, prefix integers, field lines, the
status, datagrams, URLs. Bytes are numbers and offsets count as in the code; a text that
is only copied and compared is a sequence of numbers that stand for its characters, so
lengths, where encodings change form, are real. The codecs are not checked one by one:
`Handshake` composes them, and its properties read what one side wrote with a reference
reader of RFC 9204, or with the code's own decoder.

### `Handshake`

`context` holds the fields of `wt_msquic_context` the handshake uses, `caller` the
thread in `wt_client_connect` and `wt_msquic_connect`, `callback[c]` what the callback
of connection `c` has still to do: an event handler is a list of steps, because the
code gives up the lock between them.

| Code | Model |
|---|---|
| `wt_client_connect`, `wt_msquic_connect` | `wt_client_connect` (the session id), `ConnectRefused`, `ConnectResets` (the locked section), `ConnectNames` (the authority, unlocked), `ConnectReplaces`, `ConnectOpens`, `ConnectStarts` |
| CONNECTED | `Connected`, then `OpenControl`, `SendSettings`, `OpenRequest`, `SendRequest`, `EmitError` |
| START_COMPLETE | `StreamStarted`, then `MarkReady`, `TryEmit` |
| RECEIVE on the request stream | `Received`, then `ProcessRequestStream`, `TryEmit`, `EmitError` |
| DATAGRAM_RECEIVED | `DatagramReceived`, then `DeliverDatagram`, `EmitError` |
| SHUTDOWN_INITIATED_BY_TRANSPORT or BY_PEER, SHUTDOWN_COMPLETE | `ConnectionEnds`, then `PushEvent`: it does not look at `closing` again |
| `wt_msquic_shutdown` | the action of that name |
| the server | `ServerAnswers`, `answer` |

Histories: `connected`, `failed`, `delivered` are the events pushed; `crossed` holds the
connects that began while the connection of an earlier one was still alive, whose late
callbacks the code mixes up with the new connect's (see *Smaller observations*).

Abstractions: memory and MsQuic fail wherever they may, with one outcome each; the
authority, URL and headers another thread is writing are read as the old or the new value,
never torn; a callback checks that the context has no control (or request) stream and opens
one in one step, so that two connections both past the check are left out; connects of one client do not overlap (`NativeHandles` lets them); callbacks
of a closing client, which do nothing, are left out; after a refused piece of an answer,
which ends the client, no more of it arrives; answers are whole frames, of which any
beginning may arrive; values from 2^31 on are not told apart (`Huge`), so of the eight
bytes of the widest integer the upper four are 0 (`ByteOf`); for the same reason the
headers of a connect take at most `LongHeaders` = 2147480000 bytes in the request, a
prefix integer at most five groups of seven bits (`GroupsFor`) and the port of an
authority at most five digits (`Decimal`).

## Runs

| Run | Question | Instance |
|---|---|---|
| `event_queue` | bounds, initialization, growth, FIFO refinement | capacities 1, 2, 4, clamp to 5; two events |
| `stream_buffer` | bounds and content of the receive buffer | buffer of 3, pieces of 0, 1, 2, 4 bytes over two values, failing memory |
| `datagram_queue` | list, counters, limits, order | five datagrams of length 0 to 2; three of them or four bytes fit |
| `coordinator` | sleepers, terminal state, nobody forgotten, owners of peer streams; dispose and cancellation wake everybody | an acceptor and a reader, two streams, a queue of one; five kinds of event that never run out: a peer stream, data, the end of a stream and of the session, a failed poll |
| `client_calls` | lost wakeups and double delivery | two receivers and a reader, two datagrams, two pieces, event queue of two |
| `client_connect` | outcome of a connect, the client implements the coordinator | a connect and an acceptor; rejection, timeout, cancellation, disconnect, dispose |
| `client_ends` | a close ends receives and accepts, a dispose every call; a disposed session was announced closed | an acceptor and a reader, close and dispose |
| `native_handles` | lifetimes of handles, contexts, streams and connections | two threads, four handles, two addresses, two streams |
| `handshake` | what is sent, how the answer is read, what is announced, whose datagrams | two connects after one whose URL is refused, the second with a long path; four answers (an unknown frame and acceptance, refusal, two bytes too long for the buffer, refusal and then acceptance) in every division into pieces; a datagram of the session's flow written in eight bytes, one of another flow, one with none; buffer of ten |
| `zero_means_end` | *violated*: a read returns 0 on an open stream, or before buffered data | |
| `connected_means_accepted` | *violated*: a refused session is announced | one connect, one answer: an indexed 404 |
| `stream_reliable` | *violated*: a full buffer loses bytes in the middle of a stream | memory never fails |

Why the bounds are enough. Each limit of the code is an explicit constant set so
low that the run is at it, over it and back below it: the ring wraps, compacts,
doubles and clamps within five events; a buffer of three takes pieces that fit,
just fit and do not; a queue of one stream drops on the second. Races are between
at most two callers of a table, the pump, one canceller, one closer and one
disposer, and two callers are interchangeable, hence the symmetry (used only
where no liveness is checked). `EventLimit` is 2 (1 where fairness is checked) so
that overflow happens; `NoLostWakeup` says nothing after an overflow, which is
hazard and not guarantee. `MaxDatagrams`, `MaxData`, `MaxArriving` only bound how
long the peer talks. The events of `coordinator` are those that take different ways
through the pump; ERROR ends the tables like a failed poll, and `client_connect` and the
proofs, which are for any set of events, cover the rest. In `handshake` the URLs, headers
and answers sit where an encoding changes form (a port with a leading zero that
must be written without, a path and headers longer than a prefix integer or a one-byte varint holds, a blank line,
a two-byte varint, a frame two bytes over the buffer: with all but its last byte the
buffer would be one over its limit), and two connects are the least that
can mix up their callbacks, or follow each other cleanly; headers the encoder refuses are
left to the proofs. Four handles are two clients one of which lives at the address
of the other, or a client, a session and two streams; two threads overlap any two
calls, next to the callbacks and the destroys. `RunsOut` cuts `native_handles` short
once calls overlapped: what is under way runs out and nothing new begins, as no
property says anything of such a state but `TypeOK`, `ChildrenHaveClient`,
`NoCloseUnderLock` and `PeerStreamsStayWithClient`, which are proved.

Deadlock is not checked where the peer and the application may stop for good;
`event_queue`, `stream_buffer` and `datagram_queue` check it: there a call is always
possible and always answered.

`client_ends` has no receiver: a receive takes the steps an accept takes but for the queue
it looks into, and a third caller makes the run too long.

Fairness. The thread pool runs the pump, a cancellation callback that has begun, a
call whose waiter completed, and a dispose or close that has begun; each is weakly
fair, since nothing else can disable it forever. `ClientFairness` has one condition for
each thread: the pump with its polls, a close, a dispose, each cancellation, each call. Nothing is assumed of the
peer, of the application (it may never call, cancel, close or dispose) or of the
connect timeout. `NativeHandles` has no fairness: it is about safety only.

Every property is checked against a plausible bug too: an operator named
`X_WhatIsWrong` next to `X` replaces it, and the property must fail.

## What the violations show

* `ZeroMeansEnd`: the event of data that one read took still wakes the next
  read, whose last `ReadStream` (`NativeStreamBackend.cs:55`) finds nothing and
  returns 0 while the stream is open; readers, the live tests among them, take 0 as the
  end. And an empty `ReadStream`, then data and `STREAM_CLOSED`, then `IsStreamClosed`
  (`NativeStreamBackend.cs:37-41`): the read reports the end over data.
* `ConnectedMeansAccepted`: the indexed `:status` entries of `wt_qpack.c:185-205` are not
  those of RFC 9204, so a server that refuses with an indexed 404 (index 27, read as
  206) or 304 is taken to have accepted, and `ConnectAsync` returns a session.
* `DeliversPrefix`: `wt_msquic.c:637` ignores the append's status; once a reader is
  1 MiB behind, bytes vanish and later ones follow.

Smaller observations that are behaviour, not violations: a read that waits when
its session is closed stays waiting until the client is disposed (`CloseEndsLoops` speaks
of receives and accepts only for that reason, `DisposeEndsCalls` of every call); a peer
stream is announced before it is listed (`wt_msquic.c:851`), and when a destroy takes the
list in between (`wt_msquic.c:1468-1489`) nothing closes it, for which
`DestroyClosesEverything` makes an exception, as for peer streams that were refused or
could not be listed; a new client at the address of a released one may get a peer stream
of the old connection, as the callback finds its client by address
(`webtransport_native.c:352`; `PeerStreamsStayWithClient` protects living clients only);
a second `DisposeAsync` of the coordinator runs `CompleteAll` again, without effect
on waiters, as none can register; `DisposeAsync` may return before the calls it
woke have resumed; a stream that completes by itself is never closed
(`wt_msquic.c:617-632`); of two overlapping connects of one client the first
connection is never closed, and the close of the registration waits for it.

Of the handshake: the session id is replaced before the flags of the last connect are
cleared, so a late answer on the old connection announces the new session, and the old
connection's settings and request may be sent for the new URL, and a datagram on it goes
to the new session (`webtransport_native.c:660`, then `wt_msquic.c:226-246`). No document
says what a connect over a living connection does, so `ConnectedOnce` and
`DatagramsAreOurs` leave these connects out, by `crossed`, and `PeerReadsWhatWasMeant` the
requests sent once a later connect has begun, by `attempt = c`; a client that connects again after its request stream was opened
never sends settings or CONNECT again, and waits for its timeout; an interim (1xx)
response or trailers after the answer raise ERROR, which ends the client; so does a
datagram before the request stream has its id, or of another flow; a Huffman-coded status
is not understood; the settings always announce datagrams, whatever the options say;
the peer's settings are never parsed, and its control and QPACK streams are announced to
the application like any other stream; an IPv6 authority is cut at its first colon.

## Proofs

`tlapm` proves, for all values of the constants:

* `EventQueue_proofs`: `IInv == TypeOK /\ WindowInBounds /\ WindowInitialized` is
  inductive (a write in bounds needs the bounds; initialized cells need the
  write in bounds). From it the bounds, the growth property and the refinement of
  `BoundedQueue`: a push maps to `Accept` or `Refuse`, compaction and growth are
  invisible because `Pending` is unchanged by them. Assumes
  `1 <= InitialCapacity <= MaxPending` and that `NoEvent` is no event.
* `StreamBuffer_proofs`: `IInv == TypeOK /\ UnreadInBounds /\ NothingLostUnlessRefused`
  is inductive; content is carried through the memmove by one lemma per operation
  that says what `Unread` becomes.
* `NativeHandles_proofs`: `IInv` conjoins types, ids handed out in order
  (`NothingAhead`), clients that name themselves (a release must take nobody else's
  children with it), `ChildrenHaveClient`, that a call which may have to undo its
  allocation holds the id of a child (`UndoesChildren`: an undo that removed a
  client would orphan its children), and what calls and callbacks hold. One lemma
  per kind of change of the table, one step per action. It follows that no session
  or stream handle outlives its client. Assumes that `MaxHandles` is a natural.
  On top of that, `NamesInv`, about ids, addresses and
  connections that calls and callbacks go on with after an unlock. A callback attaches a
  peer stream through the address of a context it copied, and a call lists a stream after
  its id became visible, so `PeerStreamsStayWithClient` needs that live clients have
  addresses of their own (`OneAddress`), that whoever is about to attach holds the address
  of the client its connection was opened for (`AttachesToOwn`), that clients released do not come back
  (`ClientsOfCalls`) and that connections were opened (`ConnectionsOfClients`).
  `NoCloseUnderLock` needs that an id of a call that is not through is known to nobody
  else (`InFlight`) and that what is listed under such an id is the stream of that very
  call (`ListedIds`). None of this depends on what the application overlaps.
* `NativeHandlesLife_proofs`: what stays alive as long as the application overlaps no
  release, shutdown or connect with another call of the same client. `LifeInv` is
  `~overlapped => ~misused /\ Life`, and `Life` says who may use what.
  `CallsAreServed`: a call works on a live client, and a release has it to itself.
  `ConnectionsInUse`: the connection in a context and those calls hold copies of are the
  client's own, are closed only by the connect that is about to take them out, and nobody
  else is about to close them; a freed client has none open. `StreamsInUse`: every stream
  that MsQuic has is held by a list, a call, a callback, a copy or a destroy, who agree on
  its client and its id (`HeldByCalls`, `HeldByCallbacks`, `HeldByLists`, `HeldByDestroys`);
  one that a call is about to close is in no other hands, as the call took it off the list
  under the lock or opened it itself, nor is a callback on its way to take it off
  (`CompletesOpen`: MsQuic's close of a stream or a connection waits for its callback); what a call sends on or aborts after the lock is
  open and no call is about to close it (`InUse`); and one in nobody's hands was closed,
  has completed, or is a peer stream that was never listed or listed too late
  (`NothingForgotten`). No part is inductive alone: a
  copy of the list may be aborted because nobody can be closing, which rests on calls not
  overlapping, which rests on the release. Callbacks and detached destroys run at any time all the same:
  that they never meet a call's stream or connection after its end is what is proved.
  The steps are taken in groups; frame lemmas say of each part of `Life` what a step must
  leave alone for it to stay, and each group proves only what it changes. From `LifeInv`
  follow `NothingUsedAfterItsEnd` and `DestroyClosesEverything`, which both say nothing of
  states after such an overlap, nor the second of the peer streams just named.
* `DatagramQueue_proofs`: the list is a heap of nodes, so the proof goes through two
  witnesses, the nodes in the order of the walk from `head` and what the rest of the
  walk weighs at each. `IInv` says that the walk visits every allocated node once, ends at `tail`, is as long as `count` and as heavy as
  `bytes`, and that its payloads are what was queued and not yet received. The walk is
  characterised without induction, by its least counterexample. Assumes that the limits
  are naturals.
* `ManagedClient_proofs`, first the coordinator: `IInv` conjoins types, the shape of the
  pump (what `ev`,
  `todo`, `taken`, `dropped` are in each `pumpPc`), ownership of waiters
  (`ListsAreDisjoint` with the relation between `task`, `callback` and tables),
  `NoSleeperOnPastEvent`, `NoSleeperAfterTerminal`, `PendingIsHeld` and
  `StreamHasOneOwner`. None of the last four is inductive alone: a drain must know
  that tables stay empty once refused, a release that the dropped stream is in
  nobody else's hands.
  Then the whole client: every step of the client is a step of the coordinator or
  leaves it alone, using that `events` only ever holds native events. So the
  theorems about the coordinator hold of the whole client. On top of that, `CallsInv`. Its parts and what needs them:
  `Phases` says at which places a connect has a session handle and what has to be true
  when a live session has none (a handle goes only by closing, an overflow or detached
  sinks), without which data could be stored and not announced; `DataAnnounced` and
  `EndAnnounced` follow an event from its push through the queue to the pump and the table,
  `NoLostWakeup` is their consequence for sleepers, with the coordinator's
  `NoSleeperOnPastEvent` for the ends; `AnswerKnown` says that before the answer nothing
  on its way (queue, pump, tables, lists, tasks) can complete a connect but with a failure;
  `WaiterFree` that a waiter's name is free when its loop comes round; `DatagramsInOrder`
  and `SharedOut` that what one call has nobody else has or can get, the latter with the
  coordinator's `StreamHasOneOwner`; `CloseAnnounced` what a close has told before it
  shuts down. `CallsInv` is inductive relative to the coordinator's `IInv`.
  Assumes one connect per session, as `ClientAssumption` says.
* `Codec_proofs`: what the readers and writers of `Codec` do, for any bytes. A recursive
  function (and a fold, which is one) is a `CHOOSE`, of which nothing is known before such a
  function is shown to exist, so each is built by well-founded recursion on what is left of
  the data (`ScanExists`, `FoldedExists`, `JoinsExists`). Then what reading does: a frame reads
  the same wherever it lies and whatever follows (`FrameInWindow`), so a scan that begins where
  a frame ended reads the frames that are whole and stops where the next begins
  (`ScanOfFrames`), and reading what was left with the next piece is reading them together
  (`ReadOn`). An integer that reads as a flow was written in one of its legal widths
  (`FlowIsLegal`). And what is written can be read: a varint, a frame (`FrameThere`), a prefix
  integer of any prefix and mask, in one byte or with groups (`PrefixedThere`), a text and a
  field line are read back, with their end, wherever they lie; the digits of a port make the
  port (`NumberOfDecimal`); what the parser takes of a URL are its parts (`UrlIs`); and the
  settings are read by the client's own parser as those WebTransport needs (`SettingsRead`).
* `Handshake_proofs`: the handshake for any URLs, headers and datagrams, any answers of whole
  frames, any limit of the buffer and every division into pieces. First what the client reads.
  `Inv` ties what the context knows to what it has seen of the answer (`Seen`: what
  arrived, but for the piece a callback still holds). `Planned` and `Lives` say what a
  callback may still have to do and that it runs only while its connection does; `Streams`
  that the piece in a callback is the one that follows what was seen; `Pieces` is
  `PiecesDoNotMatter` for the followed connection, and `Heard` keeps it for a connection that
  is no longer followed; `Announced` and `Reported` give `VerdictIsAnnounced`. For a connect
  that is not crossed, `Uncrossed` says that no other connection is alive, that the flags of
  the last connect are gone before its own connection can set them, and that a second
  announcement finds `emitted`. `ConnectedOnce` follows from `Uncrossed` and `Heard`, and
  `DatagramsAreOurs` from `Uncrossed` and `Flow`. Assumes that answers are whole frames
  (whatever bytes a server sends are the beginning of some, and how many arrive is open),
  that the stream id needs 31 bits at most, and of the headers that they have the form of
  lines and do not outgrow `LongHeaders`.
  Then what the client sends. A field section that consists of fields is read by RFC 9204 as
  those fields: the reader is a recursive function, and its unfolding from the end of each
  field to the next is the walk over what `FlattenSeq` joined. Every valid URL is
  named by the authority and the path made from it (`NamesIt`: a leading zero or a written 443
  goes, the host, the number of the port and the path stay), and with the lines of the caller
  every request that is not refused says what was meant (`RequestIsMeant`). Which URL a
  request is made of is a matter of interleaving, as one thread parses, names and connects and
  another opens the stream and sends: `Prepared` says that a URL and an authority
  in the context were parsed, that no connection or request stream is there without them, and
  that whatever belongs to the latest connect finds those of the latest connect. `SentInv` adds
  the types of what was sent (`SentTyped`); it is inductive relative to `Inv`, and
  `HandshakeTypeOK` and the action property `PeerReadsWhatWasMeant` follow from both.

Only model-checked: everything under fairness (`DisposeReturns`, `CancelWakes`,
`CloseEndsLoops`, `DisposeEndsCalls`), which the prover does not do. Every safety invariant,
action property and refinement of the passing runs is a theorem. The three claims that runs
show to be violated are not.

## Plan

Done, the core first: `EventQueue` with `BoundedQueue`, `Coordinator`, `ManagedClient` on
top of it, `StreamBuffer`, `DatagramQueue`, `NativeHandles`, `Codec`, `Handshake` on top
of it, and the proofs above. Left: a composition of `Handshake` with `ManagedClient`, for
two connects of one client seen from `ConnectAsync`: the terminal exception of the first is
what the second meets.

Not modelled and not planned: P/Invoke marshalling, error texts, the managed side of header
serialization (the native side is in `Codec`), TLS options, `wt_streams.c` (whose functions
only answer that they are not implemented), `wt_qpack_encode_headers` and `wt_datagrams_send`
(nothing calls them), the test server, samples, packaging and build scripts.
They keep no state the properties could be about.
