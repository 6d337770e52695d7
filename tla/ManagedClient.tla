---------------------------- MODULE ManagedClient ----------------------------
(***************************************************************************)
(* The managed client at work on one session: the loops of the callers     *)
(* (NativeSessionBackend, NativeStreamBackend, NativeBackendAdapter) on    *)
(* top of the coordinator, the native queues they try before they wait,    *)
(* and close, release and dispose running against them.                    *)
(*                                                                         *)
(* The native library is seen through its ABI: a queue of events, the      *)
(* datagrams of the session and the buffered bytes of each stream, each    *)
(* changed in one section of the native lock together with the event that  *)
(* announces the change.  A native callback checks its sink and calls it   *)
(* in one step here; EventQueue.tla is the queue in detail.                *)
(***************************************************************************)
EXTENDS Coordinator

CONSTANTS
  Session,         \* the session of this client
  EventLimit,      \* WT_MAX_PENDING_EVENTS
  MaxDatagrams,    \* bound: datagrams the peer sends
  MaxData,         \* bound: pieces of data the peer sends on each stream
  ReadLength,      \* pieces of data a reader's buffer holds
  PeerDirections,  \* bound: the directions of the streams the peer opens
  Disturbances     \* bound: what may get in the way of the calls of an instance

Connectors == {w \in Waiters : KeyOf[w] = <<"connected", Session>>}
Receivers == {w \in Waiters : KeyOf[w] = <<"datagram", Session>>}
Acceptors == {w \in Waiters : KeyOf[w] \in IncomingKeys}
Readers == {w \in Waiters : KeyOf[w] \in StreamKeys}
StreamOf(w) == KeyOf[w][2]

\* Each connect makes a session of its own, and this is the client of one session.
ASSUME ClientAssumption ==
  /\ \A v, w \in Connectors : v = w
  /\ Sessions = {Session}
  /\ Polled = NativeEvents
  /\ EventLimit \in Nat \ {0}
  /\ MaxDatagrams \in Nat /\ MaxData \in Nat
  /\ ReadLength \in Nat \ {0}
  /\ PeerDirections \subseteq Directions
  /\ Disturbances \subseteq {"rejection", "timeout", "cancellation", "disconnect", "close", "dispose"}

VARIABLES
  pc,              \* where each call is
  result,          \* what each call returned or threw
  events,          \* the client's pending native events
  closing,         \* the native client's closing flag: pushes are refused
  sinks,           \* the MsQuic callbacks still have their sinks
  connection,      \* the QUIC connection: "none", "new", "up", "ending", "over"
  answered,        \* the peer's answer to CONNECT: "none", "accepted", "rejected"
  datagrams,       \* the session's native datagram queue
  sent,            \* datagrams the peer has sent
  buffered,        \* data in each stream's native buffer
  arrived,         \* data that has arrived on each stream
  ended,           \* streams whose STREAM_CLOSED was emitted
  peerOpened,      \* peer streams announced by the native library
  overflow,        \* history: an event was refused because the queue was full
  handle,          \* the native session handle is there
  sessionDisposed, \* NativeSessionBackend._disposed
  closePc,         \* where the call to CloseAsync or DisposeAsync of the session is
  adapterPc        \* where NativeBackendAdapter.DisposeAsync is

callVars == <<pc, result>>
eventVars == <<events, overflow>>
peerVars == <<connection, answered, sent, arrived, ended, peerOpened>>
queueVars == <<datagrams, buffered>>
endVars == <<closing, sinks, handle, sessionDisposed, closePc, adapterPc>>
mvars == <<callVars, eventVars, peerVars, queueVars, endVars>>
vars == <<cvars, mvars>>

NoResult == <<"none">>
Got(value) == <<"got", value>>
Failure(how) == <<how>>

ClientInit ==
  /\ Init
  /\ pc = [w \in Waiters |-> "idle"]
  /\ result = [w \in Waiters |-> NoResult]
  /\ events = <<>> /\ overflow = FALSE
  /\ closing = FALSE /\ sinks = TRUE
  /\ connection = "none" /\ answered = "none"
  /\ datagrams = <<>> /\ sent = 0
  /\ buffered = [s \in Streams |-> 0]
  /\ arrived = [s \in Streams |-> 0]
  /\ ended = {} /\ peerOpened = {}
  /\ handle = FALSE /\ sessionDisposed = FALSE
  /\ closePc = "idle" /\ adapterPc = "idle"

\* ConnectAsync handed the session to the application.
SessionUp == \E w \in Connectors : result[w] = Got(Session)

-----------------------------------------------------------------------------
(* The native library *)

CanPush == ~closing /\ Len(events) < EventLimit

(* An operator named after a definition, with a suffix, is that definition  *)
(* with a plausible bug: the properties must notice it.                     *)

\* Queues past the limit.
Push_Unlimited(e) == events' = Append(events, e) /\ UNCHANGED overflow

\* wt_push_event: refused when closing or full, and the callbacks ignore that.
Push(e) ==
  /\ events' = IF CanPush THEN Append(events, e) ELSE events
  /\ overflow' = (overflow \/ (~closing /\ ~CanPush))

SessionEvent(t) == [type |-> t, session |-> Session]

\* QUIC_CONNECTION_EVENT_CONNECTED, which also sends CONNECT.
HandshakeCompletes ==
  /\ sinks /\ connection = "new"
  /\ connection' = "up"
  /\ Push([type |-> "CLIENT_CONNECTED"])
  /\ UNCHANGED <<cvars, callVars, queueVars, endVars, answered, sent, arrived, ended, peerOpened>>

\* The peer answers CONNECT; a refusal is reported as an error of the client.
PeerAnswers(how) ==
  /\ sinks /\ connection = "up" /\ answered = "none"
  /\ answered' = how
  /\ Push(IF how = "accepted" THEN SessionEvent("SESSION_CONNECTED") ELSE [type |-> "ERROR"])
  /\ UNCHANGED <<cvars, callVars, queueVars, endVars, connection, sent, arrived, ended, peerOpened>>

\* wt_enqueue_datagram_from_msquic; when it fails the callback reports an error event.
PeerSendsDatagram ==
  /\ sinks /\ connection = "up" /\ sent < MaxDatagrams
  /\ sent' = sent + 1
  /\ datagrams' = IF handle THEN Append(datagrams, sent + 1) ELSE datagrams
  /\ Push(IF handle THEN SessionEvent("DATAGRAM_RECEIVED") ELSE [type |-> "ERROR"])
  /\ UNCHANGED <<cvars, callVars, endVars, buffered, connection, answered, arrived, ended, peerOpened>>

\* A stream the application opened (one a reader reads) or one the peer opened.
Opens(s) == \E w \in Readers : StreamOf(w) = s
Exists(s) == (SessionUp /\ Opens(s)) \/ s \in peerOpened

\* wt_append_stream_data_from_msquic
PeerSendsData(s) ==
  /\ sinks /\ connection = "up" /\ Exists(s) /\ s \notin ended /\ arrived[s] < MaxData
  /\ arrived' = [arrived EXCEPT ![s] = @ + 1]
  /\ buffered' = [buffered EXCEPT ![s] = @ + 1]
  /\ IF handle THEN Push([type |-> "STREAM_DATA_RECEIVED", stream |-> s])
               ELSE UNCHANGED eventVars
  /\ UNCHANGED <<cvars, callVars, endVars, datagrams, connection, answered, sent, ended, peerOpened>>

\* The stream's SHUTDOWN_COMPLETE, of itself or because the connection ends.
StreamEnds(s) ==
  /\ sinks /\ connection \in {"up", "ending"} /\ Exists(s) /\ s \notin ended
  /\ ended' = ended \cup {s}
  /\ Push([type |-> "STREAM_CLOSED", stream |-> s])
  /\ UNCHANGED <<cvars, callVars, queueVars, endVars, connection, answered, sent, arrived, peerOpened>>

\* wt_accept_peer_stream_from_msquic: without a live session, or when its event is
\* refused, the stream gets no callback handler and is never heard of again.
PeerOpensStream(k, s) ==
  /\ sinks /\ connection = "up" /\ s \notin peerOpened /\ ~Opens(s) /\ handle
  /\ peerOpened' = IF CanPush THEN peerOpened \cup {s} ELSE peerOpened
  /\ Push([type |-> IF k[1] = "bidi" THEN "BIDI_STREAM_OPENED" ELSE "UNI_STREAM_OPENED",
           session |-> Session, stream |-> s])
  /\ UNCHANGED <<cvars, callVars, queueVars, endVars, connection, answered, sent, arrived, ended>>

\* The peer (CLIENT_CLOSED) or the transport (ERROR) begins to close the connection ...
ConnectionEnds(t) ==
  /\ sinks /\ connection \in {"new", "up"}
  /\ connection' = "ending"
  /\ Push([type |-> t])
  /\ UNCHANGED <<cvars, callVars, queueVars, endVars, answered, sent, arrived, ended, peerOpened>>

\* ... and its SHUTDOWN_COMPLETE.
ConnectionOver ==
  /\ sinks /\ connection = "ending"
  /\ connection' = "over"
  /\ Push([type |-> "CLIENT_CLOSED"])
  /\ UNCHANGED <<cvars, callVars, queueVars, endVars, answered, sent, arrived, ended, peerOpened>>

NativeNext ==
  \/ HandshakeCompletes
  \/ PeerAnswers("accepted")
  \/ "rejection" \in Disturbances /\ PeerAnswers("rejected")
  \/ PeerSendsDatagram
  \/ \E s \in Streams : PeerSendsData(s) \/ StreamEnds(s)
  \/ \E k \in PeerDirections \X {Session}, s \in Streams : PeerOpensStream(k, s)
  \/ "disconnect" \in Disturbances /\ \E t \in {"CLIENT_CLOSED", "ERROR"} : ConnectionEnds(t)
  \/ ConnectionOver

-----------------------------------------------------------------------------
(* The coordinator's own steps *)

\* wt_poll_event under the pump.
PollNative ==
  /\ events # <<>>
  /\ PumpPoll(Head(events))
  /\ events' = Tail(events)
  /\ UNCHANGED <<overflow, callVars, peerVars, queueVars, endVars>>

CoordinatorNext ==
  \/ PollNative
  \/ /\ \/ PumpStep
        \/ DisposeStep
        \/ \E w \in Waiters : PumpComplete(w) \/ DisposeComplete(w)
        \/ "cancellation" \in Disturbances /\ \E w \in Waiters : CancelNext(w)
     /\ UNCHANGED mvars

-----------------------------------------------------------------------------
(* The calls *)

Goto(w, there) == pc' = [pc EXCEPT ![w] = there]
Return(w, there, value) ==
  /\ Goto(w, there)
  /\ result' = [result EXCEPT ![w] = value]
Stay == UNCHANGED <<eventVars, peerVars, endVars>>

\* WebTransportClient._disposed, which its DisposeAsync sets when it calls the adapter's,
\* once and under a lock; ConnectAsync looks without the lock, before anything else.
ClientDisposed == adapterPc # "idle"

\* A session call starts once the application has the session; a connect at any time.
Start(w) ==
  /\ pc[w] = "idle"
  /\ IF w \in Connectors THEN ~ClientDisposed ELSE SessionUp
  /\ Goto(w, IF w \in Connectors THEN "connect" ELSE "try")
  /\ UNCHANGED <<cvars, result, queueVars>> /\ Stay

\* The start of NativeBackendAdapter.ConnectAsync: the token, then wt_client_connect, which
\* takes the session back when the connection cannot be started, and which does not look
\* whether the client was shut down since.
Connect(w) ==
  /\ pc[w] = "connect"
  /\ \/ /\ token[w]
        /\ Return(w, "done", Failure("cancelled"))
        /\ UNCHANGED <<handle, connection>>
     \/ /\ ~token[w]
        /\ \E how \in {"fault"} \cup IF adapterPc = "done" THEN {"disposed"} ELSE {} :
             Return(w, "done", Failure(how))
        /\ UNCHANGED <<handle, connection>>
     \/ /\ ~token[w] /\ adapterPc # "done"
        /\ Goto(w, "register")
        /\ handle' = TRUE
        /\ connection' = "new"
        /\ UNCHANGED result
  /\ UNCHANGED <<cvars, eventVars, queueVars, answered, sent, arrived, ended, peerOpened,
                 closing, sinks, sessionDisposed, closePc, adapterPc>>

\* The call throws instead of trying: its session was disposed, its token is
\* cancelled, or a native call fails because the handle is gone.
Throws(w) ==
  \/ pc[w] = "try" /\ (token[w] \/ (w \notin Readers /\ sessionDisposed))
  \/ w \in Receivers /\ ~handle
  \/ w \in Readers /\ adapterPc = "done"

ThrowFrom(w) ==
  /\ pc[w] \in {"try", "retry", "final"}
  /\ Throws(w)
  /\ Return(w, IF pc[w] = "retry" THEN "leave" ELSE "done", Failure("fault"))
  /\ UNCHANGED <<cvars, queueVars>> /\ Stay

\* Copies the datagram out and leaves it in the queue.
ReceiveTry_Peeks(w) ==
  /\ w \in Receivers
  /\ pc[w] \in {"try", "retry"}
  /\ ~Throws(w)
  /\ \/ /\ datagrams # <<>>
        /\ Return(w, IF pc[w] = "try" THEN "done" ELSE "leave", Got(Head(datagrams)))
     \/ /\ datagrams = <<>>
        /\ Goto(w, IF pc[w] = "try" THEN "register" ELSE "wait")
        /\ UNCHANGED result
  /\ UNCHANGED <<cvars, queueVars>> /\ Stay

\* TryReceiveDatagram, before and after registering.
ReceiveTry(w) ==
  /\ w \in Receivers
  /\ pc[w] \in {"try", "retry"}
  /\ ~Throws(w)
  /\ \/ /\ datagrams # <<>>
        /\ datagrams' = Tail(datagrams)
        /\ Return(w, IF pc[w] = "try" THEN "done" ELSE "leave", Got(Head(datagrams)))
     \/ /\ datagrams = <<>>
        /\ Goto(w, IF pc[w] = "try" THEN "register" ELSE "wait")
        /\ UNCHANGED <<datagrams, result>>
  /\ UNCHANGED <<cvars, buffered>> /\ Stay

\* TryDequeueIncomingStream, before and after registering.
AcceptTry(w) ==
  LET k == KeyOf[w] IN
  /\ w \in Acceptors
  /\ pc[w] \in {"try", "retry"}
  /\ ~Throws(w)
  /\ \/ /\ TryDequeue(k)
        /\ Return(w, IF pc[w] = "try" THEN "done" ELSE "leave", Got(Head(incoming[k])))
     \/ /\ incoming[k] = <<>>
        /\ Goto(w, IF pc[w] = "try" THEN "register" ELSE "wait")
        /\ UNCHANGED <<result, cvars>>
  /\ UNCHANGED queueVars /\ Stay

\* What one wt_stream_read hands out.
Readable(w) ==
  IF buffered[StreamOf(w)] < ReadLength THEN buffered[StreamOf(w)] ELSE ReadLength

\* ReadStream before registering, after it, and once more after the wait.  The
\* last read returns what it finds, which may be nothing.
ReadTry(w) ==
  /\ w \in Readers
  /\ pc[w] \in {"try", "retry", "final"}
  /\ ~Throws(w)
  /\ buffered' = [buffered EXCEPT ![StreamOf(w)] = @ - Readable(w)]
  /\ IF Readable(w) # 0 \/ pc[w] = "final"
     THEN Return(w, IF pc[w] = "retry" THEN "leave" ELSE "done", Got(Readable(w)))
     ELSE /\ Goto(w, IF pc[w] = "try" THEN "closed?" ELSE "closed??")
          /\ UNCHANGED result
  /\ UNCHANGED <<cvars, datagrams>> /\ Stay

\* IsStreamClosed, which decides whether an empty read is the end of the stream.
ReadChecksClosed(w) ==
  /\ pc[w] \in {"closed?", "closed??"}
  /\ IF StreamOf(w) \in closedStreams
     THEN Return(w, IF pc[w] = "closed?" THEN "done" ELSE "leave", Got(0))
     ELSE /\ Goto(w, IF pc[w] = "closed?" THEN "register" ELSE "wait")
          /\ UNCHANGED result
  /\ UNCHANGED <<cvars, queueVars>> /\ Stay

\* The call ends with an exception.  A connect releases its session on the
\* exceptions ConnectAsync catches, which ObjectDisposedException is not.
Fail(w, how) ==
  Return(w, IF w \in Connectors /\ how # "disposed" THEN "abandon" ELSE "done", Failure(how))

\* Waits without trying once more.
RegisterCall_NoRetry(w) ==
  /\ pc[w] = "register"
  /\ \/ /\ Refuses(KeyOf[w])
        /\ Fail(w, IF disposed \/ terminal = "disposed" THEN "disposed" ELSE "fault")
        /\ UNCHANGED cvars
     \/ /\ Register(w)
        /\ Goto(w, "wait")
        /\ UNCHANGED result
  /\ UNCHANGED queueVars /\ Stay

\* Register*Waiter: the call throws, or tries once more before it waits.  A
\* connect has nothing to try and waits at once.
RegisterCall(w) ==
  /\ pc[w] = "register"
  /\ \/ /\ Refuses(KeyOf[w])
        /\ Fail(w, IF disposed \/ terminal = "disposed" THEN "disposed" ELSE "fault")
        /\ UNCHANGED cvars
     \/ /\ Register(w)
        /\ Goto(w, IF w \in Connectors THEN "wait" ELSE "retry")
        /\ UNCHANGED result
  /\ UNCHANGED queueVars /\ Stay

\* `await waiter.Task` resumes, on a later thread-pool turn, and `using` disposes
\* the waiter: a loop goes round, a read reads once more, a connect is done.
Resume(w) ==
  /\ pc[w] = "wait"
  /\ task[w] \notin {"pending", "none"}
  /\ DisposeWaiter(w)
  /\ \/ task[w] = "ok" /\ w \in Connectors /\ Return(w, "done", Got(Session))
     \/ /\ task[w] = "ok" /\ w \notin Connectors
        /\ ~(w \in Readers /\ token[w])
        /\ Goto(w, IF w \in Readers THEN "final" ELSE "try")
        /\ UNCHANGED result
     \/ task[w] = "ok" /\ w \in Readers /\ token[w] /\ Fail(w, "cancelled")
     \/ task[w] # "ok" /\ Fail(w, task[w])
  /\ UNCHANGED queueVars /\ Stay

\* The connect's delay ends before the waiter completes: its time is over, or its
\* token was cancelled and the delay noticed before the waiter did.
ConnectTimeout(w) ==
  /\ w \in Connectors
  /\ pc[w] = "wait"
  /\ task[w] = "pending"
  /\ "timeout" \in Disturbances \/ token[w]
  /\ Return(w, "leave", Failure(IF token[w] THEN "cancelled" ELSE "timeout"))
  /\ UNCHANGED <<cvars, queueVars>> /\ Stay

\* A connect that timed out keeps its session.
Leave_NoRelease(w) ==
  /\ pc[w] = "leave"
  /\ DisposeWaiter(w)
  /\ Goto(w, "done")
  /\ UNCHANGED <<result, queueVars>> /\ Stay

\* The waiter goes and its token registration stays.
Leave_KeepsRegistration(w) ==
  /\ pc[w] = "leave"
  /\ waiting' = [waiting EXCEPT ![KeyOf[w]] = @ \ {w}]
  /\ task' = [task EXCEPT ![w] = "none"]
  /\ UNCHANGED <<token, callback, sessionVars, streamVars, pumpVars, disposeVars>>
  /\ Goto(w, IF w \in Connectors THEN "abandon" ELSE "done")
  /\ UNCHANGED <<result, queueVars>> /\ Stay

\* `using` on the way out of a call that has its result.
Leave(w) ==
  /\ pc[w] = "leave"
  /\ DisposeWaiter(w)
  /\ Goto(w, IF w \in Connectors THEN "abandon" ELSE "done")
  /\ UNCHANGED <<result, queueVars>> /\ Stay

\* ReleaseSessionIfAllocated after a connect that failed.
Abandon(w) ==
  /\ pc[w] = "abandon"
  /\ Goto(w, "done")
  /\ handle' = FALSE
  /\ datagrams' = <<>>
  /\ UNCHANGED <<cvars, result, buffered, eventVars, peerVars,
                 closing, sinks, sessionDisposed, closePc, adapterPc>>

CallStep(w) ==
  \/ Connect(w) \/ ThrowFrom(w) \/ ReceiveTry(w) \/ AcceptTry(w) \/ ReadTry(w) \/ ReadChecksClosed(w)
  \/ RegisterCall(w) \/ Resume(w) \/ Leave(w) \/ Abandon(w)

CallNext(w) ==
  \/ Start(w)
  \/ CallStep(w)
  \/ ConnectTimeout(w)

-----------------------------------------------------------------------------
(* Closing and disposing *)

AfterFailedClose_Released(how) == IF how = "disposing" THEN "release" ELSE closePc

AfterFailedClose(how) == IF how = "disposing" THEN "release after failure" ELSE closePc

\* CloseAsync ("closing") or DisposeAsync ("disposing") of the session calls
\* wt_session_close, which announces the close before it shuts anything down
\* and gives up when the event cannot be queued.
CloseBegin(how) ==
  /\ closePc \in {"idle", "closed"} /\ SessionUp
  /\ \/ /\ handle /\ CanPush
        /\ Push(SessionEvent("SESSION_CLOSED"))
        /\ closePc' = how
     \/ /\ ~(handle /\ CanPush)
        /\ closePc' = AfterFailedClose(how)
        /\ events' = events
        /\ overflow' = (overflow \/ (handle /\ ~closing))
  /\ UNCHANGED <<cvars, callVars, peerVars, queueVars,
                 closing, sinks, handle, sessionDisposed, adapterPc>>

\* wt_msquic_shutdown, after the native lock was given up.
CloseShutdown ==
  /\ closePc \in {"closing", "disposing"}
  /\ sinks' = FALSE
  /\ closePc' = IF closePc = "closing" THEN "closed" ELSE "release"
  /\ UNCHANGED <<cvars, callVars, eventVars, peerVars, queueVars,
                 closing, handle, sessionDisposed, adapterPc>>

\* The `finally` of DisposeAsync; the session is not marked disposed when the close failed.
CloseRelease ==
  /\ closePc \in {"release", "release after failure"}
  /\ handle' = FALSE
  /\ datagrams' = <<>>
  /\ sessionDisposed' = (closePc = "release")
  /\ closePc' = "done"
  /\ UNCHANGED <<cvars, callVars, eventVars, peerVars, buffered, closing, sinks, adapterPc>>

\* NativeBackendAdapter.DisposeAsync: shut the native client down ...
AdapterShutdown ==
  /\ ~ClientDisposed
  /\ closing' = TRUE
  /\ adapterPc' = "sinks"
  /\ UNCHANGED <<cvars, callVars, eventVars, peerVars, queueVars,
                 sinks, handle, sessionDisposed, closePc>>

AdapterDetach ==
  /\ adapterPc = "sinks"
  /\ sinks' = FALSE
  /\ adapterPc' = "coordinator"
  /\ UNCHANGED <<cvars, callVars, eventVars, peerVars, queueVars,
                 closing, handle, sessionDisposed, closePc>>

\* ... dispose the coordinator ...
AdapterDispose ==
  /\ adapterPc = "coordinator"
  /\ DisposeBegin
  /\ adapterPc' = "join"
  /\ UNCHANGED <<callVars, eventVars, peerVars, queueVars,
                 closing, sinks, handle, sessionDisposed, closePc>>

\* ... and release the native client with its handles and its events.
AdapterRelease ==
  /\ adapterPc = "join"
  /\ disposePc = "done"
  /\ adapterPc' = "done"
  /\ handle' = FALSE
  /\ datagrams' = <<>>
  /\ events' = <<>>
  /\ UNCHANGED <<cvars, callVars, overflow, peerVars, buffered,
                 closing, sinks, sessionDisposed, closePc>>

EndStep ==
  CloseShutdown \/ CloseRelease \/ AdapterDetach \/ AdapterDispose \/ AdapterRelease

ClientNext ==
  \/ NativeNext
  \/ CoordinatorNext
  \/ \E w \in Waiters : CallNext(w)
  \/ "close" \in Disturbances /\ \E how \in {"closing", "disposing"} : CloseBegin(how)
  \/ "dispose" \in Disturbances /\ AdapterShutdown
  \/ EndStep

ClientSpec == ClientInit /\ [][ClientNext]_vars

\* The threads that have something to do go on: the pump, a close, a dispose, a cancelled
\* token's callback and each call the application made; the peer and the application owe
\* nothing.  A step of a close, of a callback and of a call changes the subscript.
ClientFairness ==
  /\ WF_vars(\/ PollNative
             \/ (PumpStep \/ \E w \in Waiters : PumpComplete(w)) /\ UNCHANGED mvars)
  /\ WF_closePc(CloseShutdown \/ CloseRelease)
  /\ WF_vars(\/ AdapterDetach \/ AdapterDispose \/ AdapterRelease
             \/ (DisposeStep \/ \E w \in Waiters : DisposeComplete(w)) /\ UNCHANGED mvars)
  /\ \A w \in Waiters :
       /\ WF_callback((CancelRemove(w) \/ CancelComplete(w)) /\ UNCHANGED mvars)
       /\ WF_pc(CallStep(w))

FairClientSpec == ClientSpec /\ ClientFairness

-----------------------------------------------------------------------------
\* What the calls, the native library and the adapter do to the coordinator is
\* what the coordinator's specification allows.
ImplementsCoordinator == Spec

\* Types; and a call that comes round to register again has its last waiter in
\* nobody's hands, so the name of that waiter is free for the next.
ClientTypeOK ==
  /\ pc \in [Waiters -> {"idle", "connect", "try", "closed?", "register", "retry", "closed??", "wait",
                         "final", "leave", "abandon", "done"}]
  /\ \A w \in Waiters :
       result[w] \in {NoResult} \cup {Failure(f) : f \in {"fault", "disposed", "cancelled", "timeout"}}
                   \cup {Got(v) : v \in {Session} \cup Streams \cup (0 .. MaxDatagrams + MaxData)}
  /\ events \in Seq(NativeEvents) /\ Len(events) <= EventLimit
  /\ overflow \in BOOLEAN /\ closing \in BOOLEAN /\ sinks \in BOOLEAN
  /\ connection \in {"none", "new", "up", "ending", "over"}
  /\ answered \in {"none", "accepted", "rejected"}
  /\ datagrams \in Seq(1 .. MaxDatagrams) /\ sent \in 0 .. MaxDatagrams
  /\ buffered \in [Streams -> 0 .. MaxData] /\ arrived \in [Streams -> 0 .. MaxData]
  /\ ended \subseteq Streams /\ peerOpened \subseteq Streams
  /\ handle \in BOOLEAN /\ sessionDisposed \in BOOLEAN
  /\ closePc \in {"idle", "closing", "disposing", "release", "release after failure",
                  "closed", "done"}
  /\ adapterPc \in {"idle", "sinks", "coordinator", "join", "done"}
  /\ \A w \in Waiters : pc[w] = "register" => task[w] = "none" /\ w \notin taken \cup disposeTaken

\* The announcement of e has not reached the waiters of table entry k yet.
OnItsWay(e, k) == StillToTake(k) \/ \E i \in 1 .. Len(events) : events[i] = e

Asleep(w) == pc[w] = "wait" /\ task[w] = "pending" /\ w \in waiting[KeyOf[w]]

\* No lost wakeup between the native queues and the callers: a receiver that
\* sleeps over a queued datagram, or a reader over buffered data or an ended
\* stream, has its event still coming.  Trying, registering and trying again
\* closes the window between the two, unless the event queue overflowed
\* (NativeSessionBackend.cs:64-95, NativeStreamBackend.cs:27-56).
NoLostWakeup ==
  overflow \/ closing \/
  \A w \in Waiters : Asleep(w) =>
    /\ w \in Receivers /\ datagrams # <<>> =>
         OnItsWay(SessionEvent("DATAGRAM_RECEIVED"), KeyOf[w])
    /\ w \in Readers /\ buffered[StreamOf(w)] # 0 =>
         OnItsWay([type |-> "STREAM_DATA_RECEIVED", stream |-> StreamOf(w)], KeyOf[w])
    /\ w \in Readers /\ StreamOf(w) \in ended =>
         OnItsWay([type |-> "STREAM_CLOSED", stream |-> StreamOf(w)], KeyOf[w])

\* Racing calls share out what arrives: no datagram and no stream goes to two of
\* them, and a datagram a call returned has left the queue.
NothingHandedOutTwice ==
  /\ \A v, w \in Receivers \cup Acceptors :
       v # w /\ KeyOf[v] = KeyOf[w] /\ result[v][1] = "got" => result[v] # result[w]
  /\ \A w \in Receivers : \A i \in 1 .. Len(datagrams) : result[w] # Got(datagrams[i])

\* A connect that fails for any reason but dispose leaves no native session
\* behind, and one that succeeds had the peer's answer, however the timeout, the
\* cancellation and the late answer race (NativeBackendAdapter.cs:42-66).  A disposed
\* client has none either, though a connect may reach the native library after the
\* shutdown (WebTransportClient.cs:38, 63).
ConnectOutcome ==
  \A w \in Connectors :
    /\ result[w] = Got(Session) => answered = "accepted"
    /\ pc[w] = "done" /\ result[w] \in {Failure(f) : f \in {"fault", "cancelled", "timeout"}} => ~handle
    /\ adapterPc = "done" => ~handle

\* A session that counts as disposed is shut down, and the callers that wait in its tables
\* were told or will be: the coordinator has its end, or the event is on its way.  A close
\* that cannot queue its event shuts nothing down, and then the session must not count as
\* disposed (NativeSessionBackend.cs:104-124).
DisposedIsAnnounced ==
  sessionDisposed =>
    /\ ~sinks
    /\ closing \/ Session \in closedSessions
        \/ OnItsWay(SessionEvent("SESSION_CLOSED"), <<"bidi", Session>>)

\* Once the session was closed or disposed, or the client, which shuts the sinks for good,
\* every receive and every accept ends, those still waiting and those begun later; no call
\* is made twice.  (`[]<>' says "at some time" of what stays.)
CloseEndsLoops ==
  []<>~sinks => <>[](\A w \in Receivers \cup Acceptors : pc[w] \in {"idle", "done"})

\* Once the application disposes the client every call ends, including reads that a close
\* of the session left waiting.
DisposeEndsCalls ==
  []<>(adapterPc # "idle") => <>[](\A w \in Waiters : pc[w] \in {"idle", "done"})

-----------------------------------------------------------------------------
\* What a reader that stops at 0 bytes, like ReadExactlyAsync of the live tests
\* ("Unexpected end of stream"), assumes of a reliable stream: a read returns 0 only at the
\* end, when the stream is closed and all of its data has been read.
ZeroMeansEnd ==
  [][\A w \in Readers :
       result'[w] = Got(0) /\ result[w] # Got(0)
         => StreamOf(w) \in closedStreams /\ buffered[StreamOf(w)] = 0]_vars
=============================================================================
