----------------------------- MODULE Coordinator -----------------------------
(***************************************************************************)
(* NativeEventCoordinator.cs: the managed pump that polls native events    *)
(* and completes the waiters callers registered, the tables it shares with *)
(* the callers, cancellation, and dispose.                                 *)
(*                                                                         *)
(* One action is one `lock (_gate)` section or one step between two of     *)
(* them: what the pump, a caller, the thread that cancels a token and the  *)
(* thread that disposes do can interleave at every point where the code    *)
(* gives up the lock.  A native event is an input here; ManagedClient.tla  *)
(* supplies the events of the native library and the code of the callers.  *)
(*                                                                         *)
(* A waiter name stands for the NativeEventWaiter of one call.  A call     *)
(* that loops creates a new one each time round, after disposing the last. *)
(***************************************************************************)
EXTENDS Naturals, Sequences, FiniteSets

CONSTANTS
  Waiters,        \* calls that may wait
  Sessions,       \* native session ids
  Streams,        \* native stream ids
  NoStream,       \* not a stream
  KeyOf,          \* the table entry each waiter registers in
  Polled,         \* the native events polls may return, out of NativeEvents
  MaxIncoming     \* MaxQueuedIncomingStreamsPerSession (1024)

SessionTables == {"connected", "datagram", "bidi", "uni"}
Directions == {"bidi", "uni"}
SessionKeys == SessionTables \X Sessions
IncomingKeys == Directions \X Sessions
StreamKeys == {"data"} \X Streams
Keys == SessionKeys \cup StreamKeys

ASSUME WaiterAssumption == KeyOf \in [Waiters -> Keys]
ASSUME StreamAssumption == NoStream \notin Streams
ASSUME IncomingAssumption == MaxIncoming \in Nat \ {0}

VARIABLES
  waiting,         \* the five waiter tables: key |-> waiters in its list
  task,            \* the waiter's task: "none" without a live waiter of that name, "pending",
                   \* or how it completed ("disposed" is an ObjectDisposedException)
  token,           \* the waiter's cancellation token has been cancelled
  callback,        \* the token registration: "none", "armed", "removed" (half done)
  connected,       \* _connectedSessions
  closedSessions,  \* _closedSessions
  closedStreams,   \* _closedStreams
  incoming,        \* _bidiStreams and _uniStreams: peer streams nobody accepted yet
  terminal,        \* _terminalException: "none", "error" or "disposed"
  disposed,        \* _disposed, and the cancellation of _disposeCts under the same lock
  pumpPc,          \* where the pump is
  ev,              \* the event Route works on
  todo,            \* the tables whose waiters Route still has to complete
  taken,           \* the list the pump took out of a table and is completing
  dropped,         \* the stream EnqueueOpenedStream dropped and is about to release
  disposePc,       \* where DisposeAsync is
  disposeTaken,    \* the waiters DisposeAsync drained and is completing
  opened,          \* history: streams announced by an opened event
  accepted,        \* history: streams handed to a caller
  released         \* history: streams released because the queue was full

waiterVars == <<waiting, task, token, callback>>
sessionVars == <<connected, closedSessions, closedStreams>>
streamVars == <<incoming, opened, accepted, released>>
pumpVars == <<pumpPc, ev, todo, taken, dropped>>
disposeVars == <<terminal, disposed, disposePc, disposeTaken>>
cvars == <<waiterVars, sessionVars, streamVars, pumpVars, disposeVars>>

(* Native events, as INativeEventSource.TryPollEvent returns them. *)

\* SESSION_REJECTED is SESSION_CONNECTED with a status other than Ok;
\* POLL_FAILED is the exception TryPollEvent throws on a failed poll.
SessionEvents ==
  [type : {"SESSION_CONNECTED", "SESSION_REJECTED", "SESSION_CLOSED", "DATAGRAM_RECEIVED"},
   session : Sessions]
OpenedEvents ==
  [type : {"BIDI_STREAM_OPENED", "UNI_STREAM_OPENED"}, session : Sessions, stream : Streams]
StreamEvents == [type : {"STREAM_DATA_RECEIVED", "STREAM_CLOSED"}, stream : Streams]
ClientEvents == [type : {"CLIENT_CONNECTED", "CLIENT_CLOSED", "ERROR", "POLL_FAILED"}]
NativeEvents == SessionEvents \cup OpenedEvents \cup StreamEvents \cup ClientEvents

ASSUME PolledAssumption == Polled \subseteq NativeEvents

NoNativeEvent == [type |-> "NONE"]

\* The queue of incoming streams an opened event goes to.
IncomingKey(e) ==
  <<IF e.type = "BIDI_STREAM_OPENED" THEN "bidi" ELSE "uni", e.session>>

(* An operator named after a definition, with a suffix, is that definition  *)
(* with a plausible bug: the properties must notice it.                     *)

\* A session's end fails its connect and its receives but forgets the acceptors.
Route_ForgetsAcceptors(e) ==
  CASE e.type \in {"SESSION_CONNECTED"} -> << <<"connected", e.session>> >>
    [] e.type \in {"SESSION_REJECTED", "SESSION_CLOSED"} ->
         << <<"connected", e.session>>, <<"datagram", e.session>> >>
    [] e.type = "DATAGRAM_RECEIVED" -> << <<"datagram", e.session>> >>
    [] e.type \in {"BIDI_STREAM_OPENED", "UNI_STREAM_OPENED"} -> << IncomingKey(e) >>
    [] e.type \in {"STREAM_DATA_RECEIVED", "STREAM_CLOSED"} -> << <<"data", e.stream>> >>
    [] OTHER -> <<>>

\* The tables whose waiters Route completes for an event, in its order.
Route(e) ==
  CASE e.type = "SESSION_CONNECTED" -> << <<"connected", e.session>> >>
    [] e.type \in {"SESSION_REJECTED", "SESSION_CLOSED"} ->
         << <<"connected", e.session>>, <<"datagram", e.session>>,
            <<"bidi", e.session>>, <<"uni", e.session>> >>
    [] e.type = "DATAGRAM_RECEIVED" -> << <<"datagram", e.session>> >>
    [] e.type \in {"BIDI_STREAM_OPENED", "UNI_STREAM_OPENED"} -> << IncomingKey(e) >>
    [] e.type \in {"STREAM_DATA_RECEIVED", "STREAM_CLOSED"} -> << <<"data", e.stream>> >>
    [] OTHER -> <<>>

\* How a waiter taken for this event completes.
Outcome(e) ==
  IF e.type \in {"SESSION_REJECTED", "SESSION_CLOSED", "CLIENT_CLOSED", "ERROR", "POLL_FAILED"}
  THEN "fault" ELSE "ok"

\* Route's first step for an event: remember it in a set or queue, fail
\* everything, go straight to the waiters, or ignore it.
FirstStep(e) ==
  CASE e.type \in {"SESSION_CONNECTED", "SESSION_CLOSED", "STREAM_CLOSED",
                   "BIDI_STREAM_OPENED", "UNI_STREAM_OPENED"} -> "mark"
    [] e.type \in {"CLIENT_CLOSED", "ERROR", "POLL_FAILED"} -> "drain"
    [] e.type \in {"SESSION_REJECTED", "DATAGRAM_RECEIVED", "STREAM_DATA_RECEIVED"} -> "take"
    [] OTHER -> "poll"

Init ==
  /\ waiting = [k \in Keys |-> {}]
  /\ task = [w \in Waiters |-> "none"]
  /\ token = [w \in Waiters |-> FALSE]
  /\ callback = [w \in Waiters |-> "none"]
  /\ connected = {} /\ closedSessions = {} /\ closedStreams = {}
  /\ incoming = [k \in IncomingKeys |-> <<>>]
  /\ opened = {} /\ accepted = {} /\ released = {}
  /\ terminal = "none" /\ disposed = FALSE
  /\ pumpPc = "poll" /\ ev = NoNativeEvent /\ todo = <<>> /\ taken = {}
  /\ dropped = NoStream
  /\ disposePc = "idle" /\ disposeTaken = {}

-----------------------------------------------------------------------------
(* Callers *)

\* Lets a caller register after a terminal error.
Refuses_NotTerminal(k) ==
  k \in SessionKeys /\ k[2] \in closedSessions /\ ~(k[1] = "connected" /\ k[2] \in connected)

\* The registering call throws: disposed, terminal, or the session is closed.
Refuses(k) ==
  \/ disposed
  \/ terminal # "none"
  \/ k \in SessionKeys /\ k[2] \in closedSessions /\ ~(k[1] = "connected" /\ k[2] \in connected)

\* Nothing to wait for: NativeEventWaiter.Completed, or the session is connected.
AlreadyThere(k) ==
  \/ k[1] = "connected" /\ k[2] \in connected
  \/ k \in IncomingKeys /\ incoming[k] # <<>>
  \/ k \in StreamKeys /\ k[2] \in closedStreams

\* Register*Waiter and the first half of WaitForSessionConnectedAsync.  A token
\* that is already cancelled runs its callback inside the waiter's constructor,
\* before AddWaiter: the waiter joins the list already cancelled.
Register(w) ==
  LET k == KeyOf[w] IN
  /\ task[w] = "none"
  /\ w \notin taken \cup disposeTaken
  /\ ~Refuses(k)
  /\ IF AlreadyThere(k)
     THEN /\ task' = [task EXCEPT ![w] = "ok"]
          /\ UNCHANGED <<waiting, callback>>
     ELSE /\ waiting' = [waiting EXCEPT ![k] = @ \cup {w}]
          /\ task' = [task EXCEPT ![w] = IF token[w] THEN "cancelled" ELSE "pending"]
          /\ callback' = [callback EXCEPT ![w] = IF token[w] THEN "none" ELSE "armed"]
  /\ UNCHANGED <<token, sessionVars, streamVars, pumpVars, disposeVars>>

\* NativeEventWaiter.Dispose: leave the table, then drop the token registration,
\* which waits for a callback that is running.
DisposeWaiter(w) ==
  /\ task[w] # "none"
  /\ callback[w] # "removed"
  /\ waiting' = [waiting EXCEPT ![KeyOf[w]] = @ \ {w}]
  /\ task' = [task EXCEPT ![w] = "none"]
  /\ callback' = [callback EXCEPT ![w] = "none"]
  /\ UNCHANGED <<token, sessionVars, streamVars, pumpVars, disposeVars>>

\* TryDequeueBidirectionalStream / TryDequeueUnidirectionalStream that finds a stream.
TryDequeue(k) ==
  /\ incoming[k] # <<>>
  /\ accepted' = accepted \cup {Head(incoming[k])}
  /\ incoming' = [incoming EXCEPT ![k] = Tail(@)]
  /\ UNCHANGED <<opened, released, waiterVars, sessionVars, pumpVars, disposeVars>>

-----------------------------------------------------------------------------
(* Cancellation of a call's token, on any thread *)

CancelToken(w) ==
  /\ ~token[w]
  /\ token' = [token EXCEPT ![w] = TRUE]
  /\ UNCHANGED <<waiting, task, callback, sessionVars, streamVars, pumpVars, disposeVars>>

\* Removes the waiter and never cancels its task.
CancelRemove_Only(w) ==
  /\ token[w]
  /\ callback[w] = "armed"
  /\ callback' = [callback EXCEPT ![w] = "none"]
  /\ waiting' = [waiting EXCEPT ![KeyOf[w]] = @ \ {w}]
  /\ UNCHANGED <<task, token, sessionVars, streamVars, pumpVars, disposeVars>>

\* The registered callback: RemoveWaiter under the lock ...
CancelRemove(w) ==
  /\ token[w]
  /\ callback[w] = "armed"
  /\ callback' = [callback EXCEPT ![w] = "removed"]
  /\ waiting' = [waiting EXCEPT ![KeyOf[w]] = @ \ {w}]
  /\ UNCHANGED <<task, token, sessionVars, streamVars, pumpVars, disposeVars>>

\* ... then TrySetCanceled outside it.
CancelComplete(w) ==
  /\ callback[w] = "removed"
  /\ callback' = [callback EXCEPT ![w] = "none"]
  /\ task' = [task EXCEPT ![w] = IF @ = "pending" THEN "cancelled" ELSE @]
  /\ UNCHANGED <<waiting, token, sessionVars, streamVars, pumpVars, disposeVars>>

-----------------------------------------------------------------------------
(* The pump *)

\* Polls on as long as there are events, and only then looks whether it should stop.
PumpPoll_BeforeDisposed(e) ==
  /\ pumpPc = "poll"
  /\ e \in OpenedEvents => e.stream \notin opened
  /\ opened' = IF e \in OpenedEvents THEN opened \cup {e.stream} ELSE opened
  /\ ev' = IF FirstStep(e) = "poll" THEN NoNativeEvent ELSE e
  /\ pumpPc' = FirstStep(e)
  /\ todo' = Route(e)
  /\ UNCHANGED <<taken, dropped, incoming, accepted, released,
                 waiterVars, sessionVars, disposeVars>>

\* PumpAsync's loop: an event, or the exception of a poll that failed.
PumpPoll(e) ==
  /\ pumpPc = "poll"
  /\ ~disposed
  /\ e \in OpenedEvents => e.stream \notin opened
  /\ opened' = IF e \in OpenedEvents THEN opened \cup {e.stream} ELSE opened
  /\ ev' = IF FirstStep(e) = "poll" THEN NoNativeEvent ELSE e
  /\ pumpPc' = FirstStep(e)
  /\ todo' = Route(e)
  /\ UNCHANGED <<taken, dropped, incoming, accepted, released,
                 waiterVars, sessionVars, disposeVars>>

PumpStop ==
  /\ pumpPc = "poll"
  /\ disposed
  /\ pumpPc' = "stopped"
  /\ UNCHANGED <<ev, todo, taken, dropped, waiterVars, sessionVars, streamVars, disposeVars>>

\* The event is remembered under the lock before any waiter is looked for.
PumpMark ==
  /\ pumpPc = "mark"
  /\ ev.type \in {"SESSION_CONNECTED", "SESSION_CLOSED", "STREAM_CLOSED"}
  /\ connected' = IF ev.type = "SESSION_CONNECTED" THEN connected \cup {ev.session} ELSE connected
  /\ closedSessions' =
       IF ev.type = "SESSION_CLOSED" THEN closedSessions \cup {ev.session} ELSE closedSessions
  /\ closedStreams' =
       IF ev.type = "STREAM_CLOSED" THEN closedStreams \cup {ev.stream} ELSE closedStreams
  /\ pumpPc' = "take"
  /\ UNCHANGED <<ev, todo, taken, dropped, waiterVars, streamVars, disposeVars>>

\* Makes room without remembering what it dropped.
PumpEnqueue_Forgets ==
  LET k == IncomingKey(ev)
      full == Len(incoming[k]) >= MaxIncoming
  IN
  /\ pumpPc = "mark"
  /\ ev.type \in {"BIDI_STREAM_OPENED", "UNI_STREAM_OPENED"}
  /\ incoming' = [incoming EXCEPT ![k] = Append(IF full THEN Tail(@) ELSE @, ev.stream)]
  /\ pumpPc' = "take"
  /\ UNCHANGED <<ev, todo, taken, dropped, opened, accepted, released,
                 waiterVars, sessionVars, disposeVars>>

\* EnqueueOpenedStream under the lock: at the cap the oldest stream makes room.
PumpEnqueue ==
  LET k == IncomingKey(ev)
      full == Len(incoming[k]) >= MaxIncoming
  IN
  /\ pumpPc = "mark"
  /\ ev.type \in {"BIDI_STREAM_OPENED", "UNI_STREAM_OPENED"}
  /\ incoming' = [incoming EXCEPT ![k] = Append(IF full THEN Tail(@) ELSE @, ev.stream)]
  /\ dropped' = IF full THEN Head(incoming[k]) ELSE NoStream
  /\ pumpPc' = IF full THEN "release" ELSE "take"
  /\ UNCHANGED <<ev, todo, taken, opened, accepted, released,
                 waiterVars, sessionVars, disposeVars>>

\* Releases the variable it has already reset.
PumpRelease_AfterReset ==
  /\ pumpPc = "release"
  /\ dropped' = NoStream
  /\ released' = released \cup {dropped'}
  /\ pumpPc' = "take"
  /\ UNCHANGED <<ev, todo, taken, incoming, opened, accepted,
                 waiterVars, sessionVars, disposeVars>>

\* _releaseStream, outside the lock.
PumpRelease ==
  /\ pumpPc = "release"
  /\ released' = released \cup {dropped}
  /\ dropped' = NoStream
  /\ pumpPc' = "take"
  /\ UNCHANGED <<ev, todo, taken, incoming, opened, accepted,
                 waiterVars, sessionVars, disposeVars>>

\* Walks the list while it is still in the table.
PumpTake_InPlace ==
  /\ pumpPc = "take"
  /\ todo # <<>>
  /\ taken' = waiting[Head(todo)]
  /\ todo' = Tail(todo)
  /\ pumpPc' = "complete"
  /\ UNCHANGED <<ev, dropped, waiterVars, sessionVars, streamVars, disposeVars>>

\* CompleteWaiters: the whole list leaves the table under the lock ...
PumpTake ==
  /\ pumpPc = "take"
  /\ todo # <<>>
  /\ taken' = waiting[Head(todo)]
  /\ waiting' = [waiting EXCEPT ![Head(todo)] = {}]
  /\ todo' = Tail(todo)
  /\ pumpPc' = "complete"
  /\ UNCHANGED <<ev, dropped, task, token, callback, sessionVars, streamVars, disposeVars>>

\* Clears every table and keeps the waiters of the session tables only.
PumpDrain_ForgetsReads ==
  /\ pumpPc = "drain"
  /\ terminal' = "error"
  /\ taken' = UNION {waiting[k] : k \in SessionKeys}
  /\ waiting' = [k \in Keys |-> {}]
  /\ pumpPc' = "complete"
  /\ UNCHANGED <<ev, todo, dropped, task, token, callback, disposed, disposePc, disposeTaken,
                 sessionVars, streamVars>>

\* ... CompleteAll: every list does, and the terminal exception is published ...
PumpDrain ==
  /\ pumpPc = "drain"
  /\ terminal' = "error"
  /\ taken' = UNION {waiting[k] : k \in Keys}
  /\ waiting' = [k \in Keys |-> {}]
  /\ pumpPc' = "complete"
  /\ UNCHANGED <<ev, todo, dropped, task, token, callback, disposed, disposePc, disposeTaken,
                 sessionVars, streamVars>>

\* ... and each waiter is completed outside it, unless it already is.
PumpComplete(w) ==
  /\ pumpPc = "complete"
  /\ w \in taken
  /\ taken' = taken \ {w}
  /\ task' = [task EXCEPT ![w] = IF @ = "pending" THEN Outcome(ev) ELSE @]
  /\ UNCHANGED <<pumpPc, ev, todo, dropped, waiting, token, callback,
                 sessionVars, streamVars, disposeVars>>

\* The list is done: on to the next table of this event, or to the next event.
PumpNext ==
  /\ pumpPc = "complete"
  /\ taken = {}
  /\ pumpPc' = IF todo # <<>> THEN "take"
               ELSE IF ev.type = "POLL_FAILED" THEN "stopped" ELSE "poll"
  /\ ev' = IF todo # <<>> THEN ev ELSE NoNativeEvent
  /\ UNCHANGED <<todo, taken, dropped, waiterVars, sessionVars, streamVars, disposeVars>>

-----------------------------------------------------------------------------
(* DisposeAsync *)

DisposeBegin ==
  /\ disposePc = "idle"
  /\ disposed' = TRUE
  /\ disposePc' = "drain"
  /\ UNCHANGED <<terminal, disposeTaken, waiterVars, sessionVars, streamVars, pumpVars>>

\* Clears every table and forgets the reads, as the end of a session does.
DisposeDrain_ForgetsReads ==
  /\ disposePc = "drain"
  /\ terminal' = "disposed"
  /\ disposeTaken' = UNION {waiting[k] : k \in Keys \ StreamKeys}
  /\ waiting' = [k \in Keys |-> {}]
  /\ disposePc' = "complete"
  /\ UNCHANGED <<disposed, task, token, callback, sessionVars, streamVars, pumpVars>>

\* CompleteAll again, from this thread, possibly while the pump completes a list.
DisposeDrain ==
  /\ disposePc = "drain"
  /\ terminal' = "disposed"
  /\ disposeTaken' = UNION {waiting[k] : k \in Keys}
  /\ waiting' = [k \in Keys |-> {}]
  /\ disposePc' = "complete"
  /\ UNCHANGED <<disposed, task, token, callback, sessionVars, streamVars, pumpVars>>

DisposeComplete(w) ==
  /\ disposePc = "complete"
  /\ w \in disposeTaken
  /\ disposeTaken' = disposeTaken \ {w}
  /\ task' = [task EXCEPT ![w] = IF @ = "pending" THEN "disposed" ELSE @]
  /\ UNCHANGED <<terminal, disposed, disposePc, waiting, token, callback,
                 sessionVars, streamVars, pumpVars>>

\* DisposeCoreAsync awaited the pump.
DisposeJoin ==
  /\ disposePc = "complete"
  /\ disposeTaken = {}
  /\ pumpPc = "stopped"
  /\ disposePc' = "done"
  /\ UNCHANGED <<terminal, disposed, disposeTaken, waiterVars, sessionVars, streamVars, pumpVars>>

-----------------------------------------------------------------------------
CallerNext(w) == Register(w) \/ DisposeWaiter(w)
CancelNext(w) == CancelToken(w) \/ CancelRemove(w) \/ CancelComplete(w)
PumpStep == PumpStop \/ PumpMark \/ PumpEnqueue \/ PumpRelease \/ PumpTake \/ PumpDrain \/ PumpNext
DisposeStep == DisposeDrain \/ DisposeJoin

Next ==
  \/ \E w \in Waiters : CallerNext(w) \/ CancelNext(w) \/ PumpComplete(w) \/ DisposeComplete(w)
  \/ \E k \in IncomingKeys : TryDequeue(k)
  \/ \E e \in Polled : PumpPoll(e)
  \/ PumpStep
  \/ DisposeBegin
  \/ DisposeStep

Spec == Init /\ [][Next]_cvars

\* The thread pool runs the pump, a cancellation callback that started and a
\* dispose that started; no caller, peer or canceller is forced to act.
Fairness ==
  /\ WF_cvars(PumpStep)
  /\ WF_cvars(DisposeStep)
  /\ \A w \in Waiters :
       WF_cvars(PumpComplete(w)) /\ WF_cvars(DisposeComplete(w))
       /\ WF_cvars(CancelRemove(w)) /\ WF_cvars(CancelComplete(w))

FairSpec == Spec /\ Fairness

-----------------------------------------------------------------------------
Tasks == {"none", "pending", "ok", "fault", "disposed", "cancelled"}

\* Types of the tables, of the waiters and of what the pump and DisposeAsync hold.
TypeOK ==
  /\ waiting \in [Keys -> SUBSET Waiters]
  /\ task \in [Waiters -> Tasks]
  /\ token \in [Waiters -> BOOLEAN]
  /\ callback \in [Waiters -> {"none", "armed", "removed"}]
  /\ connected \subseteq Sessions /\ closedSessions \subseteq Sessions
  /\ closedStreams \subseteq Streams
  /\ incoming \in [IncomingKeys -> Seq(Streams)]
  /\ opened \subseteq Streams /\ accepted \subseteq Streams /\ released \subseteq Streams
  /\ terminal \in {"none", "error", "disposed"} /\ disposed \in BOOLEAN
  /\ pumpPc \in {"poll", "mark", "release", "take", "drain", "complete", "stopped"}
  /\ ev \in NativeEvents \cup {NoNativeEvent}
  /\ todo \in Seq(Keys)
  /\ taken \subseteq Waiters /\ disposeTaken \subseteq Waiters
  /\ dropped \in Streams \cup {NoStream}
  /\ disposePc \in {"idle", "drain", "complete", "done"}

StillToTake(k) == \E i \in 1 .. Len(todo) : todo[i] = k

\* What a waiter of table entry k waits for has happened.
Happened(k) ==
  \/ AlreadyThere(k)
  \/ k \in SessionKeys /\ k[2] \in closedSessions

\* No lost wakeup inside the coordinator: nobody sleeps on a connect, a close or
\* a peer stream that already happened, except while the pump, which remembers
\* the event in one lock section and looks for waiters in a later one, is
\* between the two (NativeEventCoordinator.cs:262-278, 287-303, 366-400).
NoSleeperOnPastEvent ==
  \A k \in Keys : Happened(k) => waiting[k] = {} \/ StillToTake(k)

\* After a terminal error or a dispose published its exception no waiter can
\* enter a table any more, so the drain that published it missed none.
NoSleeperAfterTerminal == terminal # "none" => \A k \in Keys : waiting[k] = {}

\* A waiter that is still pending can be completed by somebody: it is in its
\* table, or in a list the pump or DisposeAsync took out of the tables, or its
\* cancellation callback is between removing it and cancelling it.
PendingIsHeld ==
  \A w \in Waiters :
    task[w] = "pending" =>
      \/ w \in waiting[KeyOf[w]]
      \/ w \in taken
      \/ w \in disposeTaken
      \/ callback[w] = "removed"

\* The lists CompleteWaiters and CompleteAll walk outside the lock are theirs
\* alone: no waiter is in two of them or still in a table, where RemoveWaiter
\* would change the list under the walk.
ListsAreDisjoint ==
  /\ \A k \in Keys : \A w \in waiting[k] : KeyOf[w] = k /\ w \notin taken \cup disposeTaken
  /\ taken \cap disposeTaken = {}

Queued(k) == {incoming[k][i] : i \in 1 .. Len(incoming[k])}
AllQueued == UNION {Queued(k) : k \in IncomingKeys}
InPumpsHand ==
  {s \in Streams : pumpPc = "mark" /\ ev \in OpenedEvents /\ ev.stream = s}
  \cup ({dropped} \ {NoStream})

\* Every peer stream is in exactly one place: with the pump, in the queue,
\* accepted by a caller or released because the queue was full.  It is never
\* lost, never accepted twice, and never released under a caller that has it.
StreamHasOneOwner ==
  /\ opened = InPumpsHand \cup AllQueued \cup accepted \cup released
  /\ accepted \cap released = {}
  /\ (InPumpsHand \cup AllQueued) \cap (accepted \cup released) = {}
  /\ InPumpsHand \cap AllQueued = {}
  /\ \A j, k \in IncomingKeys :
       \A m \in 1 .. Len(incoming[j]), n \in 1 .. Len(incoming[k]) :
         incoming[j][m] = incoming[k][n] => j = k /\ m = n

\* DisposeAsync returns although the native side never runs out of events, and with every
\* waiter completed, whichever thread has it in hand.
DisposeReturns == disposed ~> (disposePc = "done" /\ \A w \in Waiters : task[w] # "pending")

\* A waiter whose token is cancelled is completed, by the callback or by a racing event.
CancelWakes ==
  \A w \in Waiters : (token[w] /\ task[w] = "pending") ~> (task[w] # "pending")
=============================================================================
