------------------------- MODULE ManagedClient_proofs -----------------------
(***************************************************************************)
(* Proofs about the managed client, for any number of calls, sessions,     *)
(* streams and events, any limits and every disturbance.                   *)
(*                                                                         *)
(* The first part is about the coordinator alone: Spec, its invariant      *)
(* IInv, and what follows from it.  Every step of the client at work is a  *)
(* step of the coordinator or leaves it alone, so IInv holds of the client *)
(* too; the second part is what CallsInv adds to it: no call sleeps on     *)
(* something that has arrived, a connect ends as ConnectAsync promises,    *)
(* racing calls share out what arrives, and a disposed session was         *)
(* announced.                                                              *)
(***************************************************************************)
EXTENDS ManagedClient, SequenceTheorems, TLAPS

USE DEF waiterVars, sessionVars, streamVars, pumpVars, disposeVars

-----------------------------------------------------------------------------
(* Events *)

\* The type of an event tells which fields it has.
LEMMA EventFields ==
  ASSUME NEW e \in NativeEvents
  PROVE  /\ e.type \in {"SESSION_CONNECTED", "SESSION_REJECTED", "SESSION_CLOSED",
                        "DATAGRAM_RECEIVED"} => e.session \in Sessions
         /\ e.type \in {"BIDI_STREAM_OPENED", "UNI_STREAM_OPENED"} =>
              /\ e \in OpenedEvents /\ e.session \in Sessions /\ e.stream \in Streams
              /\ IncomingKey(e) \in IncomingKeys
         /\ e.type \in {"STREAM_DATA_RECEIVED", "STREAM_CLOSED"} => e.stream \in Streams
         /\ e \in OpenedEvents => e.type \in {"BIDI_STREAM_OPENED", "UNI_STREAM_OPENED"}
BY DEF NativeEvents, SessionEvents, OpenedEvents, StreamEvents, ClientEvents,
       IncomingKey, IncomingKeys, Directions

LEMMA KeyFacts ==
  /\ IncomingKeys \subseteq Keys
  /\ SessionKeys \subseteq Keys
  /\ StreamKeys \subseteq Keys
BY DEF Keys, SessionKeys, StreamKeys, IncomingKeys, SessionTables, Directions

\* Route names table entries.
LEMMA RouteKeys ==
  ASSUME NEW e \in NativeEvents
  PROVE  Route(e) \in Seq(Keys)
<1>1. CASE e.type = "SESSION_CONNECTED"
  <2>1. <<"connected", e.session>> \in Keys
    BY <1>1, EventFields DEF Keys, SessionKeys, SessionTables
  <2> QED BY <1>1, <2>1 DEF Route
<1>2. CASE e.type \in {"SESSION_REJECTED", "SESSION_CLOSED"}
  <2>1. /\ <<"connected", e.session>> \in Keys
        /\ <<"datagram", e.session>> \in Keys
        /\ <<"bidi", e.session>> \in Keys
        /\ <<"uni", e.session>> \in Keys
    BY <1>2, EventFields DEF Keys, SessionKeys, SessionTables
  <2> QED BY <1>2, <2>1 DEF Route
<1>3. CASE e.type = "DATAGRAM_RECEIVED"
  <2>1. <<"datagram", e.session>> \in Keys
    BY <1>3, EventFields DEF Keys, SessionKeys, SessionTables
  <2> QED BY <1>3, <2>1 DEF Route
<1>4. CASE e.type \in {"BIDI_STREAM_OPENED", "UNI_STREAM_OPENED"}
  <2>1. IncomingKey(e) \in Keys
    BY <1>4, EventFields, KeyFacts
  <2> QED BY <1>4, <2>1 DEF Route
<1>5. CASE e.type \in {"STREAM_DATA_RECEIVED", "STREAM_CLOSED"}
  <2>1. <<"data", e.stream>> \in Keys
    BY <1>5, EventFields DEF Keys, StreamKeys
  <2> QED BY <1>5, <2>1 DEF Route
<1>6. CASE e.type \in {"CLIENT_CONNECTED", "CLIENT_CLOSED", "ERROR", "POLL_FAILED"}
  BY <1>6 DEF Route
<1> QED
  BY <1>1, <1>2, <1>3, <1>4, <1>5, <1>6
     DEF NativeEvents, SessionEvents, OpenedEvents, StreamEvents, ClientEvents

\* Events that are ignored or fail everything have no table of their own to complete.
LEMMA RouteNothing ==
  ASSUME NEW e \in NativeEvents, FirstStep(e) \notin {"mark", "take"}
  PROVE  Route(e) = <<>> /\ FirstStep(e) \in {"poll", "drain"}
<1>1. e.type \in {"CLIENT_CONNECTED", "CLIENT_CLOSED", "ERROR", "POLL_FAILED"}
  BY DEF FirstStep, NativeEvents, SessionEvents, OpenedEvents, StreamEvents, ClientEvents
<1>2. Route(e) = <<>>
  BY <1>1 DEF Route
<1>3. FirstStep(e) \in {"poll", "drain"}
  BY <1>1 DEF FirstStep
<1> QED
  BY <1>2, <1>3

-----------------------------------------------------------------------------
(* Where the pump and DisposeAsync are, and what they then have in hand. *)

PumpShape ==
  /\ pumpPc = "mark" => todo = Route(ev)
  /\ pumpPc \in {"poll", "drain", "stopped"} => todo = <<>>
  /\ pumpPc # "complete" => taken = {}
  /\ pumpPc = "release" <=> dropped # NoStream
  /\ disposePc # "complete" => disposeTaken = {}

LEMMA ShapeInit == Init => PumpShape
BY DEF Init, PumpShape

LEMMA ShapeStep == TypeOK /\ PumpShape /\ [Next]_cvars => PumpShape'
<1> SUFFICES ASSUME TypeOK, PumpShape, [Next]_cvars PROVE PumpShape'
  OBVIOUS
<1> USE DEF PumpShape
<1>1. ASSUME NEW e \in Polled, PumpPoll(e) PROVE PumpShape'
  <2>1. e \in NativeEvents
    BY PolledAssumption
  <2>2. \/ FirstStep(e) = "mark" \/ FirstStep(e) = "take"
        \/ FirstStep(e) \in {"poll", "drain"} /\ Route(e) = <<>>
    BY <2>1, RouteNothing
  <2>3. /\ FirstStep(e) # "poll" => ev' = e
        /\ pumpPc' = FirstStep(e) /\ todo' = Route(e)
        /\ taken' = taken /\ dropped' = dropped
        /\ disposePc' = disposePc /\ disposeTaken' = disposeTaken
        /\ pumpPc = "poll"
    BY <1>1 DEF PumpPoll
  <2>4. pumpPc' = "mark" => todo' = Route(ev')
    BY <2>3
  <2>5. pumpPc' \in {"mark", "take", "poll", "drain"}
    BY <2>2, <2>3
  <2> QED
    BY <2>2, <2>3, <2>4, <2>5
<1>2. ASSUME PumpEnqueue PROVE PumpShape'
  <2>1. ev \in NativeEvents /\ IncomingKey(ev) \in IncomingKeys
    BY <1>2, EventFields DEF PumpEnqueue, TypeOK, NoNativeEvent
  <2> DEFINE q == incoming[IncomingKey(ev)]
  <2>2. Len(q) >= MaxIncoming => Head(q) \in Streams
    <3>1. q \in Seq(Streams)
      BY <2>1 DEF TypeOK
    <3> QED BY <3>1, IncomingAssumption
  <2>3. Len(q) >= MaxIncoming => Head(q) # NoStream
    BY <2>2, StreamAssumption
  <2> QED
    BY <1>2, <2>3 DEF PumpEnqueue
<1>3. CASE PumpStop \/ PumpMark \/ PumpRelease \/ PumpTake \/ PumpDrain \/ PumpNext
  BY <1>3 DEF PumpStop, PumpMark, PumpRelease, PumpTake, PumpDrain, PumpNext, TypeOK
<1>4. ASSUME NEW w \in Waiters, PumpComplete(w) \/ DisposeComplete(w) PROVE PumpShape'
  BY <1>4 DEF PumpComplete, DisposeComplete
<1>5. CASE DisposeBegin \/ DisposeDrain \/ DisposeJoin
  BY <1>5 DEF DisposeBegin, DisposeDrain, DisposeJoin
<1>6. ASSUME NEW w \in Waiters, CallerNext(w) \/ CancelNext(w) PROVE PumpShape'
  BY <1>6 DEF CallerNext, CancelNext, Register, DisposeWaiter, CancelToken, CancelRemove,
              CancelComplete
<1>7. ASSUME NEW k \in IncomingKeys, TryDequeue(k) PROVE PumpShape'
  BY <1>7 DEF TryDequeue
<1>8. CASE UNCHANGED cvars
  BY <1>8 DEF cvars
<1> QED
  BY <1>1, <1>2, <1>3, <1>4, <1>5, <1>6, <1>7, <1>8 DEF Next, PumpStep, DisposeStep

-----------------------------------------------------------------------------
(* Types *)

LEMMA TypeInit == Init => TypeOK
<1> SUFFICES ASSUME Init PROVE TypeOK
  OBVIOUS
<1> QED
  BY EmptySeq DEF Init, TypeOK, Tasks, NoNativeEvent

LEMMA TypeStep == TypeOK /\ PumpShape /\ [Next]_cvars => TypeOK'
<1> SUFFICES ASSUME TypeOK, PumpShape, [Next]_cvars PROVE TypeOK'
  OBVIOUS
<1> USE DEF TypeOK, Tasks
<1>1. ASSUME NEW w \in Waiters, Register(w) PROVE TypeOK'
  <2> DEFINE k == KeyOf[w]
  <2>1. k \in Keys
    BY WaiterAssumption
  <2>2. CASE AlreadyThere(k)
    BY <1>1, <2>2 DEF Register
  <2>3. CASE ~AlreadyThere(k)
    <3>1. /\ waiting' = [waiting EXCEPT ![k] = @ \cup {w}]
          /\ task' = [task EXCEPT ![w] = IF token[w] THEN "cancelled" ELSE "pending"]
          /\ callback' = [callback EXCEPT ![w] = IF token[w] THEN "none" ELSE "armed"]
          /\ UNCHANGED <<token, sessionVars, streamVars, pumpVars, disposeVars>>
      BY <1>1, <2>3 DEF Register
    <3>2. waiting' \in [Keys -> SUBSET Waiters]
      BY <2>1, <3>1
    <3>3. /\ task' \in [Waiters -> Tasks]
          /\ callback' \in [Waiters -> {"none", "armed", "removed"}]
      BY <3>1
    <3> QED
      BY <3>1, <3>2, <3>3
  <2> QED
    BY <2>2, <2>3
<1>2. ASSUME NEW w \in Waiters, DisposeWaiter(w) PROVE TypeOK'
  BY <1>2, WaiterAssumption DEF DisposeWaiter
<1>3. ASSUME NEW w \in Waiters, CancelToken(w) PROVE TypeOK'
  BY <1>3 DEF CancelToken
<1>4. ASSUME NEW w \in Waiters, CancelRemove(w) PROVE TypeOK'
  BY <1>4, WaiterAssumption DEF CancelRemove
<1>5. ASSUME NEW w \in Waiters, CancelComplete(w) PROVE TypeOK'
  BY <1>5 DEF CancelComplete
<1>6. ASSUME NEW w \in Waiters, PumpComplete(w) PROVE TypeOK'
  BY <1>6 DEF PumpComplete, Outcome
<1>7. ASSUME NEW w \in Waiters, DisposeComplete(w) PROVE TypeOK'
  BY <1>7 DEF DisposeComplete
<1>8. ASSUME NEW k \in IncomingKeys, TryDequeue(k) PROVE TypeOK'
  BY <1>8, HeadTailProperties DEF TryDequeue
<1>9. ASSUME NEW e \in Polled, PumpPoll(e) PROVE TypeOK'
  <2>1. e \in NativeEvents
    BY PolledAssumption
  <2>2. /\ opened' \subseteq Streams
        /\ todo' \in Seq(Keys)
    BY <1>9, <2>1, EventFields, RouteKeys DEF PumpPoll
  <2>3. /\ ev' \in NativeEvents \cup {NoNativeEvent}
        /\ pumpPc' \in {"poll", "mark", "take", "drain"}
    BY <1>9, <2>1 DEF PumpPoll, FirstStep
  <2> QED
    BY <1>9, <2>2, <2>3 DEF PumpPoll
<1>10. ASSUME PumpStop PROVE TypeOK'
  BY <1>10 DEF PumpStop
<1>11. ASSUME PumpMark PROVE TypeOK'
  <2>1. /\ ev.type \in {"SESSION_CONNECTED", "SESSION_CLOSED"} => ev.session \in Sessions
        /\ ev.type = "STREAM_CLOSED" => ev.stream \in Streams
    BY <1>11, EventFields DEF PumpMark, NoNativeEvent
  <2> QED
    BY <1>11, <2>1 DEF PumpMark
<1>12. ASSUME PumpEnqueue PROVE TypeOK'
  <2>1. /\ ev.stream \in Streams
        /\ IncomingKey(ev) \in IncomingKeys
    BY <1>12, EventFields DEF PumpEnqueue, NoNativeEvent
  <2> DEFINE q == incoming[IncomingKey(ev)]
  <2>2. q \in Seq(Streams)
    BY <2>1
  <2>3. Len(q) >= MaxIncoming => q # <<>>
    BY <2>2, IncomingAssumption
  <2>4. /\ q # <<>> => Tail(q) \in Seq(Streams) /\ Head(q) \in Streams
        /\ \A s \in Seq(Streams) : Append(s, ev.stream) \in Seq(Streams)
    BY <2>1, <2>2, HeadTailProperties, AppendProperties
  <2> QED
    BY <1>12, <2>1, <2>2, <2>3, <2>4 DEF PumpEnqueue
<1>13. ASSUME PumpRelease PROVE TypeOK'
  <2>1. dropped \in Streams
    BY <1>13 DEF PumpRelease, PumpShape
  <2> QED
    BY <1>13, <2>1 DEF PumpRelease
<1>14. ASSUME PumpTake PROVE TypeOK'
  <2>1. /\ Head(todo) \in Keys
        /\ Tail(todo) \in Seq(Keys)
    BY <1>14, HeadTailProperties DEF PumpTake
  <2> QED
    BY <1>14, <2>1 DEF PumpTake
<1>15. ASSUME PumpDrain PROVE TypeOK'
  BY <1>15 DEF PumpDrain
<1>16. ASSUME PumpNext PROVE TypeOK'
  BY <1>16 DEF PumpNext
<1>17. ASSUME DisposeBegin PROVE TypeOK'
  BY <1>17 DEF DisposeBegin
<1>18. ASSUME DisposeDrain PROVE TypeOK'
  BY <1>18 DEF DisposeDrain
<1>19. ASSUME DisposeJoin PROVE TypeOK'
  BY <1>19 DEF DisposeJoin
<1>20. CASE UNCHANGED cvars
  BY <1>20 DEF cvars
<1> QED
  BY <1>1, <1>2, <1>3, <1>4, <1>5, <1>6, <1>7, <1>8, <1>9, <1>10, <1>11, <1>12, <1>13,
     <1>14, <1>15, <1>16, <1>17, <1>18, <1>19, <1>20
     DEF Next, CallerNext, CancelNext, PumpStep, DisposeStep

-----------------------------------------------------------------------------
(* Waiters *)

LEMMA TerminalStep ==
  TypeOK /\ NoSleeperAfterTerminal /\ [Next]_cvars => NoSleeperAfterTerminal'
<1> SUFFICES ASSUME TypeOK, NoSleeperAfterTerminal, [Next]_cvars
             PROVE  NoSleeperAfterTerminal'
  OBVIOUS
<1> USE DEF NoSleeperAfterTerminal
<1>1. ASSUME NEW w \in Waiters, Register(w) PROVE NoSleeperAfterTerminal'
  <2>1. terminal = "none" /\ terminal' = terminal
    BY <1>1 DEF Register, Refuses
  <2> QED
    BY <2>1
<1>2. ASSUME NEW w \in Waiters, DisposeWaiter(w) \/ CancelRemove(w)
      PROVE  NoSleeperAfterTerminal'
  BY <1>2 DEF DisposeWaiter, CancelRemove, TypeOK
<1>3. CASE PumpTake
  BY <1>3 DEF PumpTake, TypeOK
<1>4. CASE PumpDrain \/ DisposeDrain
  BY <1>4 DEF PumpDrain, DisposeDrain
<1>5. ASSUME NEW w \in Waiters,
             CancelToken(w) \/ CancelComplete(w) \/ PumpComplete(w) \/ DisposeComplete(w)
      PROVE  NoSleeperAfterTerminal'
  BY <1>5 DEF CancelToken, CancelComplete, PumpComplete, DisposeComplete
<1>6. ASSUME NEW e \in Polled, PumpPoll(e) PROVE NoSleeperAfterTerminal'
  BY <1>6 DEF PumpPoll
<1>7. ASSUME NEW k \in IncomingKeys, TryDequeue(k) PROVE NoSleeperAfterTerminal'
  BY <1>7 DEF TryDequeue
<1>8. CASE \/ PumpStop \/ PumpMark \/ PumpEnqueue \/ PumpRelease \/ PumpNext
           \/ DisposeBegin \/ DisposeJoin
  BY <1>8 DEF PumpStop, PumpMark, PumpEnqueue, PumpRelease, PumpNext, DisposeBegin, DisposeJoin
<1>9. CASE UNCHANGED cvars
  BY <1>9 DEF cvars
<1> QED
  BY <1>1, <1>2, <1>3, <1>4, <1>5, <1>6, <1>7, <1>8, <1>9
     DEF Next, CallerNext, CancelNext, PumpStep, DisposeStep

LEMMA ListsStep ==
  TypeOK /\ PumpShape /\ ListsAreDisjoint /\ [Next]_cvars => ListsAreDisjoint'
<1> SUFFICES ASSUME TypeOK, PumpShape, ListsAreDisjoint, [Next]_cvars
             PROVE  ListsAreDisjoint'
  OBVIOUS
<1> USE DEF ListsAreDisjoint
<1>1. ASSUME NEW w \in Waiters, Register(w) PROVE ListsAreDisjoint'
  <2>1. /\ w \notin taken \cup disposeTaken
        /\ UNCHANGED <<taken, disposeTaken>>
        /\ waiting' = waiting \/ waiting' = [waiting EXCEPT ![KeyOf[w]] = @ \cup {w}]
    BY <1>1 DEF Register
  <2>2. ASSUME NEW k \in Keys, NEW v \in waiting'[k]
        PROVE  KeyOf[v] = k /\ (v \in waiting[k] \/ v = w)
    BY <2>1, WaiterAssumption DEF TypeOK
  <2> QED
    BY <2>1, <2>2
<1>2. ASSUME NEW w \in Waiters, DisposeWaiter(w) \/ CancelRemove(w)
      PROVE  ListsAreDisjoint'
  BY <1>2 DEF DisposeWaiter, CancelRemove, TypeOK
<1>3. CASE PumpTake
  <2> DEFINE h == Head(todo)
  <2>1. /\ h \in Keys
        /\ taken = {}
        /\ taken' = waiting[h] /\ waiting' = [waiting EXCEPT ![h] = {}]
        /\ disposeTaken' = disposeTaken
    BY <1>3, HeadTailProperties DEF PumpTake, PumpShape, TypeOK
  <2>2. ASSUME NEW k \in Keys, NEW v \in waiting'[k]
        PROVE  k # h /\ v \in waiting[k]
    BY <2>1 DEF TypeOK
  <2>3. \A v \in taken' : KeyOf[v] = h /\ v \notin disposeTaken
    BY <2>1
  <2> QED
    BY <2>1, <2>2, <2>3
<1>4. CASE PumpDrain
  <2>1. /\ taken' = UNION {waiting[k] : k \in Keys}
        /\ waiting' = [k \in Keys |-> {}]
        /\ disposeTaken' = disposeTaken
    BY <1>4 DEF PumpDrain
  <2> QED
    BY <2>1
<1>5. CASE DisposeDrain
  <2>1. /\ disposeTaken' = UNION {waiting[k] : k \in Keys}
        /\ waiting' = [k \in Keys |-> {}]
        /\ taken' = taken
    BY <1>5 DEF DisposeDrain
  <2> QED
    BY <2>1
<1>6. ASSUME NEW w \in Waiters,
             CancelToken(w) \/ CancelComplete(w) \/ PumpComplete(w) \/ DisposeComplete(w)
      PROVE  ListsAreDisjoint'
  BY <1>6 DEF CancelToken, CancelComplete, PumpComplete, DisposeComplete
<1>7. ASSUME NEW e \in Polled, PumpPoll(e) PROVE ListsAreDisjoint'
  BY <1>7 DEF PumpPoll
<1>8. ASSUME NEW k \in IncomingKeys, TryDequeue(k) PROVE ListsAreDisjoint'
  BY <1>8 DEF TryDequeue
<1>9. CASE \/ PumpStop \/ PumpMark \/ PumpEnqueue \/ PumpRelease \/ PumpNext
           \/ DisposeBegin \/ DisposeJoin
  BY <1>9 DEF PumpStop, PumpMark, PumpEnqueue, PumpRelease, PumpNext, DisposeBegin, DisposeJoin
<1>10. CASE UNCHANGED cvars
  BY <1>10 DEF cvars
<1> QED
  BY <1>1, <1>2, <1>3, <1>4, <1>5, <1>6, <1>7, <1>8, <1>9, <1>10
     DEF Next, CallerNext, CancelNext, PumpStep, DisposeStep

LEMMA PendingStep ==
  TypeOK /\ PumpShape /\ PendingIsHeld /\ [Next]_cvars => PendingIsHeld'
<1> SUFFICES ASSUME TypeOK, PumpShape, PendingIsHeld, [Next]_cvars,
                    NEW v \in Waiters, task'[v] = "pending"
             PROVE  \/ v \in waiting'[KeyOf[v]]
                    \/ v \in taken'
                    \/ v \in disposeTaken'
                    \/ callback'[v] = "removed"
  BY DEF PendingIsHeld
<1> DEFINE Held ==
      \/ v \in waiting[KeyOf[v]]
      \/ v \in taken
      \/ v \in disposeTaken
      \/ callback[v] = "removed"
<1>k. KeyOf[v] \in Keys
  BY WaiterAssumption
<1>h. task[v] = "pending" => Held
  BY DEF PendingIsHeld
<1>1. ASSUME NEW w \in Waiters, Register(w) PROVE Held'
  <2>1. CASE v = w
    <3>1. waiting' = [waiting EXCEPT ![KeyOf[w]] = @ \cup {w}]
      BY <1>1, <2>1 DEF Register, TypeOK
    <3> QED
      BY <1>k, <2>1, <3>1 DEF TypeOK
  <2>2. CASE v # w
    <3>1. /\ task'[v] = task[v]
          /\ callback'[v] = callback[v]
          /\ UNCHANGED <<taken, disposeTaken>>
          /\ waiting' = waiting \/ waiting' = [waiting EXCEPT ![KeyOf[w]] = @ \cup {w}]
      BY <1>1, <2>2 DEF Register, TypeOK
    <3> QED
      BY <1>k, <1>h, <3>1, WaiterAssumption DEF TypeOK
  <2> QED
    BY <2>1, <2>2
<1>2. ASSUME NEW w \in Waiters, DisposeWaiter(w) \/ CancelRemove(w) PROVE Held'
  BY <1>2, <1>k, <1>h, WaiterAssumption DEF DisposeWaiter, CancelRemove, TypeOK
<1>3. ASSUME NEW w \in Waiters, CancelComplete(w) PROVE Held'
  BY <1>3, <1>h DEF CancelComplete, TypeOK
<1>4. ASSUME NEW w \in Waiters, PumpComplete(w) PROVE Held'
  BY <1>4, <1>h DEF PumpComplete, Outcome, TypeOK
<1>5. ASSUME NEW w \in Waiters, DisposeComplete(w) PROVE Held'
  BY <1>5, <1>h DEF DisposeComplete, TypeOK
<1>6. CASE PumpTake
  <2>1. Head(todo) \in Keys
    BY <1>6, HeadTailProperties DEF PumpTake, TypeOK
  <2>2. taken = {}
    BY <1>6 DEF PumpTake, PumpShape
  <2> QED
    BY <1>6, <1>k, <1>h, <2>1, <2>2 DEF PumpTake, TypeOK
<1>7. CASE PumpDrain
  <2>1. taken = {}
    BY <1>7 DEF PumpDrain, PumpShape
  <2> QED
    BY <1>7, <1>k, <1>h, <2>1 DEF PumpDrain
<1>8. CASE DisposeDrain
  <2>1. disposeTaken = {}
    BY <1>8 DEF DisposeDrain, PumpShape
  <2> QED
    BY <1>8, <1>k, <1>h, <2>1 DEF DisposeDrain
<1>9. ASSUME NEW w \in Waiters, CancelToken(w) PROVE Held'
  BY <1>9, <1>h DEF CancelToken
<1>10. ASSUME NEW e \in Polled, PumpPoll(e) PROVE Held'
  BY <1>10, <1>h DEF PumpPoll
<1>11. ASSUME NEW k \in IncomingKeys, TryDequeue(k) PROVE Held'
  BY <1>11, <1>h DEF TryDequeue
<1>12. CASE \/ PumpStop \/ PumpMark \/ PumpEnqueue \/ PumpRelease \/ PumpNext
            \/ DisposeBegin \/ DisposeJoin
  BY <1>12, <1>h
     DEF PumpStop, PumpMark, PumpEnqueue, PumpRelease, PumpNext, DisposeBegin, DisposeJoin
<1>13. CASE UNCHANGED cvars
  BY <1>13, <1>h DEF cvars
<1> QED
  BY <1>1, <1>2, <1>3, <1>4, <1>5, <1>6, <1>7, <1>8, <1>9, <1>10, <1>11, <1>12, <1>13
     DEF Next, CallerNext, CancelNext, PumpStep, DisposeStep

-----------------------------------------------------------------------------
(* Lost wakeups *)

\* Route completes the very tables whose waiters an event concerns.
LEMMA RouteCovers ==
  ASSUME NEW e \in NativeEvents, NEW k \in Keys,
         \/ e.type = "SESSION_CONNECTED" /\ k[1] = "connected" /\ k[2] = e.session
         \/ e.type = "SESSION_CLOSED" /\ k \in SessionKeys /\ k[2] = e.session
         \/ e.type = "STREAM_CLOSED" /\ k \in StreamKeys /\ k[2] = e.stream
         \/ e.type \in {"BIDI_STREAM_OPENED", "UNI_STREAM_OPENED"} /\ k = IncomingKey(e)
  PROVE  \E i \in 1 .. Len(Route(e)) : Route(e)[i] = k
<1>k. /\ k = <<k[1], k[2]>>
      /\ k \in SessionKeys => k[1] \in SessionTables
      /\ k \in StreamKeys => k[1] = "data"
  BY DEF Keys, SessionKeys, StreamKeys, SessionTables
<1>1. CASE e.type = "SESSION_CONNECTED"
  <2>1. k = <<"connected", e.session>> /\ Route(e) = << <<"connected", e.session>> >>
    BY <1>1, <1>k DEF Route
  <2> QED
    BY <2>1
<1>2. CASE e.type = "SESSION_CLOSED"
  <2>1. Route(e) = << <<"connected", e.session>>, <<"datagram", e.session>>,
                      <<"bidi", e.session>>, <<"uni", e.session>> >>
    BY <1>2 DEF Route
  <2>2. k[2] = e.session /\ k[1] \in {"connected", "datagram", "bidi", "uni"}
    BY <1>2, <1>k DEF SessionTables
  <2>3. \/ k = Route(e)[1] \/ k = Route(e)[2] \/ k = Route(e)[3] \/ k = Route(e)[4]
    BY <1>k, <2>1, <2>2
  <2>4. Len(Route(e)) = 4
    BY <2>1
  <2> QED
    BY <2>3, <2>4
<1>3. CASE e.type = "STREAM_CLOSED"
  <2>1. k = <<"data", e.stream>> /\ Route(e) = << <<"data", e.stream>> >>
    BY <1>3, <1>k DEF Route
  <2> QED
    BY <2>1
<1>4. CASE e.type \in {"BIDI_STREAM_OPENED", "UNI_STREAM_OPENED"}
  <2>1. k = IncomingKey(e) /\ Route(e) = << IncomingKey(e) >>
    BY <1>4 DEF Route
  <2> QED
    BY <2>1
<1> QED
  BY <1>1, <1>2, <1>3, <1>4

LEMMA PastStep ==
  TypeOK /\ PumpShape /\ NoSleeperOnPastEvent /\ [Next]_cvars => NoSleeperOnPastEvent'
<1> SUFFICES ASSUME TypeOK, PumpShape, NoSleeperOnPastEvent, [Next]_cvars,
                    NEW k \in Keys, Happened(k)'
             PROVE  waiting'[k] = {} \/ StillToTake(k)'
  BY DEF NoSleeperOnPastEvent
<1> DEFINE Covered == waiting[k] = {} \/ StillToTake(k)
<1>h. Happened(k) => Covered
  BY DEF NoSleeperOnPastEvent
<1> DEFINE Same == /\ connected' = connected /\ closedSessions' = closedSessions
                   /\ closedStreams' = closedStreams /\ incoming' = incoming
<1>s. Same => Happened(k)
  BY DEF Happened, AlreadyThere
<1>t. todo' = todo /\ StillToTake(k) => StillToTake(k)'
  BY DEF StillToTake
<1>c. ASSUME Happened(k), waiting'[k] \subseteq waiting[k], todo' = todo PROVE Covered'
  BY <1>h, <1>c, <1>t
<1>1. ASSUME NEW w \in Waiters, Register(w) PROVE Covered'
  <2>1. Same /\ todo' = todo
    BY <1>1 DEF Register
  <2>2. Happened(k)
    BY <1>s, <2>1
  <2>3. KeyOf[w] = k => AlreadyThere(k)
    BY <1>1, <2>2 DEF Register, Refuses, Happened, AlreadyThere
  <2>4. waiting'[k] \subseteq waiting[k]
    BY <1>1, <2>3, WaiterAssumption DEF Register, TypeOK
  <2> QED
    BY <1>c, <2>1, <2>2, <2>4
<1>2. ASSUME NEW w \in Waiters, DisposeWaiter(w) \/ CancelRemove(w) PROVE Covered'
  <2>1. Same /\ todo' = todo /\ waiting'[k] \subseteq waiting[k]
    BY <1>2, WaiterAssumption DEF DisposeWaiter, CancelRemove, TypeOK
  <2> QED
    BY <1>s, <1>c, <2>1
<1>3. ASSUME NEW j \in IncomingKeys, TryDequeue(j) PROVE Covered'
  <2>1. /\ waiting' = waiting /\ todo' = todo
        /\ connected' = connected /\ closedSessions' = closedSessions
        /\ closedStreams' = closedStreams
        /\ incoming'[k] # <<>> /\ k \in IncomingKeys => incoming[k] # <<>>
    BY <1>3 DEF TryDequeue, TypeOK
  <2>2. Happened(k)
    BY <2>1 DEF Happened, AlreadyThere
  <2> QED
    BY <1>c, <2>1, <2>2
<1>4. ASSUME NEW e \in Polled, PumpPoll(e) PROVE Covered'
  <2>1. Same /\ waiting' = waiting /\ todo = <<>>
    BY <1>4 DEF PumpPoll, PumpShape
  <2>2. ~StillToTake(k)
    BY <2>1 DEF StillToTake
  <2> QED
    BY <1>s, <1>h, <2>1, <2>2
<1>5. CASE PumpMark
  <2>1. CASE Happened(k)
    BY <1>5, <1>c, <2>1 DEF PumpMark
  <2>2. CASE ~Happened(k)
    <3>1. /\ ev \in NativeEvents
          /\ todo' = Route(ev)
      BY <1>5 DEF PumpMark, PumpShape, TypeOK, NoNativeEvent
    <3>2. \/ ev.type = "SESSION_CONNECTED" /\ k[1] = "connected" /\ k[2] = ev.session
          \/ ev.type = "SESSION_CLOSED" /\ k \in SessionKeys /\ k[2] = ev.session
          \/ ev.type = "STREAM_CLOSED" /\ k \in StreamKeys /\ k[2] = ev.stream
      BY <1>5, <2>2 DEF PumpMark, Happened, AlreadyThere
    <3>3. \E i \in 1 .. Len(Route(ev)) : Route(ev)[i] = k
      BY <3>1, <3>2, RouteCovers
    <3> QED
      BY <3>1, <3>3 DEF StillToTake
  <2> QED
    BY <2>1, <2>2
<1>6. CASE PumpEnqueue
  <2>1. /\ ev \in NativeEvents
        /\ ev.type \in {"BIDI_STREAM_OPENED", "UNI_STREAM_OPENED"}
        /\ todo' = Route(ev) /\ todo' = todo /\ waiting' = waiting
    BY <1>6 DEF PumpEnqueue, PumpShape, TypeOK, NoNativeEvent
  <2>2. CASE k = IncomingKey(ev)
    <3>1. \E i \in 1 .. Len(Route(ev)) : Route(ev)[i] = k
      BY <2>1, <2>2, RouteCovers
    <3> QED
      BY <2>1, <3>1 DEF StillToTake
  <2>3. CASE k # IncomingKey(ev)
    <3>1. /\ k \in IncomingKeys => incoming'[k] = incoming[k]
          /\ connected' = connected /\ closedSessions' = closedSessions
          /\ closedStreams' = closedStreams
      BY <1>6, <2>3 DEF PumpEnqueue, TypeOK
    <3>2. Happened(k)
      BY <3>1 DEF Happened, AlreadyThere
    <3> QED
      BY <1>c, <2>1, <3>2
  <2> QED
    BY <2>2, <2>3
<1>7. CASE PumpTake
  <2>1. /\ todo \in Seq(Keys) /\ todo # <<>>
        /\ todo' = Tail(todo)
        /\ waiting' = [waiting EXCEPT ![Head(todo)] = {}]
        /\ Same
    BY <1>7 DEF PumpTake, TypeOK
  <2>2. CASE k = Head(todo)
    BY <2>1, <2>2 DEF TypeOK
  <2>3. CASE k # Head(todo)
    <3>1. waiting'[k] = waiting[k]
      BY <2>1, <2>3 DEF TypeOK
    <3>2. ASSUME StillToTake(k) PROVE StillToTake(k)'
      <4>1. PICK i \in 1 .. Len(todo) : todo[i] = k
        BY <3>2 DEF StillToTake
      <4>2. i # 1
        BY <2>1, <2>3, <4>1
      <4>3. /\ i - 1 \in 1 .. Len(Tail(todo))
            /\ Tail(todo)[i - 1] = k
        BY <2>1, <4>1, <4>2
      <4> QED
        BY <2>1, <4>3 DEF StillToTake
    <3> QED
      BY <1>s, <1>h, <2>1, <3>1, <3>2
  <2> QED
    BY <2>2, <2>3
<1>8. CASE PumpDrain \/ DisposeDrain
  BY <1>8 DEF PumpDrain, DisposeDrain
<1>9. ASSUME NEW w \in Waiters,
             CancelToken(w) \/ CancelComplete(w) \/ PumpComplete(w) \/ DisposeComplete(w)
      PROVE  Covered'
  <2>1. Same /\ waiting' = waiting /\ todo' = todo
    BY <1>9 DEF CancelToken, CancelComplete, PumpComplete, DisposeComplete
  <2> QED
    BY <1>s, <1>c, <2>1
<1>10. CASE PumpStop \/ PumpRelease \/ PumpNext \/ DisposeBegin \/ DisposeJoin
  <2>1. Same /\ waiting' = waiting /\ todo' = todo
    BY <1>10 DEF PumpStop, PumpRelease, PumpNext, DisposeBegin, DisposeJoin
  <2> QED
    BY <1>s, <1>c, <2>1
<1>11. CASE UNCHANGED cvars
  <2>1. Same /\ waiting' = waiting /\ todo' = todo
    BY <1>11 DEF cvars
  <2> QED
    BY <1>s, <1>c, <2>1
<1> QED
  BY <1>1, <1>2, <1>3, <1>4, <1>5, <1>6, <1>7, <1>8, <1>9, <1>10, <1>11
     DEF Next, CallerNext, CancelNext, PumpStep, DisposeStep

-----------------------------------------------------------------------------
(* Peer streams *)

\* What queues hold, and that no element is in them twice.
Members(f) == UNION {{f[k][i] : i \in 1 .. Len(f[k])} : k \in DOMAIN f}
Distinct(f) ==
  \A j, k \in DOMAIN f : \A m \in 1 .. Len(f[j]), n \in 1 .. Len(f[k]) :
    f[j][m] = f[k][n] => j = k /\ m = n

LEMMA InMembers ==
  ASSUME NEW f, NEW x
  PROVE  x \in Members(f) <=> \E j \in DOMAIN f : \E i \in 1 .. Len(f[j]) : x = f[j][i]
<1> DEFINE cell(k) == {f[k][i] : i \in 1 .. Len(f[k])}
<1>1. \A j \in DOMAIN f : x \in cell(j) <=> \E i \in 1 .. Len(f[j]) : x = f[j][i]
  OBVIOUS
<1>2. Members(f) = UNION {cell(k) : k \in DOMAIN f}
  BY Zenon DEF Members
<1> HIDE DEF cell
<1>3. x \in UNION {cell(k) : k \in DOMAIN f} <=> \E j \in DOMAIN f : x \in cell(j)
  OBVIOUS
<1> QED
  BY <1>1, <1>2, <1>3

(* What happens to the queues of incoming streams. *)

Queues == [IncomingKeys -> Seq(Streams)]

LEMMA QueueRemove ==
  \A f, g \in Queues : \A k \in IncomingKeys :
    /\ f[k] # <<>> /\ Distinct(f)
    /\ g[k] = Tail(f[k]) /\ \A j \in IncomingKeys \ {k} : g[j] = f[j]
    => /\ Distinct(g)
       /\ Head(f[k]) \in Members(f)
       /\ Members(g) = Members(f) \ {Head(f[k])}
<1> SUFFICES ASSUME NEW f \in Queues, NEW g \in Queues, NEW k \in IncomingKeys,
                    f[k] # <<>>, Distinct(f),
                    g[k] = Tail(f[k]), \A j \in IncomingKeys \ {k} : g[j] = f[j]
             PROVE  /\ Distinct(g)
                    /\ Head(f[k]) \in Members(f)
                    /\ Members(g) = Members(f) \ {Head(f[k])}
  OBVIOUS
<1>f. f \in [IncomingKeys -> Seq(Streams)] /\ g \in [IncomingKeys -> Seq(Streams)]
  BY DEF Queues
<1> DEFINE q == f[k]
<1>1. /\ q \in Seq(Streams) /\ Len(q) \in Nat \ {0}
      /\ Tail(q) \in Seq(Streams) /\ Len(Tail(q)) = Len(q) - 1
      /\ \A i \in 1 .. Len(q) - 1 : Tail(q)[i] = q[i + 1]
      /\ Head(q) = q[1]
  BY <1>f, EmptySeq, HeadTailProperties
<1> DEFINE shift(j) == IF j = k THEN 1 ELSE 0
<1>3. \A j \in IncomingKeys : /\ Len(f[j]) \in Nat
                   /\ Len(g[j]) = Len(f[j]) - shift(j)
                   /\ \A i \in 1 .. Len(g[j]) : /\ i + shift(j) \in 1 .. Len(f[j])
                                               /\ g[j][i] = f[j][i + shift(j)]
  <2> TAKE j \in IncomingKeys
  <2>1. Len(f[j]) \in Nat
    BY <1>f, LenProperties
  <2>2. CASE j = k
    <3>1. g[j] = Tail(q) /\ f[j] = q /\ shift(j) = 1
      BY <2>2
    <3> HIDE DEF q
    <3>2. \A i \in 1 .. Len(Tail(q)) : i + 1 \in 1 .. Len(q) /\ Tail(q)[i] = q[i + 1]
      BY <1>1
    <3> HIDE DEF shift
    <3> QED
      BY <1>1, <3>1, <3>2
  <2>3. CASE j # k
    <3>1. g[j] = f[j] /\ shift(j) = 0
      BY <2>3
    <3> HIDE DEF shift
    <3>2. \A i \in 1 .. Len(g[j]) : i + 0 = i
      BY <2>1, <3>1
    <3> QED
      BY <2>1, <3>1, <3>2
  <2> QED
    BY <2>2, <2>3
<1>d. DOMAIN f = IncomingKeys /\ DOMAIN g = IncomingKeys
  BY <1>f
<1>4. Distinct(g)
  BY <1>3, <1>d DEF Distinct
<1>5. Head(q) \in Members(f)
  BY <1>1, <1>d, InMembers
<1>m. \A x : x \in Members(g) <=> \E j \in DOMAIN g : \E i \in 1 .. Len(g[j]) : x = g[j][i]
  BY InMembers
<1>6. ASSUME NEW x \in Members(g) PROVE x \in Members(f) /\ x # Head(q)
  <2>0. PICK j \in IncomingKeys : \E i \in 1 .. Len(g[j]) : x = g[j][i]
    BY <1>d, <1>m
  <2>1. PICK i \in 1 .. Len(g[j]) : x = g[j][i]
    BY <2>0
  <2>2. x = f[j][i + shift(j)] /\ i + shift(j) \in 1 .. Len(f[j])
    BY <1>3, <2>1
  <2>3. ~(j = k /\ i + shift(j) = 1)
    BY <1>3, <2>1
  <2>q. 1 \in 1 .. Len(f[k])
    BY <1>1
  <2>e. f[j][i + shift(j)] = f[k][1] => j = k /\ i + shift(j) = 1
    <3> DEFINE n == i + shift(j)
    <3>1. n \in 1 .. Len(f[j])
      BY <2>2
    <3> HIDE DEF n
    <3>2. f[j][n] = f[k][1] => j = k /\ n = 1
      BY <1>d, <2>q, <3>1 DEF Distinct
    <3> QED BY <3>2 DEF n
  <2>4. x # q[1]
    BY <2>2, <2>3, <2>e
  <2>5. x \in Members(f)
    BY <1>d, <2>2, InMembers
  <2> QED
    BY <1>1, <2>4, <2>5
<1>7. ASSUME NEW x \in Members(f), x # Head(q) PROVE x \in Members(g)
  <2>0. PICK j \in IncomingKeys : \E i \in 1 .. Len(f[j]) : x = f[j][i]
    BY <1>d, InMembers
  <2>1. PICK i \in 1 .. Len(f[j]) : x = f[j][i]
    BY <2>0
  <2>2. ~(j = k /\ i = 1)
    BY <1>1, <1>7, <2>1
  <2>3. i - shift(j) \in 1 .. Len(g[j]) /\ g[j][i - shift(j)] = x
    <3>1. CASE j = k
      <4>1. /\ g[j] = Tail(q) /\ shift(j) = 1
            /\ i \in 1 .. Len(q) /\ i # 1 /\ x = q[i]
        BY <2>1, <2>2, <3>1
      <4> HIDE DEF q, shift
      <4>2. i - 1 \in 1 .. Len(q) - 1 /\ (i - 1) + 1 = i
        BY <1>1, <4>1
      <4>3. Tail(q)[i - 1] = q[i]
        BY <1>1, <4>2
      <4> QED
        BY <1>1, <4>1, <4>2, <4>3
    <3>2. CASE j # k
      <4>1. g[j] = f[j] /\ shift(j) = 0 /\ i - 0 = i
        BY <2>1, <3>2
      <4> HIDE DEF shift
      <4> QED
        BY <2>1, <4>1
    <3> QED
      BY <3>1, <3>2
  <2> QED
    BY <1>d, <2>3, InMembers
<1> QED
  BY <1>4, <1>5, <1>6, <1>7

LEMMA QueueAdd ==
  \A f, g \in Queues : \A k \in IncomingKeys, s \in Streams :
    /\ Distinct(f) /\ s \notin Members(f)
    /\ g[k] = Append(f[k], s) /\ \A j \in IncomingKeys \ {k} : g[j] = f[j]
    => Distinct(g) /\ Members(g) = Members(f) \cup {s}
<1> SUFFICES ASSUME NEW f \in Queues, NEW g \in Queues, NEW k \in IncomingKeys,
                    NEW s \in Streams, Distinct(f), s \notin Members(f),
                    g[k] = Append(f[k], s), \A j \in IncomingKeys \ {k} : g[j] = f[j]
             PROVE  Distinct(g) /\ Members(g) = Members(f) \cup {s}
  OBVIOUS
<1>f. f \in [IncomingKeys -> Seq(Streams)] /\ g \in [IncomingKeys -> Seq(Streams)]
  BY DEF Queues
<1> DEFINE q == f[k]
<1>1. /\ q \in Seq(Streams) /\ Len(q) \in Nat
      /\ Append(q, s) \in Seq(Streams) /\ Len(Append(q, s)) = Len(q) + 1
      /\ \A i \in 1 .. Len(q) : Append(q, s)[i] = q[i]
      /\ Append(q, s)[Len(q) + 1] = s
  BY <1>f, AppendProperties
<1>d. DOMAIN f = IncomingKeys /\ DOMAIN g = IncomingKeys
  BY <1>f
<1> DEFINE last(j, i) == j = k /\ i = Len(q) + 1
<1>3. \A j \in IncomingKeys :
                   /\ Len(f[j]) \in Nat
                   /\ \A i \in 1 .. Len(g[j]) :
                        /\ last(j, i) => g[j][i] = s
                        /\ ~last(j, i) => i \in 1 .. Len(f[j]) /\ g[j][i] = f[j][i]
                   /\ \A i \in 1 .. Len(f[j]) : i \in 1 .. Len(g[j]) /\ g[j][i] = f[j][i]
  <2> TAKE j \in IncomingKeys
  <2>1. Len(f[j]) \in Nat
    BY <1>f, LenProperties
  <2>2. CASE j = k
    <3>1. /\ Len(f[j]) = Len(q) /\ Len(g[j]) = Len(q) + 1 /\ g[j][Len(q) + 1] = s
          /\ \A i \in 1 .. Len(q) : g[j][i] = f[j][i]
      BY <1>1, <2>2
    <3>2. \A i : last(j, i) <=> i = Len(q) + 1
      BY <2>2
    <3>3. /\ Len(q) \in Nat
          /\ \A i \in 1 .. Len(q) + 1 : i = Len(q) + 1 \/ i \in 1 .. Len(q)
          /\ \A i \in 1 .. Len(q) : i \in 1 .. Len(q) + 1
      BY <1>1
    <3> HIDE DEF last, q
    <3> QED
      BY <2>1, <3>1, <3>2, <3>3
  <2>3. CASE j # k
    <3>1. g[j] = f[j] /\ \A i : ~last(j, i)
      BY <2>3
    <3> QED
      BY <2>1, <3>1
  <2> QED
    BY <2>2, <2>3
<1>4. \A j \in IncomingKeys : \A i \in 1 .. Len(f[j]) : f[j][i] # s
  BY <1>d, InMembers
<1>5. Distinct(g)
  BY <1>3, <1>4, <1>d DEF Distinct
<1>m. \A x : x \in Members(g) <=> \E j \in DOMAIN g : \E i \in 1 .. Len(g[j]) : x = g[j][i]
  BY InMembers
<1>6. ASSUME NEW x \in Members(g) PROVE x \in Members(f) \cup {s}
  <2>0. PICK j \in IncomingKeys : \E i \in 1 .. Len(g[j]) : x = g[j][i]
    BY <1>d, <1>m
  <2>1. PICK i \in 1 .. Len(g[j]) : x = g[j][i]
    BY <2>0
  <2>2. x = s \/ (i \in 1 .. Len(f[j]) /\ x = f[j][i])
    BY <1>3, <2>1
  <2> QED
    BY <1>d, <2>2, InMembers
<1>7. s \in Members(g)
  <2>1. Len(q) + 1 \in 1 .. Len(g[k]) /\ g[k][Len(q) + 1] = s
    BY <1>1
  <2> QED
    BY <1>d, <2>1, InMembers
<1>8. ASSUME NEW x \in Members(f) PROVE x \in Members(g)
  <2>0. PICK j \in IncomingKeys : \E i \in 1 .. Len(f[j]) : x = f[j][i]
    BY <1>d, InMembers
  <2>1. PICK i \in 1 .. Len(f[j]) : x = f[j][i]
    BY <2>0
  <2>2. i \in 1 .. Len(g[j]) /\ g[j][i] = x
    BY <1>3, <2>1
  <2> QED
    BY <1>d, <2>2, InMembers
<1> QED
  BY <1>5, <1>6, <1>7, <1>8

\* StreamHasOneOwner in these terms.
Owned ==
  /\ opened = InPumpsHand \cup Members(incoming) \cup accepted \cup released
  /\ accepted \cap released = {}
  /\ (InPumpsHand \cup Members(incoming)) \cap (accepted \cup released) = {}
  /\ InPumpsHand \cap Members(incoming) = {}
  /\ Distinct(incoming)

LEMMA OwnedIsOwner == TypeOK => (StreamHasOneOwner <=> Owned)
<1> SUFFICES ASSUME TypeOK PROVE StreamHasOneOwner <=> Owned
  OBVIOUS
<1>1. DOMAIN incoming = IncomingKeys
  BY DEF TypeOK
<1>2. Members(incoming) = AllQueued
  BY <1>1, Zenon DEF Members, AllQueued, Queued
<1>3. Distinct(incoming) <=>
        \A j, k \in IncomingKeys :
          \A m \in 1 .. Len(incoming[j]), n \in 1 .. Len(incoming[k]) :
            incoming[j][m] = incoming[k][n] => j = k /\ m = n
  BY <1>1, Zenon DEF Distinct
<1> QED
  BY <1>2, <1>3, Zenon DEF StreamHasOneOwner, Owned

\* What the pump has in hand, by where it is.
LEMMA HandFacts ==
  ASSUME TypeOK, PumpShape
  PROVE  /\ pumpPc \notin {"mark", "release"} => InPumpsHand = {}
         /\ pumpPc = "release" => InPumpsHand = {dropped}
         /\ pumpPc = "mark" /\ ev \in OpenedEvents => InPumpsHand = {ev.stream}
         /\ pumpPc = "mark" /\ ev \notin OpenedEvents => InPumpsHand = {}
<1>1. pumpPc = "mark" /\ ev \in OpenedEvents => ev.stream \in Streams
  BY DEF OpenedEvents
<1> QED
  BY <1>1 DEF TypeOK, PumpShape, InPumpsHand

\* Steps that move no stream.
LEMMA OwnedSame ==
  ASSUME Owned, UNCHANGED <<incoming, opened, accepted, released>>, InPumpsHand' = InPumpsHand
  PROVE  Owned'
BY DEF Owned, Members, Distinct

LEMMA OwnedStep ==
  TypeOK /\ PumpShape /\ TypeOK' /\ PumpShape' /\ Owned /\ [Next]_cvars => Owned'
<1> SUFFICES ASSUME TypeOK, PumpShape, TypeOK', PumpShape', Owned, [Next]_cvars
             PROVE  Owned'
  OBVIOUS
<1>h. /\ pumpPc' \notin {"mark", "release"} => InPumpsHand' = {}
      /\ pumpPc' = "release" => InPumpsHand' = {dropped'}
      /\ pumpPc' = "mark" /\ ev' \in OpenedEvents => InPumpsHand' = {ev'.stream}
      /\ pumpPc' = "mark" /\ ev' \notin OpenedEvents => InPumpsHand' = {}
  <2>1. (TypeOK /\ PumpShape =>
          /\ pumpPc \notin {"mark", "release"} => InPumpsHand = {}
          /\ pumpPc = "release" => InPumpsHand = {dropped}
          /\ pumpPc = "mark" /\ ev \in OpenedEvents => InPumpsHand = {ev.stream}
          /\ pumpPc = "mark" /\ ev \notin OpenedEvents => InPumpsHand = {})'
    BY HandFacts, PTL
  <2> QED
    BY <2>1
<1>f. incoming \in [IncomingKeys -> Seq(Streams)] /\ incoming' \in [IncomingKeys -> Seq(Streams)]
  BY DEF TypeOK
<1>g. incoming \in Queues /\ incoming' \in Queues
  BY <1>f DEF Queues
<1>1. ASSUME NEW e \in Polled, PumpPoll(e) PROVE Owned'
  <2>1. InPumpsHand = {}
    BY <1>1, HandFacts DEF PumpPoll
  <2>2. CASE e \in OpenedEvents
    <3>1. /\ e.stream \notin opened /\ opened' = opened \cup {e.stream}
          /\ FirstStep(e) = "mark"
          /\ UNCHANGED <<incoming, accepted, released>>
      BY <1>1, <2>2 DEF PumpPoll, FirstStep, OpenedEvents
    <3>2. InPumpsHand' = {e.stream}
      BY <1>1, <1>h, <2>2, <3>1 DEF PumpPoll
    <3>3. Members(incoming)' = Members(incoming) /\ Distinct(incoming)'
      BY <3>1 DEF Owned, Members, Distinct
    <3> QED
      BY <2>1, <3>1, <3>2, <3>3 DEF Owned
  <2>3. CASE e \notin OpenedEvents
    <3>1. pumpPc' # "release" /\ (pumpPc' = "mark" => ev' = e)
      BY <1>1, <2>3 DEF PumpPoll, FirstStep
    <3>2. InPumpsHand' = {}
      BY <1>h, <2>3, <3>1
    <3>3. UNCHANGED <<incoming, opened, accepted, released>>
      BY <1>1, <2>3 DEF PumpPoll
    <3> QED
      BY <2>1, <3>2, <3>3, OwnedSame
  <2> QED
    BY <2>2, <2>3
<1>2. CASE PumpEnqueue
  <2> DEFINE k == IncomingKey(ev)
             s == ev.stream
             q == incoming[k]
             full == Len(q) >= MaxIncoming
  <2>1. /\ ev \in OpenedEvents /\ s \in Streams /\ k \in IncomingKeys
    BY <1>2, EventFields DEF PumpEnqueue, TypeOK, NoNativeEvent
  <2>2. InPumpsHand = {s}
    BY <1>2, <2>1, HandFacts DEF PumpEnqueue
  <2>3. /\ s \notin Members(incoming) /\ s \notin accepted \cup released
        /\ Distinct(incoming)
    BY <2>2 DEF Owned
  <2>4. /\ UNCHANGED <<opened, accepted, released>>
        /\ incoming' = [incoming EXCEPT ![k] = Append(IF full THEN Tail(@) ELSE @, s)]
        /\ dropped' = IF full THEN Head(q) ELSE NoStream
        /\ pumpPc' = IF full THEN "release" ELSE "take"
    BY <1>2 DEF PumpEnqueue
  <2>5. CASE ~full
    <3>1. /\ incoming'[k] = Append(q, s)
          /\ \A j \in IncomingKeys \ {k} : incoming'[j] = incoming[j]
      BY <1>f, <2>1, <2>4, <2>5
    <3>2. Distinct(incoming') /\ Members(incoming') = Members(incoming) \cup {s}
      <4>1. incoming'[k] = Append(incoming[k], s)
        BY <3>1
      <4> HIDE DEF k, s, q
      <4> QED
        BY <1>g, <2>1, <2>3, <3>1, <4>1, QueueAdd
    <3>3. InPumpsHand' = {}
      BY <1>h, <2>4, <2>5
    <3> QED
      BY <2>2, <2>3, <2>4, <3>2, <3>3 DEF Owned
  <2>6. CASE full
    <3>1. q # <<>>
      <4>1. Len(<<>>) = 0
        OBVIOUS
      <4> QED
        BY <2>6, <4>1, IncomingAssumption
    <3> DEFINE mid == [incoming EXCEPT ![k] = Tail(@)]
    <3>2. Tail(q) \in Seq(Streams)
      BY <1>f, <2>1, <3>1, HeadTailProperties
    <3>3. /\ mid \in [IncomingKeys -> Seq(Streams)]
          /\ mid[k] = Tail(q)
          /\ \A j \in IncomingKeys \ {k} : mid[j] = incoming[j]
      BY <1>f, <2>1, <3>2
    <3>4. /\ incoming'[k] = Append(mid[k], s)
          /\ \A j \in IncomingKeys \ {k} : incoming'[j] = mid[j]
      BY <1>f, <2>1, <2>4, <2>6
    <3> HIDE DEF mid
    <3>5. /\ Distinct(mid)
          /\ Head(q) \in Members(incoming)
          /\ Members(mid) = Members(incoming) \ {Head(q)}
      <4>1. /\ mid \in Queues /\ incoming[k] # <<>>
            /\ mid[k] = Tail(incoming[k])
        BY <3>1, <3>3 DEF Queues
      <4>2. /\ Distinct(mid)
            /\ Head(incoming[k]) \in Members(incoming)
            /\ Members(mid) = Members(incoming) \ {Head(incoming[k])}
        <5> HIDE DEF k, s
        <5> QED
          BY <1>g, <2>1, <2>3, <3>3, <4>1, QueueRemove
      <4> QED
        BY <4>2
    <3>6. /\ Distinct(incoming')
          /\ Members(incoming') = Members(mid) \cup {s}
      <4>1. mid \in Queues
        BY <3>3 DEF Queues
      <4> HIDE DEF k, s
      <4> QED
        BY <1>g, <2>1, <2>3, <3>4, <3>5, <4>1, QueueAdd
    <3>7. InPumpsHand' = {Head(q)}
      BY <1>h, <2>4, <2>6
    <3>8. /\ Members(incoming') = (Members(incoming) \ {Head(q)}) \cup {s}
          /\ UNCHANGED <<opened, accepted, released>>
      BY <2>4, <3>5, <3>6
    <3> HIDE DEF k, s, q
    <3> QED
      BY <2>2, <2>3, <3>5, <3>6, <3>7, <3>8 DEF Owned
  <2> QED
    BY <2>5, <2>6
<1>3. CASE PumpRelease
  <2>1. InPumpsHand = {dropped}
    BY <1>3, HandFacts DEF PumpRelease
  <2>2. InPumpsHand' = {}
    BY <1>3, <1>h DEF PumpRelease
  <2>3. /\ UNCHANGED <<incoming, opened, accepted>>
        /\ released' = released \cup {dropped}
    BY <1>3 DEF PumpRelease
  <2>4. Members(incoming)' = Members(incoming) /\ Distinct(incoming)'
    BY <2>3 DEF Owned, Members, Distinct
  <2> QED
    BY <2>1, <2>2, <2>3, <2>4 DEF Owned
<1>4. ASSUME NEW k \in IncomingKeys, TryDequeue(k) PROVE Owned'
  <2> DEFINE q == incoming[k]
  <2>1. /\ q # <<>>
        /\ accepted' = accepted \cup {Head(q)}
        /\ incoming' = [incoming EXCEPT ![k] = Tail(@)]
        /\ UNCHANGED <<opened, released, pumpPc, ev, dropped>>
    BY <1>4 DEF TryDequeue
  <2>2. /\ incoming'[k] = Tail(q)
        /\ \A j \in IncomingKeys \ {k} : incoming'[j] = incoming[j]
    BY <1>f, <2>1
  <2>3. /\ Distinct(incoming')
        /\ Head(q) \in Members(incoming)
        /\ Members(incoming') = Members(incoming) \ {Head(q)}
    <3>1. Distinct(incoming) /\ incoming[k] # <<>> /\ incoming'[k] = Tail(incoming[k])
      BY <2>1, <2>2 DEF Owned
    <3>2. /\ Distinct(incoming')
          /\ Head(incoming[k]) \in Members(incoming)
          /\ Members(incoming') = Members(incoming) \ {Head(incoming[k])}
      BY <1>g, <2>2, <3>1, QueueRemove
    <3> QED
      BY <3>2
  <2>4. InPumpsHand' = InPumpsHand
    BY <2>1 DEF InPumpsHand
  <2> HIDE DEF q
  <2> QED
    BY <2>1, <2>3, <2>4 DEF Owned
<1>5. CASE PumpMark
  <2>1. ev \notin OpenedEvents /\ pumpPc = "mark" /\ pumpPc' = "take"
        /\ UNCHANGED <<incoming, opened, accepted, released>>
    BY <1>5 DEF PumpMark, OpenedEvents
  <2>2. InPumpsHand = {} /\ InPumpsHand' = {}
    BY <1>h, <2>1, HandFacts
  <2> QED
    BY <2>1, <2>2, OwnedSame
<1>6. CASE PumpStop \/ PumpTake \/ PumpDrain \/ PumpNext
  <2>1. /\ pumpPc \notin {"mark", "release"} /\ pumpPc' \notin {"mark", "release"}
        /\ UNCHANGED <<incoming, opened, accepted, released>>
    BY <1>6 DEF PumpStop, PumpTake, PumpDrain, PumpNext
  <2>2. InPumpsHand = {} /\ InPumpsHand' = {}
    BY <1>h, <2>1, HandFacts
  <2> QED
    BY <2>1, <2>2, OwnedSame
<1>7. ASSUME NEW w \in Waiters,
             \/ CallerNext(w) \/ CancelNext(w) \/ PumpComplete(w) \/ DisposeComplete(w)
      PROVE  Owned'
  <2>1. UNCHANGED <<incoming, opened, accepted, released, pumpPc, ev, dropped>>
    BY <1>7 DEF CallerNext, CancelNext, Register, DisposeWaiter, CancelToken, CancelRemove,
                CancelComplete, PumpComplete, DisposeComplete
  <2> QED
    BY <2>1, OwnedSame DEF InPumpsHand
<1>8. CASE DisposeBegin \/ DisposeStep \/ UNCHANGED cvars
  <2>1. UNCHANGED <<incoming, opened, accepted, released, pumpPc, ev, dropped>>
    BY <1>8 DEF DisposeBegin, DisposeStep, DisposeDrain, DisposeJoin, cvars
  <2> QED
    BY <2>1, OwnedSame DEF InPumpsHand
<1> QED
  BY <1>1, <1>2, <1>3, <1>4, <1>5, <1>6, <1>7, <1>8 DEF Next, PumpStep

-----------------------------------------------------------------------------
(* The inductive invariant and the theorems. *)

\* TypeOK and PumpShape support each other, and every other conjunct is
\* inductive once they hold.
IInv ==
  /\ TypeOK
  /\ PumpShape
  /\ NoSleeperAfterTerminal
  /\ ListsAreDisjoint
  /\ PendingIsHeld
  /\ NoSleeperOnPastEvent
  /\ Owned

LEMMA OwnedInit == Init => Owned
<1> SUFFICES ASSUME Init PROVE Owned
  OBVIOUS
<1>1. DOMAIN incoming = IncomingKeys /\ \A k \in IncomingKeys : Len(incoming[k]) = 0
  BY DEF Init
<1>2. Members(incoming) = {}
  BY <1>1, InMembers
<1>3. Distinct(incoming)
  BY <1>1 DEF Distinct
<1>4. InPumpsHand = {}
  BY DEF Init, InPumpsHand
<1> QED
  BY <1>2, <1>3, <1>4 DEF Init, Owned

LEMMA IInvInit == Init => IInv
<1> SUFFICES ASSUME Init PROVE IInv
  OBVIOUS
<1>1. TypeOK /\ PumpShape /\ Owned
  BY TypeInit, ShapeInit, OwnedInit
<1>2. /\ NoSleeperAfterTerminal
      /\ ListsAreDisjoint
      /\ PendingIsHeld
      /\ NoSleeperOnPastEvent
  BY DEF Init, NoSleeperAfterTerminal, ListsAreDisjoint, PendingIsHeld, NoSleeperOnPastEvent
<1> QED
  BY <1>1, <1>2 DEF IInv

LEMMA IInvStep == IInv /\ [Next]_cvars => IInv'
<1> SUFFICES ASSUME IInv, [Next]_cvars PROVE IInv'
  OBVIOUS
<1>1. TypeOK' /\ PumpShape'
  BY TypeStep, ShapeStep DEF IInv
<1>2. /\ NoSleeperAfterTerminal'
      /\ ListsAreDisjoint'
      /\ PendingIsHeld'
      /\ NoSleeperOnPastEvent'
  BY TerminalStep, ListsStep, PendingStep, PastStep DEF IInv
<1>3. Owned'
  BY <1>1, OwnedStep DEF IInv
<1> QED
  BY <1>1, <1>2, <1>3 DEF IInv

\* The inductive invariant holds in every reachable state.
THEOREM Invariance == Spec => []IInv
BY IInvInit, IInvStep, PTL DEF Spec

\* Every variable keeps its type.
THEOREM TypeCorrect == Spec => []TypeOK
<1>1. IInv => TypeOK
  BY DEF IInv
<1> QED
  BY <1>1, Invariance, PTL

\* No waiter sleeps in a table on an event that the coordinator has already
\* remembered, unless the pump is on its way to that table: CompleteWaiters
\* after the set or queue was updated loses nobody who registered in between.
THEOREM NoLostWakeupInTables == Spec => []NoSleeperOnPastEvent
<1>1. IInv => NoSleeperOnPastEvent
  BY DEF IInv
<1> QED
  BY <1>1, Invariance, PTL

\* CompleteAll leaves nobody behind: after the terminal exception is published
\* the tables are and stay empty.
THEOREM TablesEmptyAfterTerminal == Spec => []NoSleeperAfterTerminal
<1>1. IInv => NoSleeperAfterTerminal
  BY DEF IInv
<1> QED
  BY <1>1, Invariance, PTL

\* A pending waiter is always in a table, in a list somebody completes, or in
\* the hands of its cancellation.
THEOREM NobodyForgotten == Spec => []PendingIsHeld
<1>1. IInv => PendingIsHeld
  BY DEF IInv
<1> QED
  BY <1>1, Invariance, PTL

\* The lists completed outside the lock belong to one thread each.
THEOREM ListsOwned == Spec => []ListsAreDisjoint
<1>1. IInv => ListsAreDisjoint
  BY DEF IInv
<1> QED
  BY <1>1, Invariance, PTL

\* Every announced peer stream is queued, accepted once or released once.
THEOREM OneOwner == Spec => []StreamHasOneOwner
<1>1. IInv => StreamHasOneOwner
  BY OwnedIsOwner DEF IInv
<1> QED
  BY <1>1, Invariance, PTL


USE DEF eventVars, callVars, peerVars, queueVars, endVars

-----------------------------------------------------------------------------
(* The client and the coordinator *)

\* The coordinator is polled for native events only.
EventsTyped == events \in Seq(NativeEvents)

\* The native library announces nothing but native events.
LEMMA PushTyped ==
  ASSUME EventsTyped, NEW e \in NativeEvents, Push(e)
  PROVE  EventsTyped'
BY AppendProperties DEF EventsTyped, Push

LEMMA SessionEventIsNative ==
  ASSUME NEW t \in {"SESSION_CONNECTED", "SESSION_CLOSED", "DATAGRAM_RECEIVED"}
  PROVE  SessionEvent(t) \in NativeEvents
BY ClientAssumption DEF SessionEvent, NativeEvents, SessionEvents

LEMMA EventsTypedStep == EventsTyped /\ [ClientNext]_vars => EventsTyped'
<1> SUFFICES ASSUME EventsTyped, [ClientNext]_vars PROVE EventsTyped'
  OBVIOUS
<1>1. ASSUME NEW how \in {"accepted", "rejected"}, PeerAnswers(how) PROVE EventsTyped'
  <2>1. [type |-> "ERROR"] \in NativeEvents
    BY DEF NativeEvents, ClientEvents
  <2> QED
    BY <1>1, <2>1, PushTyped, SessionEventIsNative DEF PeerAnswers
<1>2. CASE PeerSendsDatagram
  <2>1. [type |-> "ERROR"] \in NativeEvents
    BY DEF NativeEvents, ClientEvents
  <2> QED
    BY <1>2, <2>1, PushTyped, SessionEventIsNative DEF PeerSendsDatagram
<1>3. ASSUME NEW s \in Streams, PeerSendsData(s) PROVE EventsTyped'
  <2>1. [type |-> "STREAM_DATA_RECEIVED", stream |-> s] \in NativeEvents
    BY DEF NativeEvents, StreamEvents
  <2> QED
    BY <1>3, <2>1, PushTyped DEF PeerSendsData, EventsTyped
<1>4. ASSUME NEW s \in Streams, StreamEnds(s) PROVE EventsTyped'
  <2>1. [type |-> "STREAM_CLOSED", stream |-> s] \in NativeEvents
    BY DEF NativeEvents, StreamEvents
  <2> QED
    BY <1>4, <2>1, PushTyped DEF StreamEnds
<1>5. ASSUME NEW k \in PeerDirections \X {Session}, NEW s \in Streams, PeerOpensStream(k, s)
      PROVE  EventsTyped'
  <2>1. [type |-> IF k[1] = "bidi" THEN "BIDI_STREAM_OPENED" ELSE "UNI_STREAM_OPENED",
         session |-> Session, stream |-> s] \in NativeEvents
    BY ClientAssumption DEF NativeEvents, OpenedEvents
  <2> QED
    BY <1>5, <2>1, PushTyped DEF PeerOpensStream
<1>6. ASSUME NEW t \in {"CLIENT_CLOSED", "ERROR"}, ConnectionEnds(t) PROVE EventsTyped'
  <2>1. [type |-> t] \in NativeEvents
    BY DEF NativeEvents, ClientEvents
  <2> QED
    BY <1>6, <2>1, PushTyped DEF ConnectionEnds
<1>15. CASE HandshakeCompletes \/ ConnectionOver
  <2>1. [type |-> "CLIENT_CONNECTED"] \in NativeEvents /\ [type |-> "CLIENT_CLOSED"] \in NativeEvents
    BY DEF NativeEvents, ClientEvents
  <2> QED
    BY <1>15, <2>1, PushTyped DEF HandshakeCompletes, ConnectionOver
<1>7. CASE PollNative
  BY <1>7, HeadTailProperties DEF PollNative, EventsTyped
<1>8. ASSUME NEW how \in {"closing", "disposing"}, CloseBegin(how) PROVE EventsTyped'
  BY <1>8, PushTyped, SessionEventIsNative DEF CloseBegin, EventsTyped
<1>9. CASE AdapterRelease
  BY <1>9, EmptySeq DEF AdapterRelease, EventsTyped
<1>10. CASE UNCHANGED events
  BY <1>10 DEF EventsTyped
<1>11. ASSUME NEW w \in Waiters, CallNext(w) PROVE UNCHANGED events
  BY <1>11 DEF CallNext, CallStep, Start, Connect, ThrowFrom, ReceiveTry, AcceptTry, ReadTry,
               ReadChecksClosed, RegisterCall, Resume, ConnectTimeout, Leave, Abandon, Stay
<1>12. CASE AdapterShutdown \/ CloseShutdown \/ CloseRelease \/ AdapterDetach \/ AdapterDispose
  <2>1. UNCHANGED events
    BY <1>12 DEF AdapterShutdown, CloseShutdown, CloseRelease, AdapterDetach, AdapterDispose
  <2> QED
    BY <1>10, <2>1
<1>13. CASE CoordinatorNext
  <2>1. PollNative \/ UNCHANGED events
    BY <1>13 DEF CoordinatorNext, mvars
  <2> QED
    BY <1>7, <1>10, <2>1
<1>14. CASE UNCHANGED vars
  BY <1>10, <1>14 DEF vars, mvars
<1> QED
  BY <1>1, <1>2, <1>3, <1>4, <1>5, <1>6, <1>8, <1>9, <1>10, <1>11, <1>12, <1>13, <1>14, <1>15
     DEF ClientNext, NativeNext, EndStep

-----------------------------------------------------------------------------
(* What each action is to the coordinator. *)

\* A call only registers, leaves its table, or takes a queued stream.
LEMMA CallIsCallerStep ==
  ASSUME NEW w \in Waiters, CallNext(w)
  PROVE  [Next]_cvars
<1>1. CASE RegisterCall(w)
  <2>1. Register(w) \/ UNCHANGED cvars
    BY <1>1 DEF RegisterCall
  <2> QED
    BY <2>1 DEF Next, CallerNext
<1>2. CASE Resume(w) \/ Leave(w)
  <2>1. DisposeWaiter(w)
    BY <1>2 DEF Resume, Leave
  <2> QED
    BY <2>1 DEF Next, CallerNext
<1>3. CASE AcceptTry(w)
  <2>1. KeyOf[w] \in IncomingKeys
    BY <1>3 DEF AcceptTry, Acceptors
  <2>2. TryDequeue(KeyOf[w]) \/ UNCHANGED cvars
    BY <1>3 DEF AcceptTry
  <2> QED
    BY <2>1, <2>2 DEF Next
<1>4. CASE \/ Start(w) \/ Connect(w) \/ ThrowFrom(w) \/ ReceiveTry(w) \/ ReadTry(w) \/ ReadChecksClosed(w)
           \/ ConnectTimeout(w) \/ Abandon(w)
  BY <1>4 DEF Start, Connect, ThrowFrom, ReceiveTry, ReadTry, ReadChecksClosed, ConnectTimeout, Abandon
<1> QED
  BY <1>1, <1>2, <1>3, <1>4 DEF CallNext, CallStep

LEMMA ClientStepIsCoordinatorStep == EventsTyped /\ [ClientNext]_vars => [Next]_cvars
<1> SUFFICES ASSUME EventsTyped, [ClientNext]_vars PROVE [Next]_cvars
  OBVIOUS
<1>1. CASE NativeNext
  BY <1>1 DEF NativeNext, PeerAnswers, PeerSendsDatagram, PeerSendsData, StreamEnds,
              PeerOpensStream, ConnectionEnds, HandshakeCompletes, ConnectionOver
<1>2. CASE PollNative
  <2>1. Head(events) \in Polled
    BY <1>2, HeadTailProperties, ClientAssumption DEF PollNative, EventsTyped
  <2> QED
    BY <1>2, <2>1 DEF PollNative, Next
<1>3. CASE CoordinatorNext
  <2>1. \/ PollNative \/ PumpStep \/ DisposeStep
        \/ \E w \in Waiters : PumpComplete(w) \/ DisposeComplete(w) \/ CancelNext(w)
    BY <1>3 DEF CoordinatorNext
  <2> QED
    BY <1>2, <2>1 DEF Next
<1>4. ASSUME NEW w \in Waiters, CallNext(w) PROVE [Next]_cvars
  BY <1>4, CallIsCallerStep
<1>5. ASSUME NEW how \in {"closing", "disposing"}, CloseBegin(how) PROVE [Next]_cvars
  BY <1>5 DEF CloseBegin
<1>6. CASE AdapterDispose
  BY <1>6 DEF AdapterDispose, Next
<1>7. CASE AdapterShutdown \/ CloseShutdown \/ CloseRelease \/ AdapterDetach \/ AdapterRelease
  BY <1>7 DEF AdapterShutdown, CloseShutdown, CloseRelease, AdapterDetach, AdapterRelease
<1>8. CASE UNCHANGED vars
  BY <1>8 DEF vars
<1> QED
  BY <1>1, <1>3, <1>4, <1>5, <1>6, <1>7, <1>8 DEF ClientNext, EndStep

\* The calls, the native library, close and dispose use the coordinator only in
\* ways its specification allows, so its invariants hold under them.
THEOREM ClientRefinesCoordinator == ClientSpec => ImplementsCoordinator
<1>1. ClientInit => Init /\ EventsTyped
  BY EmptySeq DEF ClientInit, EventsTyped
<1>2. ClientSpec => []EventsTyped
  BY <1>1, EventsTypedStep, PTL DEF ClientSpec
<1> QED
  BY <1>1, <1>2, ClientStepIsCoordinatorStep, PTL DEF ClientSpec, ImplementsCoordinator, Spec

USE DEF waiterVars, sessionVars, streamVars, pumpVars, disposeVars

-----------------------------------------------------------------------------
(* Results *)

Faults == {"fault", "disposed", "cancelled", "timeout"}

\* What a call got differs from how one failed, and from nothing.
LEMMA ResultsDiffer ==
  /\ \A v, f : Got(v) # Failure(f) /\ Got(v) # NoResult
  /\ \A v, u : Got(v) = Got(u) => v = u
  /\ \A f, g : Failure(f) = Failure(g) => f = g
  /\ \A f \in Faults : Failure(f) # NoResult
  /\ \A v : Got(v)[1] = "got"
  /\ \A f \in Faults : Failure(f)[1] # "got"
  /\ NoResult[1] # "got"
BY DEF Got, Failure, NoResult, Faults

\* A call changes the place and the result of itself only.
LEMMA ReturnFacts ==
  ASSUME NEW w \in Waiters, NEW there, NEW value, Return(w, there, value),
         DOMAIN pc = Waiters, DOMAIN result = Waiters
  PROVE  /\ DOMAIN pc' = Waiters /\ DOMAIN result' = Waiters
         /\ pc'[w] = there /\ result'[w] = value
         /\ \A v \in Waiters : v # w => pc'[v] = pc[v] /\ result'[v] = result[v]
BY DEF Return, Goto

LEMMA GotoFacts ==
  ASSUME NEW w \in Waiters, NEW there, Goto(w, there), DOMAIN pc = Waiters
  PROVE  /\ DOMAIN pc' = Waiters
         /\ pc'[w] = there
         /\ \A v \in Waiters : v # w => pc'[v] = pc[v]
BY DEF Goto

-----------------------------------------------------------------------------
(* Events on their way *)

InEvents(e) == \E i \in 1 .. Len(events) : events[i] = e

LEMMA PushFacts ==
  ASSUME EventsTyped, NEW e \in NativeEvents, Push(e)
  PROVE  /\ EventsTyped'
         /\ \A x : InEvents(x) => InEvents(x)'
         /\ \A x : InEvents(x)' => InEvents(x) \/ x = e
         /\ InEvents(e)' \/ overflow' \/ closing
         /\ overflow => overflow'
<1>1. EventsTyped'
  BY PushTyped
<1>2. CASE CanPush
  <2>1. events' = Append(events, e)
    BY <1>2 DEF Push
  <2>2. /\ Len(events') = Len(events) + 1 /\ Len(events) \in Nat
        /\ events'[Len(events) + 1] = e
        /\ \A i \in 1 .. Len(events) : events'[i] = events[i]
    BY <2>1, AppendProperties, LenProperties DEF EventsTyped
  <2>3. \A x : InEvents(x) => InEvents(x)'
    BY <2>2 DEF InEvents
  <2>4. \A x : InEvents(x)' => InEvents(x) \/ x = e
    <3> SUFFICES ASSUME NEW x, NEW i \in 1 .. Len(events'), events'[i] = x, x # e
                 PROVE  InEvents(x)
      BY DEF InEvents
    <3>1. i \in 1 .. Len(events)
      BY <2>2
    <3> QED
      BY <2>2, <3>1 DEF InEvents
  <2>5. InEvents(e)'
    BY <2>2 DEF InEvents
  <2> QED
    BY <1>1, <2>3, <2>4, <2>5 DEF Push
<1>3. CASE ~CanPush
  BY <1>1, <1>3 DEF Push, InEvents
<1> QED
  BY <1>2, <1>3

LEMMA PollFacts ==
  ASSUME EventsTyped, events # <<>>, events' = Tail(events)
  PROVE  /\ Head(events) \in NativeEvents
         /\ InEvents(Head(events))
         /\ \A x : InEvents(x) => InEvents(x)' \/ x = Head(events)
         /\ \A x : InEvents(x)' => InEvents(x)
<1>1. /\ Head(events) \in NativeEvents /\ Head(events) = events[1]
      /\ Len(events) \in Nat \ {0}
      /\ Len(events') = Len(events) - 1
      /\ \A i \in 1 .. Len(events') : events'[i] = events[i + 1]
  BY HeadTailProperties, LenProperties, EmptySeq DEF EventsTyped
<1>2. \A x : InEvents(x)' => InEvents(x)
  <2> SUFFICES ASSUME NEW x, NEW i \in 1 .. Len(events'), events'[i] = x
               PROVE  InEvents(x)
    BY DEF InEvents
  <2>1. i + 1 \in 1 .. Len(events) /\ events[i + 1] = x
    BY <1>1
  <2> QED
    BY <2>1 DEF InEvents
<1>3. \A x : InEvents(x) => InEvents(x)' \/ x = Head(events)
  <2> SUFFICES ASSUME NEW x, NEW i \in 1 .. Len(events), events[i] = x, x # Head(events)
               PROVE  InEvents(x)'
    BY DEF InEvents
  <2>1. i # 1
    BY <1>1
  <2> PICK j \in 1 .. Len(events') : j + 1 = i
    <3>1. i - 1 \in 1 .. Len(events') /\ i - 1 + 1 = i
      BY <1>1, <2>1
    <3> QED
      BY <3>1
  <2>2. events'[j] = x
    BY <1>1
  <2> QED
    BY <2>2 DEF InEvents
<1>4. InEvents(Head(events))
  BY <1>1 DEF InEvents
<1> QED
  BY <1>1, <1>2, <1>3, <1>4

-----------------------------------------------------------------------------
(* What each part leaves alone *)

LEMMA NativeFrame == NativeNext => UNCHANGED <<cvars, callVars, endVars>>
BY DEF NativeNext, HandshakeCompletes, PeerAnswers, PeerSendsDatagram, PeerSendsData, StreamEnds,
       PeerOpensStream, ConnectionEnds, ConnectionOver

LEMMA CoordinatorFrame ==
  CoordinatorNext => UNCHANGED <<callVars, peerVars, queueVars, endVars, overflow>>
BY DEF CoordinatorNext, PollNative, mvars

LEMMA CallFrame ==
  \A w \in Waiters : CallNext(w) =>
    /\ UNCHANGED <<eventVars, answered, sent, arrived, ended, peerOpened>>
    /\ UNCHANGED <<closing, sinks, sessionDisposed, closePc, adapterPc>>
    /\ Connect(w) \/ UNCHANGED connection
    /\ Connect(w) \/ Abandon(w) \/ UNCHANGED handle
<1> SUFFICES ASSUME NEW w \in Waiters, CallNext(w)
             PROVE  /\ UNCHANGED <<eventVars, answered, sent, arrived, ended, peerOpened>>
                    /\ UNCHANGED <<closing, sinks, sessionDisposed, closePc, adapterPc>>
                    /\ Connect(w) \/ UNCHANGED connection
                    /\ Connect(w) \/ Abandon(w) \/ UNCHANGED handle
  OBVIOUS
<1>1. CASE Connect(w)
  BY <1>1 DEF Connect
<1>2. CASE Abandon(w)
  BY <1>2 DEF Abandon
<1>3. CASE /\ ~Connect(w) /\ ~Abandon(w)
  <2>1. Stay
    BY <1>3 DEF CallNext, CallStep, Start, ThrowFrom, ReceiveTry, AcceptTry, ReadTry,
                ReadChecksClosed, RegisterCall, Resume, ConnectTimeout, Leave
  <2> QED
    BY <2>1 DEF Stay
<1> QED
  BY <1>1, <1>2, <1>3

Closing == EndStep \/ AdapterShutdown \/ \E how \in {"closing", "disposing"} : CloseBegin(how)

LEMMA ClosingFrame == Closing => UNCHANGED <<callVars, peerVars, buffered>>
BY DEF Closing, EndStep, AdapterShutdown, CloseBegin, CloseShutdown, CloseRelease, AdapterDetach,
       AdapterDispose, AdapterRelease

LEMMA Cases ==
  [ClientNext]_vars =>
    \/ NativeNext
    \/ CoordinatorNext
    \/ \E w \in Waiters : CallNext(w)
    \/ Closing
    \/ UNCHANGED vars
BY DEF ClientNext, Closing

-----------------------------------------------------------------------------
(* Types *)

Places == {"idle", "connect", "try", "closed?", "register", "retry", "closed??", "wait",
           "final", "leave", "abandon", "done"}
Results ==
  {NoResult} \cup {Failure(f) : f \in Faults}
    \cup {Got(v) : v \in {Session} \cup Streams \cup (0 .. MaxDatagrams + MaxData)}

CallsTyped == pc \in [Waiters -> Places] /\ result \in [Waiters -> Results]

DataTyped ==
  /\ datagrams \in Seq(1 .. MaxDatagrams) /\ sent \in 0 .. MaxDatagrams
  /\ buffered \in [Streams -> 0 .. MaxData] /\ arrived \in [Streams -> 0 .. MaxData]
  /\ \A s \in Streams : buffered[s] <= arrived[s]

RestTyped ==
  /\ overflow \in BOOLEAN /\ closing \in BOOLEAN /\ sinks \in BOOLEAN
  /\ connection \in {"none", "new", "up", "ending", "over"}
  /\ answered \in {"none", "accepted", "rejected"}
  /\ ended \subseteq Streams /\ peerOpened \subseteq Streams
  /\ handle \in BOOLEAN /\ sessionDisposed \in BOOLEAN
  /\ closePc \in {"idle", "closing", "disposing", "release", "release after failure",
                  "closed", "done"}
  /\ adapterPc \in {"idle", "sinks", "coordinator", "join", "done"}

LEMMA CallMoves ==
  \A w \in Waiters : CallNext(w) => \E there \in Places : Goto(w, there)
<1> SUFFICES ASSUME NEW w \in Waiters, CallNext(w) PROVE \E there \in Places : Goto(w, there)
  OBVIOUS
<1> USE DEF Places
<1>1. CASE Start(w) \/ Connect(w) \/ ThrowFrom(w)
  BY <1>1 DEF Start, Connect, ThrowFrom, Return
<1>2. CASE ReceiveTry(w) \/ AcceptTry(w)
  BY <1>2 DEF ReceiveTry, AcceptTry, Return
<1>3. CASE ReadTry(w) \/ ReadChecksClosed(w)
  BY <1>3 DEF ReadTry, ReadChecksClosed, Return
<1>4. CASE RegisterCall(w) \/ Resume(w)
  BY <1>4 DEF RegisterCall, Resume, Fail, Return
<1>5. CASE ConnectTimeout(w) \/ Leave(w) \/ Abandon(w)
  BY <1>5 DEF ConnectTimeout, Leave, Abandon, Return
<1> QED
  BY <1>1, <1>2, <1>3, <1>4, <1>5 DEF CallNext, CallStep

LEMMA FailureIsResult == \A f \in Faults : Failure(f) \in Results
BY DEF Results

LEMMA GotIsResult ==
  \A v : v = Session \/ v \in Streams \/ v \in 0 .. MaxDatagrams + MaxData => Got(v) \in Results
BY DEF Results

\* What a call may set its result to.
LEMMA CallResults ==
  TypeOK /\ DataTyped =>
    \A w \in Waiters : CallNext(w) =>
      result' = result \/ \E v \in Results : result' = [result EXCEPT ![w] = v]
<1> SUFFICES ASSUME TypeOK, DataTyped, NEW w \in Waiters, CallNext(w)
             PROVE  result' = result \/ \E v \in Results : result' = [result EXCEPT ![w] = v]
  OBVIOUS
<1> DEFINE Fails(f) == result' = [result EXCEPT ![w] = Failure(f)]
           Gets(v) == result' = [result EXCEPT ![w] = Got(v)]
<1>1. CASE Start(w) \/ Leave(w) \/ Abandon(w)
  BY <1>1 DEF Start, Leave, Abandon
<1>2. CASE Connect(w) \/ ThrowFrom(w) \/ ConnectTimeout(w)
  <2>1. result' = result \/ \E f \in Faults : Fails(f)
    BY <1>2 DEF Connect, ThrowFrom, ConnectTimeout, Return, Faults
  <2> QED
    BY <2>1, FailureIsResult
<1>3. CASE ReceiveTry(w)
  <2>1. result' = result \/ (datagrams # <<>> /\ Gets(Head(datagrams)))
    BY <1>3 DEF ReceiveTry, Return
  <2>2. datagrams # <<>> => Head(datagrams) \in 1 .. MaxDatagrams
    BY HeadTailProperties DEF DataTyped
  <2>3. datagrams # <<>> => Head(datagrams) \in 0 .. MaxDatagrams + MaxData
    BY <2>2, ClientAssumption
  <2> QED
    BY <2>1, <2>3, GotIsResult
<1>4. CASE AcceptTry(w)
  <2> DEFINE q == incoming[KeyOf[w]]
  <2>1. result' = result \/ (q # <<>> /\ Gets(Head(q)))
    BY <1>4 DEF AcceptTry, Return, TryDequeue
  <2>2. q \in Seq(Streams)
    BY <1>4 DEF AcceptTry, Acceptors, TypeOK
  <2>3. q # <<>> => Head(q) \in Streams
    BY <2>2, HeadTailProperties
  <2> QED
    BY <2>1, <2>3, GotIsResult
<1>5. CASE ReadTry(w)
  <2>1. result' = result \/ Gets(Readable(w))
    BY <1>5 DEF ReadTry, Return
  <2>2. StreamOf(w) \in Streams
    BY <1>5 DEF ReadTry, Readers, StreamKeys, StreamOf
  <2>3. buffered[StreamOf(w)] \in 0 .. MaxData
    BY <2>2 DEF DataTyped
  <2>4. Readable(w) \in 0 .. MaxDatagrams + MaxData
    BY <2>3, ClientAssumption DEF Readable
  <2> QED
    BY <2>1, <2>4, GotIsResult
<1>6. CASE ReadChecksClosed(w)
  <2>1. result' = result \/ Gets(0)
    BY <1>6 DEF ReadChecksClosed, Return
  <2>2. 0 \in 0 .. MaxDatagrams + MaxData
    BY ClientAssumption
  <2> QED
    BY <2>1, <2>2, GotIsResult
<1>7. CASE RegisterCall(w)
  <2>1. result' = result \/ \E f \in Faults : Fails(f)
    BY <1>7 DEF RegisterCall, Fail, Return, Faults
  <2> QED
    BY <2>1, FailureIsResult
<1>8. CASE Resume(w)
  <2>1. task[w] \in {"ok", "fault", "disposed", "cancelled"}
    BY <1>8 DEF Resume, TypeOK, Tasks
  <2>2. result' = result \/ Gets(Session) \/ \E f \in Faults : Fails(f)
    BY <1>8, <2>1 DEF Resume, Fail, Return, Faults
  <2> QED
    BY <2>2, FailureIsResult, GotIsResult
<1> QED
  BY <1>1, <1>2, <1>3, <1>4, <1>5, <1>6, <1>7, <1>8 DEF CallNext, CallStep

LEMMA CallsTypedStep == TypeOK /\ DataTyped /\ CallsTyped /\ [ClientNext]_vars => CallsTyped'
<1> SUFFICES ASSUME TypeOK, DataTyped, CallsTyped, [ClientNext]_vars PROVE CallsTyped'
  OBVIOUS
<1>1. CASE UNCHANGED callVars
  BY <1>1 DEF CallsTyped
<1>2. ASSUME NEW w \in Waiters, CallNext(w) PROVE CallsTyped'
  <2>1. pc' \in [Waiters -> Places]
    BY <1>2, CallMoves DEF Goto, CallsTyped
  <2>2. result' \in [Waiters -> Results]
    BY <1>2, CallResults DEF CallsTyped
  <2> QED
    BY <2>1, <2>2 DEF CallsTyped
<1>3. CASE UNCHANGED vars
  BY <1>1, <1>3 DEF vars, mvars
<1> QED
  BY <1>1, <1>2, <1>3, Cases, NativeFrame, CoordinatorFrame, ClosingFrame

DataKept == UNCHANGED <<datagrams, sent, buffered, arrived>>

LEMMA DataTypedStep == DataTyped /\ [ClientNext]_vars => DataTyped'
<1> SUFFICES ASSUME DataTyped, [ClientNext]_vars PROVE DataTyped'
  OBVIOUS
<1>k. CASE DataKept
  BY <1>k DEF DataKept, DataTyped
<1>e. ASSUME datagrams' = <<>>, UNCHANGED <<sent, buffered, arrived>> PROVE DataTyped'
  BY <1>e, EmptySeq DEF DataTyped
<1>1. CASE PeerSendsDatagram
  <2>1. sent + 1 \in 1 .. MaxDatagrams
    BY <1>1, ClientAssumption DEF PeerSendsDatagram, DataTyped
  <2>2. datagrams' \in Seq(1 .. MaxDatagrams)
    BY <1>1, <2>1, AppendProperties DEF PeerSendsDatagram, DataTyped
  <2> QED
    BY <1>1, <2>1, <2>2, ClientAssumption DEF PeerSendsDatagram, DataTyped
<1>2. ASSUME NEW s \in Streams, PeerSendsData(s) PROVE DataTyped'
  <2>1. arrived[s] + 1 \in 0 .. MaxData /\ buffered[s] + 1 <= arrived[s] + 1
    BY <1>2, ClientAssumption DEF PeerSendsData, DataTyped
  <2>2. buffered[s] + 1 \in 0 .. MaxData
    BY <2>1, ClientAssumption DEF DataTyped
  <2> QED
    BY <1>2, <2>1, <2>2 DEF PeerSendsData, DataTyped
<1>3. CASE NativeNext
  <2>1. CASE ~PeerSendsDatagram /\ ~\E s \in Streams : PeerSendsData(s)
    <3>1. DataKept
      BY <1>3, <2>1 DEF NativeNext, HandshakeCompletes, PeerAnswers, StreamEnds, PeerOpensStream,
                        ConnectionEnds, ConnectionOver, DataKept
    <3> QED
      BY <1>k, <3>1
  <2> QED
    BY <1>1, <1>2, <2>1
<1>4. ASSUME NEW w \in Waiters, CallNext(w) PROVE DataTyped'
  <2>1. CASE ReceiveTry(w)
    <3>1. \/ DataKept
          \/ datagrams # <<>> /\ datagrams' = Tail(datagrams) /\ UNCHANGED <<sent, buffered, arrived>>
      BY <2>1 DEF ReceiveTry, Stay, DataKept
    <3>2. datagrams # <<>> => Tail(datagrams) \in Seq(1 .. MaxDatagrams)
      BY HeadTailProperties DEF DataTyped
    <3> QED
      BY <1>k, <3>1, <3>2 DEF DataTyped
  <2>2. CASE ReadTry(w)
    <3>1. StreamOf(w) \in Streams
      BY <2>2 DEF ReadTry, Readers, StreamKeys, StreamOf
    <3>2. /\ buffered' = [buffered EXCEPT ![StreamOf(w)] = @ - Readable(w)]
          /\ UNCHANGED <<datagrams, sent, arrived>>
      BY <2>2 DEF ReadTry, Stay
    <3>3. /\ buffered[StreamOf(w)] - Readable(w) \in 0 .. MaxData
          /\ buffered[StreamOf(w)] - Readable(w) <= arrived[StreamOf(w)]
      BY <3>1, ClientAssumption DEF Readable, DataTyped
    <3> QED
      BY <3>1, <3>2, <3>3 DEF DataTyped
  <2>3. CASE Abandon(w)
    BY <1>e, <2>3 DEF Abandon
  <2>4. CASE ~ReceiveTry(w) /\ ~ReadTry(w) /\ ~Abandon(w)
    <3>1. DataKept
      BY <1>4, <2>4, CallFrame
         DEF CallNext, CallStep, Start, Connect, ThrowFrom, AcceptTry, ReadChecksClosed, RegisterCall,
             Resume, ConnectTimeout, Leave, Stay, DataKept
    <3> QED
      BY <1>k, <3>1
  <2> QED
    BY <2>1, <2>2, <2>3, <2>4
<1>5. CASE Closing
  <2>1. DataKept \/ (datagrams' = <<>> /\ UNCHANGED <<sent, buffered, arrived>>)
    BY <1>5 DEF Closing, EndStep, AdapterShutdown, CloseBegin, CloseShutdown, CloseRelease,
                AdapterDetach, AdapterDispose, AdapterRelease, DataKept
  <2> QED
    BY <1>k, <1>e, <2>1
<1>6. CASE CoordinatorNext \/ UNCHANGED vars
  BY <1>6, <1>k, CoordinatorFrame DEF vars, mvars, DataKept
<1> QED
  BY <1>3, <1>4, <1>5, <1>6, Cases

LEMMA RestTypedStep == RestTyped /\ [ClientNext]_vars => RestTyped'
<1> SUFFICES ASSUME RestTyped, [ClientNext]_vars PROVE RestTyped'
  OBVIOUS
<1>1. CASE NativeNext
  <2>1. overflow' \in BOOLEAN
    BY <1>1 DEF NativeNext, HandshakeCompletes, PeerAnswers, PeerSendsDatagram, PeerSendsData, StreamEnds,
                PeerOpensStream, ConnectionEnds, ConnectionOver, Push, RestTyped
  <2>2. connection' \in {"none", "new", "up", "ending", "over"}
        /\ answered' \in {"none", "accepted", "rejected"}
    BY <1>1 DEF NativeNext, HandshakeCompletes, PeerAnswers, PeerSendsDatagram, PeerSendsData, StreamEnds,
                PeerOpensStream, ConnectionEnds, ConnectionOver, RestTyped
  <2>3. ended' \subseteq Streams /\ peerOpened' \subseteq Streams
    BY <1>1 DEF NativeNext, HandshakeCompletes, PeerAnswers, PeerSendsDatagram, PeerSendsData, StreamEnds,
                PeerOpensStream, ConnectionEnds, ConnectionOver, RestTyped
  <2> QED
    BY <1>1, <2>1, <2>2, <2>3, NativeFrame DEF RestTyped
<1>2. ASSUME NEW w \in Waiters, CallNext(w) PROVE RestTyped'
  <2>1. /\ Connect(w) \/ Abandon(w) => handle' \in BOOLEAN
        /\ Connect(w) => connection' \in {"none", "new", "up", "ending", "over"}
    BY DEF Connect, Abandon, RestTyped
  <2>2. /\ UNCHANGED <<overflow, answered, ended, peerOpened>>
        /\ UNCHANGED <<closing, sinks, sessionDisposed, closePc, adapterPc>>
        /\ Connect(w) \/ UNCHANGED connection
        /\ Connect(w) \/ Abandon(w) \/ UNCHANGED handle
    BY <1>2, CallFrame
  <2>3. handle' \in BOOLEAN /\ connection' \in {"none", "new", "up", "ending", "over"}
    <3>1. handle' \in BOOLEAN
      BY <2>1, <2>2, Zenon DEF RestTyped
    <3>2. connection' \in {"none", "new", "up", "ending", "over"}
      BY <2>1, <2>2, Zenon DEF RestTyped
    <3> QED
      BY <3>1, <3>2
  <2> QED
    BY <2>2, <2>3, Zenon DEF RestTyped
<1>3. ASSUME NEW how \in {"closing", "disposing"}, CloseBegin(how) PROVE RestTyped'
  <2>1. overflow' \in BOOLEAN
    BY <1>3 DEF CloseBegin, Push, RestTyped
  <2>2. closePc' \in {"idle", "closing", "disposing", "release", "release after failure", "closed", "done"}
    BY <1>3 DEF CloseBegin, AfterFailedClose
  <2> QED
    BY <1>3, <2>1, <2>2 DEF CloseBegin, RestTyped
<1>5. CASE AdapterShutdown \/ CloseShutdown \/ CloseRelease
  BY <1>5 DEF AdapterShutdown, CloseShutdown, CloseRelease, RestTyped
<1>6. CASE AdapterDetach \/ AdapterDispose \/ AdapterRelease
  BY <1>6 DEF AdapterDetach, AdapterDispose, AdapterRelease, RestTyped
<1>4. CASE CoordinatorNext \/ UNCHANGED vars
  <2>1. /\ overflow' = overflow /\ closing' = closing /\ sinks' = sinks
        /\ handle' = handle /\ sessionDisposed' = sessionDisposed
    BY <1>4, CoordinatorFrame DEF vars, mvars, callVars, eventVars, peerVars, queueVars, endVars
  <2>2. /\ connection' = connection /\ answered' = answered /\ ended' = ended /\ peerOpened' = peerOpened
        /\ closePc' = closePc /\ adapterPc' = adapterPc
    BY <1>4, CoordinatorFrame DEF vars, mvars, callVars, eventVars, peerVars, queueVars, endVars
  <2>3. overflow' \in BOOLEAN /\ closing' \in BOOLEAN /\ sinks' \in BOOLEAN
        /\ handle' \in BOOLEAN /\ sessionDisposed' \in BOOLEAN
    BY <2>1, Zenon DEF RestTyped
  <2> QED
    BY <2>2, <2>3 DEF RestTyped
<1> QED
  BY <1>1, <1>2, <1>3, <1>4, <1>5, <1>6, Cases DEF Closing, EndStep

-----------------------------------------------------------------------------
(* How far a connect, a close and a dispose have come *)

LEMMA CallOthers ==
  TypeOK /\ DataTyped /\ CallsTyped =>
    \A w \in Waiters : CallNext(w) =>
      \A v \in Waiters : v # w => pc'[v] = pc[v] /\ result'[v] = result[v]
<1> SUFFICES ASSUME TypeOK, DataTyped, CallsTyped, NEW w \in Waiters, CallNext(w),
                    NEW v \in Waiters, v # w
             PROVE  pc'[v] = pc[v] /\ result'[v] = result[v]
  OBVIOUS
<1>1. pc'[v] = pc[v]
  BY CallMoves DEF Goto, CallsTyped
<1>2. result'[v] = result[v]
  BY CallResults DEF CallsTyped
<1> QED
  BY <1>1, <1>2

\* A call that is done is over.
LEMMA DoneIsOver == \A w \in Waiters : CallNext(w) => pc[w] # "done"
BY DEF CallNext, CallStep, Start, Connect, ThrowFrom, ReceiveTry, AcceptTry, ReadTry, ReadChecksClosed,
       RegisterCall, Resume, ConnectTimeout, Leave, Abandon

LEMMA RolesDiffer ==
  /\ Connectors \subseteq Waiters /\ Receivers \subseteq Waiters
  /\ Acceptors \subseteq Waiters /\ Readers \subseteq Waiters
  /\ Connectors \cap Receivers = {} /\ Connectors \cap Acceptors = {} /\ Connectors \cap Readers = {}
  /\ Receivers \cap Acceptors = {} /\ Receivers \cap Readers = {} /\ Acceptors \cap Readers = {}
BY DEF Connectors, Receivers, Acceptors, Readers, IncomingKeys, Directions, StreamKeys

\* A connect has a session from its native connect to its result, and keeps it only if it succeeds.
ConnectPhase(w) ==
  /\ pc[w] \in {"idle", "connect", "register", "wait", "leave", "abandon", "done"}
  /\ pc[w] \in {"idle", "connect", "register", "wait"} => result[w] = NoResult
  /\ pc[w] \in {"idle", "connect"} => ~handle
  /\ pc[w] \in {"register", "wait"} => handle \/ closing
  /\ result[w] = Got(Session) => pc[w] = "done"
  /\ pc[w] = "done" /\ result[w] \in {Failure(f) : f \in {"fault", "cancelled", "timeout"}} => ~handle

\* Only the connects are ever at its two steps, and all others need its session.
OtherPhase(w) == pc[w] \notin {"connect", "abandon"} /\ (pc[w] # "idle" => SessionUp)

EndPhase ==
  /\ adapterPc # "idle" => closing
  /\ adapterPc = "done" => ~handle
  /\ closePc = "release" => ~sinks
  /\ closePc # "idle" => SessionUp
  /\ closePc = "release after failure" => ~handle \/ overflow \/ closing
  /\ SessionUp /\ ~handle => ~sinks \/ overflow \/ closing

Phases ==
  /\ \A w \in Connectors : ConnectPhase(w)
  /\ \A w \in Waiters \ Connectors : OtherPhase(w)
  /\ EndPhase

\* Places of the connect that the steps of the other parts do not change.
ConnectKept ==
  /\ \A w \in Connectors : pc'[w] = pc[w] /\ result'[w] = result[w]
  /\ closing => closing'

LEMMA UpKept == ConnectKept => (SessionUp <=> SessionUp')
BY DEF ConnectKept, SessionUp

\* The handle is created by a connect only, and released by it, after it, or when closing.
HandleKept ==
  /\ handle' => handle
  /\ handle => handle' \/ closing \/ SessionUp

LEMMA ConnectPhasesKept ==
  ConnectKept /\ HandleKept =>
    \A w \in Connectors : ConnectPhase(w) => ConnectPhase(w)'
<1> SUFFICES ASSUME ConnectKept, HandleKept, NEW w \in Connectors, ConnectPhase(w)
             PROVE  ConnectPhase(w)'
  OBVIOUS
<1>1. pc'[w] = pc[w] /\ result'[w] = result[w] /\ (closing => closing')
  BY DEF ConnectKept
<1>2. SessionUp => result[w] = Got(Session)
  BY ClientAssumption DEF SessionUp
<1>3. (handle' => handle) /\ (handle => handle' \/ closing \/ pc[w] = "done")
  BY <1>2 DEF HandleKept, ConnectPhase
<1> QED
  BY <1>1, <1>3 DEF ConnectPhase

LEMMA OtherPhasesKept ==
  ConnectKept =>
    \A w \in Waiters : pc'[w] = pc[w] /\ OtherPhase(w) => OtherPhase(w)'
BY UpKept DEF OtherPhase

\* A step that leaves the calls alone.
LEMMA CallsKept ==
  Phases /\ UNCHANGED callVars /\ (closing => closing') /\ HandleKept /\ EndPhase' => Phases'
<1> SUFFICES ASSUME Phases, UNCHANGED callVars, closing => closing', HandleKept, EndPhase'
             PROVE  Phases'
  OBVIOUS
<1>1. ConnectKept
  BY DEF ConnectKept
<1>2. \A w \in Connectors : ConnectPhase(w)'
  BY <1>1, ConnectPhasesKept DEF Phases
<1>3. \A w \in Waiters \ Connectors : OtherPhase(w)'
  BY <1>1, OtherPhasesKept DEF Phases
<1> QED
  BY <1>2, <1>3 DEF Phases

LEMMA OverflowStays == [ClientNext]_vars => (overflow => overflow') /\ (closing => closing')
<1> SUFFICES ASSUME [ClientNext]_vars PROVE (overflow => overflow') /\ (closing => closing')
  OBVIOUS
<1>1. CASE NativeNext
  <2>1. overflow => overflow'
    BY <1>1 DEF NativeNext, HandshakeCompletes, PeerAnswers, PeerSendsDatagram, PeerSendsData, StreamEnds,
                PeerOpensStream, ConnectionEnds, ConnectionOver, Push
  <2> QED
    BY <1>1, <2>1, NativeFrame
<1>2. CASE Closing
  <2>1. ASSUME NEW how \in {"closing", "disposing"}, CloseBegin(how)
        PROVE  (overflow => overflow') /\ (closing => closing')
    BY <2>1 DEF CloseBegin, Push
  <2>2. CASE AdapterShutdown
    BY <2>2 DEF AdapterShutdown
  <2>3. CASE EndStep
    <3>1. UNCHANGED <<overflow, closing>>
      BY <2>3 DEF EndStep, CloseShutdown, CloseRelease, AdapterDetach, AdapterDispose, AdapterRelease
    <3> QED
      BY <3>1
  <2> QED
    BY <1>2, <2>1, <2>2, <2>3 DEF Closing
<1>3. CASE CoordinatorNext \/ (\E w \in Waiters : CallNext(w)) \/ UNCHANGED vars
  BY <1>3, CoordinatorFrame, CallFrame DEF vars, mvars
<1> QED
  BY <1>1, <1>2, <1>3, Cases

LEMMA PhasesEnd ==
  ASSUME RestTyped, Phases, Closing
  PROVE  Phases'
<1> USE DEF EndPhase
<1>p. EndPhase /\ UNCHANGED callVars /\ (SessionUp <=> SessionUp')
  BY ClosingFrame DEF Phases, SessionUp
<1>1. ASSUME NEW how \in {"closing", "disposing"}, CloseBegin(how) PROVE Phases'
  <2>1. /\ UNCHANGED <<closing, sinks, handle, adapterPc>>
        /\ overflow => overflow'
        /\ SessionUp
    BY <1>1 DEF CloseBegin, Push
  <2>2. closePc' = "release after failure" => ~handle \/ overflow' \/ closing
    BY <1>1, <1>p DEF CloseBegin, CanPush, AfterFailedClose
  <2>3. closePc' # "release"
    BY <1>1 DEF CloseBegin, AfterFailedClose
  <2>4. EndPhase'
    BY <1>p, <2>1, <2>2, <2>3
  <2> QED
    BY <1>p, <2>1, <2>4, CallsKept DEF HandleKept
<1>2. CASE CloseShutdown
  <2>1. UNCHANGED <<closing, handle, overflow, adapterPc>> /\ ~sinks' /\ SessionUp
    BY <1>2, <1>p DEF CloseShutdown
  <2>2. closePc' # "release after failure"
    BY <1>2 DEF CloseShutdown
  <2>3. EndPhase'
    BY <1>p, <2>1, <2>2
  <2> QED
    BY <1>p, <2>1, <2>3, CallsKept DEF HandleKept
<1>3. CASE CloseRelease
  <2>1. UNCHANGED <<closing, sinks, overflow, adapterPc>> /\ ~handle' /\ SessionUp
    BY <1>3, <1>p DEF CloseRelease
  <2>2. closePc' = "done" /\ (~sinks \/ ~handle \/ overflow \/ closing)
    BY <1>3, <1>p DEF CloseRelease
  <2>3. ~handle => ~sinks \/ overflow \/ closing
    BY <1>p, <2>1
  <2>4. EndPhase'
    BY <1>p, <2>1, <2>2, <2>3
  <2> QED
    BY <1>p, <2>1, <2>4, CallsKept DEF HandleKept
<1>4. CASE AdapterShutdown
  <2>1. UNCHANGED <<sinks, handle, overflow, closePc>> /\ closing' /\ adapterPc' = "sinks"
    BY <1>4 DEF AdapterShutdown
  <2>2. EndPhase'
    BY <1>p, <2>1
  <2> QED
    BY <1>p, <2>1, <2>2, CallsKept DEF HandleKept
<1>5. CASE AdapterDetach \/ AdapterDispose
  <2>1. /\ UNCHANGED <<closing, handle, overflow, closePc>>
        /\ adapterPc # "idle" /\ adapterPc' \in {"coordinator", "join"}
        /\ sinks' => sinks
    BY <1>5 DEF AdapterDetach, AdapterDispose
  <2>2. EndPhase'
    BY <1>p, <2>1
  <2> QED
    BY <1>p, <2>1, <2>2, CallsKept DEF HandleKept
<1>6. CASE AdapterRelease
  <2>1. /\ UNCHANGED <<closing, sinks, overflow, closePc>>
        /\ adapterPc = "join" /\ ~handle'
    BY <1>6 DEF AdapterRelease
  <2>2. closing
    BY <1>p, <2>1
  <2>3. EndPhase'
    BY <1>p, <2>1, <2>2
  <2> QED
    BY <1>p, <2>1, <2>2, <2>3, CallsKept DEF HandleKept
<1> QED
  BY <1>1, <1>2, <1>3, <1>4, <1>5, <1>6 DEF Closing, EndStep

LEMMA PhasesNative ==
  ASSUME Phases, NativeNext \/ CoordinatorNext \/ UNCHANGED vars, [ClientNext]_vars
  PROVE  Phases'
<1>1. UNCHANGED <<callVars, endVars>>
  BY NativeFrame, CoordinatorFrame DEF vars, mvars
<1>2. SessionUp <=> SessionUp'
  BY <1>1 DEF SessionUp
<1>3. EndPhase'
  BY <1>1, <1>2, OverflowStays DEF Phases, EndPhase
<1> QED
  BY <1>1, <1>3, CallsKept DEF HandleKept

LEMMA OtherMoves ==
  ASSUME NEW w \in Waiters \ Connectors, CallNext(w), pc[w] \notin {"connect", "abandon"}
  PROVE  /\ \E there \in Places \ {"connect", "abandon", "idle"} : Goto(w, there)
         /\ pc[w] = "idle" => SessionUp
<1> USE DEF Places
<1>1. CASE Start(w) \/ ThrowFrom(w)
  BY <1>1 DEF Start, ThrowFrom, Return
<1>2. CASE ReceiveTry(w) \/ AcceptTry(w)
  BY <1>2 DEF ReceiveTry, AcceptTry, Return
<1>3. CASE ReadTry(w) \/ ReadChecksClosed(w)
  BY <1>3 DEF ReadTry, ReadChecksClosed, Return
<1>4. CASE RegisterCall(w) \/ Resume(w)
  BY <1>4 DEF RegisterCall, Resume, Fail, Return
<1>5. CASE Leave(w)
  BY <1>5 DEF Leave, Return
<1>6. ~Connect(w) /\ ~Abandon(w) /\ ~ConnectTimeout(w)
  BY DEF Connect, Abandon, ConnectTimeout
<1> QED
  BY <1>1, <1>2, <1>3, <1>4, <1>5, <1>6 DEF CallNext, CallStep

LEMMA PhasesOther ==
  ASSUME TypeOK, DataTyped, CallsTyped, Phases, NEW w \in Waiters \ Connectors, CallNext(w)
  PROVE  Phases'
<1>1. UNCHANGED <<overflow, closing, sinks, closePc, adapterPc>>
  BY CallFrame
<1>2. pc[w] \notin {"connect", "abandon"}
  BY DEF Phases, OtherPhase
<1>3. handle' = handle
  BY <1>2, CallFrame DEF Connect, Abandon
<1>4. ConnectKept
  BY <1>1, CallOthers, RolesDiffer DEF ConnectKept
<1>5. \A v \in Connectors : ConnectPhase(v)'
  BY <1>3, <1>4, ConnectPhasesKept DEF Phases, HandleKept
<1>6. SessionUp <=> SessionUp'
  BY <1>4, UpKept
<1>7. OtherPhase(w)'
  BY <1>2, <1>6, OtherMoves DEF Goto, CallsTyped, OtherPhase, Phases
<1>8. \A v \in Waiters \ Connectors : OtherPhase(v)'
  <2> SUFFICES ASSUME NEW v \in Waiters \ Connectors, v # w PROVE OtherPhase(v)'
    BY <1>7
  <2> QED
    BY <1>4, CallOthers, OtherPhasesKept DEF Phases
<1>9. EndPhase'
  BY <1>1, <1>3, <1>6 DEF EndPhase, Phases
<1> QED
  BY <1>5, <1>8, <1>9 DEF Phases

\* The steps of a connect.
LEMMA ConnectSteps ==
  ASSUME NEW w \in Connectors, CallNext(w), ConnectPhase(w)
  PROVE  \/ Start(w) \/ Connect(w) \/ RegisterCall(w) \/ Resume(w) \/ ConnectTimeout(w) \/ Leave(w)
         \/ Abandon(w)
BY RolesDiffer
   DEF ConnectPhase, CallNext, CallStep, ThrowFrom, ReceiveTry, AcceptTry, ReadTry, ReadChecksClosed

LEMMA Went ==
  CallsTyped => \A w \in Waiters : \A there, value :
    /\ Goto(w, there) => pc'[w] = there
    /\ Return(w, there, value) => pc'[w] = there /\ result'[w] = value
BY DEF CallsTyped, Goto, Return

LEMMA ConnectPhaseStep ==
  ASSUME TypeOK, CallsTyped, NEW w \in Connectors, CallNext(w), ConnectPhase(w), closing' = closing
  PROVE  /\ ConnectPhase(w)'
         /\ result'[w] = Got(Session) => pc[w] = "wait" /\ handle' = handle
         /\ handle' => handle \/ adapterPc # "done"
<1> USE DEF ConnectPhase
<1>w. w \in Waiters /\ w \notin Readers
  BY RolesDiffer
<1>n. \A f \in Faults : Failure(f) # NoResult /\ Failure(f) # Got(Session)
  BY ResultsDiffer
<1>d. Failure("disposed") \notin {Failure(f) : f \in {"fault", "cancelled", "timeout"}}
  BY ResultsDiffer
<1>g. NoResult # Got(Session)
  BY ResultsDiffer
<1>h. Got(Session) \notin {Failure(f) : f \in {"fault", "cancelled", "timeout"}}
  BY ResultsDiffer
<1>1. CASE Start(w)
  <2>1. pc[w] = "idle" /\ pc'[w] = "connect" /\ result'[w] = result[w] /\ handle' = handle
    BY <1>1, <1>w, Went DEF Start, Stay
  <2> QED
    BY <2>1, <1>g
<1>2. CASE Connect(w)
  <2>1. pc[w] = "connect" /\ ~handle /\ result[w] = NoResult
    BY <1>2 DEF Connect
  <2>2. \/ \E f \in Faults : Return(w, "done", Failure(f)) /\ handle' = handle
        \/ Goto(w, "register") /\ handle' = TRUE /\ result' = result /\ adapterPc # "done"
    BY <1>2 DEF Connect, Faults
  <2>3. CASE \E f \in Faults : Return(w, "done", Failure(f)) /\ handle' = handle
    <3>1. PICK f \in Faults : Return(w, "done", Failure(f)) /\ handle' = handle
      BY <2>3
    <3>2. pc'[w] = "done" /\ result'[w] = Failure(f)
      BY <3>1, <1>w, Went
    <3> QED
      BY <1>n, <2>1, <3>1, <3>2
  <2>4. CASE Goto(w, "register") /\ handle' = TRUE /\ result' = result /\ adapterPc # "done"
    <3>1. pc'[w] = "register" /\ result'[w] = NoResult
      BY <1>w, <2>1, <2>4, Went
    <3> QED
      BY <1>g, <2>4, <3>1
  <2> QED
    BY <2>2, <2>3, <2>4
<1>3. CASE RegisterCall(w)
  <2>1. pc[w] = "register" /\ handle' = handle /\ result[w] = NoResult /\ (handle \/ closing)
    BY <1>3 DEF RegisterCall, Stay
  <2>2. \/ Return(w, "abandon", Failure("fault"))
        \/ Return(w, "done", Failure("disposed"))
        \/ Goto(w, "wait") /\ result' = result
    BY <1>3 DEF RegisterCall, Fail
  <2>3. \/ pc'[w] = "abandon" /\ result'[w] = Failure("fault")
        \/ pc'[w] = "done" /\ result'[w] = Failure("disposed")
        \/ pc'[w] = "wait" /\ result'[w] = NoResult
    BY <1>w, <2>1, <2>2, Went
  <2>4. Failure("fault") # Got(Session) /\ Failure("disposed") # Got(Session)
    BY <1>n DEF Faults
  <2> QED
    BY <1>d, <1>g, <2>1, <2>3, <2>4
<1>4. CASE Resume(w)
  <2>1. pc[w] = "wait" /\ handle' = handle /\ result[w] = NoResult
    BY <1>4 DEF Resume, Stay
  <2>2. task[w] \in {"ok", "fault", "disposed", "cancelled"}
    BY <1>4, <1>w DEF Resume, TypeOK, Tasks
  <2>3. \/ Return(w, "done", Got(Session))
        \/ \E f \in {"fault", "cancelled"} : Return(w, "abandon", Failure(f))
        \/ Return(w, "done", Failure("disposed"))
    BY <1>4, <1>w, <2>2 DEF Resume, Fail
  <2>4. \/ pc'[w] = "done" /\ result'[w] = Got(Session)
        \/ pc'[w] = "abandon" /\ \E f \in {"fault", "cancelled"} : result'[w] = Failure(f)
        \/ pc'[w] = "done" /\ result'[w] = Failure("disposed")
    BY <1>w, <2>3, Went
  <2>5. \A f \in {"fault", "cancelled", "disposed"} : Failure(f) # Got(Session)
    BY <1>n DEF Faults
  <2> QED
    BY <1>d, <1>h, <2>1, <2>4, <2>5
<1>5. CASE ConnectTimeout(w)
  <2>1. pc[w] = "wait" /\ handle' = handle
    BY <1>5 DEF ConnectTimeout, Stay
  <2>2. \E f \in Faults : Return(w, "leave", Failure(f))
    BY <1>5 DEF ConnectTimeout, Faults
  <2>3. pc'[w] = "leave" /\ \E f \in Faults : result'[w] = Failure(f)
    BY <1>w, <2>2, Went
  <2> QED
    BY <1>n, <2>1, <2>3
<1>6. CASE Leave(w)
  <2>1. pc[w] = "leave" /\ pc'[w] = "abandon" /\ result'[w] = result[w] /\ handle' = handle
    BY <1>6, <1>w, Went DEF Leave, Stay
  <2> QED
    BY <2>1
<1>7. CASE Abandon(w)
  <2>1. pc[w] = "abandon" /\ pc'[w] = "done" /\ result'[w] = result[w] /\ ~handle'
    BY <1>7, <1>w, Went DEF Abandon
  <2> QED
    BY <2>1
<1> QED
  BY <1>1, <1>2, <1>3, <1>4, <1>5, <1>6, <1>7, ConnectSteps

LEMMA PhasesConnect ==
  ASSUME TypeOK, DataTyped, CallsTyped, Phases, NEW w \in Connectors, CallNext(w)
  PROVE  Phases'
<1>w. w \in Waiters
  BY RolesDiffer
<1>1. UNCHANGED <<overflow, closing, sinks, closePc, adapterPc>>
  BY <1>w, CallFrame
<1>2. ~SessionUp
  <2>1. pc[w] # "done"
    BY <1>w, DoneIsOver
  <2> QED
    BY <2>1, ClientAssumption DEF SessionUp, Phases, ConnectPhase
<1>3. /\ ConnectPhase(w)'
      /\ result'[w] = Got(Session) => pc[w] = "wait" /\ handle' = handle
      /\ handle' => handle \/ adapterPc # "done"
  BY <1>1, ConnectPhaseStep DEF Phases
<1>4. \A v \in Connectors : ConnectPhase(v)'
  BY <1>3, ClientAssumption
<1>5. \A v \in Waiters \ Connectors : pc'[v] = pc[v] /\ pc[v] = "idle"
  BY <1>w, <1>2, CallOthers DEF Phases, OtherPhase
<1>6. \A v \in Waiters \ Connectors : OtherPhase(v)'
  BY <1>5 DEF OtherPhase
<1>7. SessionUp' => handle' \/ closing'
  <2>1. SessionUp' => result'[w] = Got(Session)
    BY ClientAssumption DEF SessionUp
  <2>2. pc[w] = "wait" => handle \/ closing
    BY DEF Phases, ConnectPhase
  <2> QED
    BY <1>1, <1>3, <2>1, <2>2
<1>8. EndPhase'
  BY <1>1, <1>2, <1>3, <1>7 DEF EndPhase, Phases
<1> QED
  BY <1>4, <1>6, <1>8 DEF Phases

LEMMA PhasesStep ==
  TypeOK /\ DataTyped /\ CallsTyped /\ RestTyped /\ Phases /\ [ClientNext]_vars => Phases'
BY Cases, PhasesNative, PhasesEnd, PhasesOther, PhasesConnect

-----------------------------------------------------------------------------
(* Where events go *)

Answer == SessionEvent("SESSION_CONNECTED")

\* The native library pushes native events, and the answer only when there is one.
LEMMA NativePush ==
  NativeNext =>
    \/ UNCHANGED eventVars
    \/ \E e \in NativeEvents : Push(e) /\ (e = Answer => answered' = "accepted")
<1> SUFFICES ASSUME NativeNext, ~UNCHANGED eventVars
             PROVE  \E e \in NativeEvents : Push(e) /\ (e = Answer => answered' = "accepted")
  OBVIOUS
<1>a. Answer.type = "SESSION_CONNECTED"
  BY DEF Answer, SessionEvent
<1>1. ASSUME NEW t \in {"CLIENT_CONNECTED", "CLIENT_CLOSED", "ERROR"}
      PROVE  [type |-> t] \in NativeEvents /\ [type |-> t] # Answer
  <2>1. [type |-> t].type = t
    OBVIOUS
  <2> QED
    BY <1>a, <2>1 DEF NativeEvents, ClientEvents
<1>2. ASSUME NEW how \in {"accepted", "rejected"}, PeerAnswers(how)
      PROVE  \E e \in NativeEvents : Push(e) /\ (e = Answer => answered' = "accepted")
  <2>1. CASE how = "accepted"
    <3>1. Push(Answer) /\ answered' = "accepted"
      BY <1>2, <2>1 DEF PeerAnswers, Answer
    <3> QED
      BY <3>1, SessionEventIsNative DEF Answer
  <2>2. CASE how = "rejected"
    <3>1. Push([type |-> "ERROR"])
      BY <1>2, <2>2 DEF PeerAnswers
    <3> QED
      BY <1>1, <3>1
  <2> QED
    BY <2>1, <2>2
<1>3. CASE PeerSendsDatagram
  <2>1. Push(SessionEvent("DATAGRAM_RECEIVED")) \/ Push([type |-> "ERROR"])
    BY <1>3 DEF PeerSendsDatagram
  <2>2. SessionEvent("DATAGRAM_RECEIVED") \in NativeEvents /\ SessionEvent("DATAGRAM_RECEIVED") # Answer
    BY <1>a, SessionEventIsNative DEF SessionEvent
  <2> QED
    BY <1>1, <2>1, <2>2
<1>4. ASSUME NEW t \in {"STREAM_DATA_RECEIVED", "STREAM_CLOSED"}, NEW s \in Streams,
             Push([type |-> t, stream |-> s])
      PROVE  \E e \in NativeEvents : Push(e) /\ (e = Answer => answered' = "accepted")
  <2>1. [type |-> t, stream |-> s].type = t
    OBVIOUS
  <2>2. [type |-> t, stream |-> s] \in NativeEvents
    BY DEF NativeEvents, StreamEvents
  <2> QED
    BY <1>a, <1>4, <2>1, <2>2
<1>5. ASSUME NEW s \in Streams, PeerSendsData(s) \/ StreamEnds(s)
      PROVE  \E e \in NativeEvents : Push(e) /\ (e = Answer => answered' = "accepted")
  <2>1. \/ Push([type |-> "STREAM_DATA_RECEIVED", stream |-> s])
        \/ Push([type |-> "STREAM_CLOSED", stream |-> s])
    BY <1>5 DEF PeerSendsData, StreamEnds
  <2> QED
    BY <1>4, <2>1
<1>6. ASSUME NEW k \in PeerDirections \X {Session}, NEW s \in Streams, PeerOpensStream(k, s)
      PROVE  \E e \in NativeEvents : Push(e) /\ (e = Answer => answered' = "accepted")
  <2> DEFINE t == IF k[1] = "bidi" THEN "BIDI_STREAM_OPENED" ELSE "UNI_STREAM_OPENED"
             e == [type |-> t, session |-> Session, stream |-> s]
  <2>1. e.type = t
    OBVIOUS
  <2>2. e \in NativeEvents
    BY ClientAssumption DEF NativeEvents, OpenedEvents
  <2>3. Push(e)
    BY <1>6 DEF PeerOpensStream
  <2> QED
    BY <1>a, <2>1, <2>2, <2>3
<1>7. CASE HandshakeCompletes \/ ConnectionOver
  BY <1>1, <1>7 DEF HandshakeCompletes, ConnectionOver
<1>8. ASSUME NEW t \in {"CLIENT_CLOSED", "ERROR"}, ConnectionEnds(t)
      PROVE  \E e \in NativeEvents : Push(e) /\ (e = Answer => answered' = "accepted")
  BY <1>1, <1>8 DEF ConnectionEnds
<1> QED
  BY <1>2, <1>3, <1>5, <1>6, <1>7, <1>8 DEF NativeNext

\* What a step does to the events: it adds one, polls one, or clears them when all is over.
LEMMA EventsStep ==
  [ClientNext]_vars =>
    \/ UNCHANGED events
    \/ \E e \in NativeEvents : Push(e) /\ (e = Answer => answered' = "accepted")
    \/ PollNative
    \/ AdapterRelease
<1> SUFFICES ASSUME [ClientNext]_vars, ~UNCHANGED events
             PROVE  \/ \E e \in NativeEvents : Push(e) /\ (e = Answer => answered' = "accepted")
                    \/ PollNative
                    \/ AdapterRelease
  OBVIOUS
<1>1. CASE NativeNext
  BY <1>1, NativePush
<1>2. CASE CoordinatorNext
  BY <1>2 DEF CoordinatorNext, mvars
<1>3. ASSUME NEW how \in {"closing", "disposing"}, CloseBegin(how)
      PROVE  \E e \in NativeEvents : Push(e) /\ (e = Answer => answered' = "accepted")
  <2>1. Push(SessionEvent("SESSION_CLOSED"))
    BY <1>3 DEF CloseBegin
  <2>2. SessionEvent("SESSION_CLOSED") \in NativeEvents /\ SessionEvent("SESSION_CLOSED") # Answer
    BY SessionEventIsNative DEF SessionEvent, Answer
  <2> QED
    BY <2>1, <2>2
<1>4. CASE EndStep \/ AdapterShutdown
  BY <1>4 DEF EndStep, AdapterShutdown, CloseShutdown, CloseRelease, AdapterDetach, AdapterDispose
<1>5. CASE (\E w \in Waiters : CallNext(w)) \/ UNCHANGED vars
  BY <1>5, CallFrame DEF vars, mvars
<1> QED
  BY <1>1, <1>2, <1>3, <1>4, <1>5, Cases DEF Closing

\* An event leaves the queue through the pump, until the client is closing.
LEMMA EventsKept ==
  EventsTyped /\ EndPhase /\ [ClientNext]_vars =>
    \A e : InEvents(e) => InEvents(e)' \/ closing' \/ (PollNative /\ Head(events) = e)
<1> SUFFICES ASSUME EventsTyped, EndPhase, [ClientNext]_vars, NEW e, InEvents(e)
             PROVE  InEvents(e)' \/ closing' \/ (PollNative /\ Head(events) = e)
  OBVIOUS
<1>1. CASE UNCHANGED events
  BY <1>1 DEF InEvents
<1>2. ASSUME NEW x \in NativeEvents, Push(x) PROVE InEvents(e)'
  BY <1>2, PushFacts
<1>3. CASE PollNative
  <2>1. events # <<>> /\ events' = Tail(events)
    BY <1>3 DEF PollNative
  <2> QED
    BY <1>3, <2>1, PollFacts
<1>4. CASE AdapterRelease
  BY <1>4 DEF AdapterRelease, EndPhase
<1> QED
  BY <1>1, <1>2, <1>3, <1>4, EventsStep

\* An event enters the queue when it is pushed.
LEMMA EventsNew ==
  EventsTyped /\ [ClientNext]_vars =>
    \A e : InEvents(e)' =>
      InEvents(e) \/ (Push(e) /\ (e = Answer => answered' = "accepted"))
<1> SUFFICES ASSUME EventsTyped, [ClientNext]_vars, NEW e, InEvents(e)', ~InEvents(e)
             PROVE  Push(e) /\ (e = Answer => answered' = "accepted")
  OBVIOUS
<1>1. CASE UNCHANGED events
  BY <1>1 DEF InEvents
<1>2. ASSUME NEW x \in NativeEvents, Push(x), x = Answer => answered' = "accepted"
      PROVE  Push(e) /\ (e = Answer => answered' = "accepted")
  <2>1. x = e
    BY <1>2, PushFacts
  <2> QED
    BY <1>2, <2>1
<1>3. CASE PollNative
  <2>1. events # <<>> /\ events' = Tail(events)
    BY <1>3 DEF PollNative
  <2> QED
    BY <2>1, PollFacts
<1>4. CASE AdapterRelease
  <2>1. Len(events') = 0
    BY <1>4, EmptySeq DEF AdapterRelease
  <2> QED
    BY <2>1 DEF InEvents
<1> QED
  BY <1>1, <1>2, <1>3, <1>4, EventsStep

-----------------------------------------------------------------------------
(* Who sleeps, and which tables the pump has still to take *)

Sleeps(w) == task[w] = "pending" /\ w \in waiting[KeyOf[w]]

Routes(e, k) == \E i \in 1 .. Len(Route(e)) : Route(e)[i] = k

LEMMA PollRoutes ==
  \A e, k : PumpPoll(e) /\ Routes(e, k) => StillToTake(k)'
BY DEF PumpPoll, StillToTake, Routes

\* The pump has a table still to take until it takes its waiters.
LEMMA TodoStep ==
  TypeOK /\ PumpShape /\ [Next]_cvars =>
    \A k \in Keys : StillToTake(k) => StillToTake(k)' \/ waiting'[k] = {}
<1> SUFFICES ASSUME TypeOK, PumpShape, [Next]_cvars, NEW k \in Keys, StillToTake(k)
             PROVE  StillToTake(k)' \/ waiting'[k] = {}
  OBVIOUS
<1>n. todo # <<>>
  BY DEF StillToTake
<1>1. CASE UNCHANGED todo
  BY <1>1 DEF StillToTake
<1>2. CASE PumpTake
  <2>1. /\ todo' = Tail(todo) /\ todo \in Seq(Keys) /\ todo # <<>>
        /\ waiting' = [waiting EXCEPT ![Head(todo)] = {}] /\ DOMAIN waiting = Keys
    BY <1>2 DEF PumpTake, TypeOK
  <2> PICK i \in 1 .. Len(todo) : todo[i] = k
    BY DEF StillToTake
  <2>2. CASE i = 1
    <3>1. Head(todo) = k
      BY <2>1, <2>2, HeadTailProperties
    <3> QED
      BY <2>1, <3>1
  <2>3. CASE i # 1
    <3>1. /\ Len(todo') = Len(todo) - 1 /\ Len(todo) \in Nat
          /\ \A j \in 1 .. Len(todo') : todo'[j] = todo[j + 1]
      BY <2>1, HeadTailProperties, LenProperties
    <3>2. i - 1 \in 1 .. Len(todo') /\ i - 1 + 1 = i
      BY <2>3, <3>1
    <3>3. todo'[i - 1] = k
      BY <3>1, <3>2
    <3> QED
      BY <3>2, <3>3 DEF StillToTake
  <2> QED
    BY <2>2, <2>3
<1>3. ASSUME NEW e \in Polled, PumpPoll(e) PROVE FALSE
  BY <1>n, <1>3 DEF PumpPoll, PumpShape
<1>4. CASE PumpStop \/ PumpMark \/ PumpEnqueue \/ PumpRelease \/ PumpDrain \/ PumpNext
  <2>1. UNCHANGED todo
    BY <1>4 DEF PumpStop, PumpMark, PumpEnqueue, PumpRelease, PumpDrain, PumpNext
  <2> QED
    BY <1>1, <2>1
<1>5. CASE DisposeBegin \/ DisposeStep
  BY <1>1, <1>5 DEF DisposeBegin, DisposeStep, DisposeDrain, DisposeJoin
<1>6. ASSUME NEW w \in Waiters, CallerNext(w) \/ CancelNext(w) \/ PumpComplete(w) \/ DisposeComplete(w)
      PROVE  UNCHANGED todo
  BY <1>6 DEF CallerNext, CancelNext, Register, DisposeWaiter, CancelToken, CancelRemove,
              CancelComplete, PumpComplete, DisposeComplete
<1>7. ASSUME NEW j \in IncomingKeys, TryDequeue(j) PROVE UNCHANGED todo
  BY <1>7 DEF TryDequeue
<1>8. CASE UNCHANGED cvars
  BY <1>1, <1>8 DEF cvars
<1> QED
  BY <1>1, <1>2, <1>3, <1>4, <1>5, <1>6, <1>7, <1>8 DEF Next, PumpStep

\* Nobody falls asleep but by registering.
LEMMA SleepersStep ==
  TypeOK /\ [Next]_cvars =>
    \A w \in Waiters : Sleeps(w)' => Sleeps(w) \/ (Register(w) /\ task' # task)
<1> SUFFICES ASSUME TypeOK, [Next]_cvars, NEW w \in Waiters, Sleeps(w)', ~Sleeps(w)
             PROVE  Register(w) /\ task' # task
  OBVIOUS
<1>k. KeyOf[w] \in Keys /\ DOMAIN waiting = Keys /\ DOMAIN task = Waiters
  BY WaiterAssumption DEF TypeOK
<1>1. ASSUME NEW v \in Waiters, Register(v) PROVE Register(w) /\ task' # task
  <2>1. v = w
    <3> SUFFICES ASSUME v # w PROVE FALSE
      OBVIOUS
    <3>1. task'[w] = task[w]
      <4>1. \E t : task' = [task EXCEPT ![v] = t]
        BY <1>1 DEF Register
      <4> QED
        BY <1>k, <4>1
    <3>2. w \in waiting'[KeyOf[w]] => w \in waiting[KeyOf[w]]
      <4>k. KeyOf[v] \in Keys
        BY WaiterAssumption
      <4>1. \/ waiting' = waiting
            \/ waiting' = [waiting EXCEPT ![KeyOf[v]] = @ \cup {v}]
        BY <1>1 DEF Register
      <4> QED
        BY <1>k, <4>k, <4>1
    <3> QED
      BY <3>1, <3>2 DEF Sleeps
  <2>2. task[w] = "none" /\ task'[w] = "pending"
    BY <1>1, <2>1 DEF Register, Sleeps
  <2> QED
    BY <1>1, <2>1, <2>2
<1>2. ASSUME NEW v \in Waiters, DisposeWaiter(v) \/ CancelNext(v) \/ PumpComplete(v) \/ DisposeComplete(v)
      PROVE  FALSE
  <2>k. KeyOf[v] \in Keys
    BY WaiterAssumption
  <2>1. w \in waiting'[KeyOf[w]] => w \in waiting[KeyOf[w]]
    BY <1>2, <1>k, <2>k DEF DisposeWaiter, CancelNext, CancelToken, CancelRemove, CancelComplete,
                            PumpComplete, DisposeComplete
  <2>2. \/ task' = task
        \/ task' = [task EXCEPT ![v] = "none"]
        \/ \E t \in {"cancelled", "ok", "fault", "disposed"} :
             task' = [task EXCEPT ![v] = IF @ = "pending" THEN t ELSE @]
    BY <1>2 DEF DisposeWaiter, CancelNext, CancelToken, CancelRemove, CancelComplete,
                            PumpComplete, DisposeComplete, Outcome
  <2>3. task'[w] = "pending" => task[w] = "pending"
    BY <1>k, <2>2
  <2> QED
    BY <2>1, <2>3 DEF Sleeps
<1>3. ASSUME waiting' = [k \in Keys |-> {}] PROVE FALSE
  BY <1>3, <1>k DEF Sleeps
<1>4. CASE PumpTake
  <2>1. waiting' = [waiting EXCEPT ![Head(todo)] = {}] /\ UNCHANGED task
    BY <1>4 DEF PumpTake
  <2> QED
    BY <1>k, <2>1 DEF Sleeps
<1>5. CASE UNCHANGED <<waiting, task>>
  BY <1>5 DEF Sleeps
<1>6. CASE PumpDrain \/ DisposeDrain
  BY <1>3, <1>6 DEF PumpDrain, DisposeDrain
<1>7. CASE PumpStop \/ PumpMark \/ PumpEnqueue \/ PumpRelease \/ PumpNext \/ DisposeBegin \/ DisposeJoin
  BY <1>5, <1>7 DEF PumpStop, PumpMark, PumpEnqueue, PumpRelease, PumpNext, DisposeBegin, DisposeJoin
<1>8. ASSUME NEW j \in IncomingKeys, TryDequeue(j) PROVE FALSE
  BY <1>5, <1>8 DEF TryDequeue, Sleeps
<1>9. ASSUME NEW e \in Polled, PumpPoll(e) PROVE FALSE
  BY <1>5, <1>9 DEF PumpPoll, Sleeps
<1>10. CASE UNCHANGED cvars
  BY <1>5, <1>10 DEF cvars
<1> QED
  BY <1>1, <1>2, <1>4, <1>6, <1>7, <1>8, <1>9, <1>10 DEF Next, CallerNext, PumpStep, DisposeStep

\* The announcement of an event stays on its way to the waiters of its tables.
LEMMA OnItsWayStep ==
  TypeOK /\ PumpShape /\ EventsTyped /\ EndPhase /\ [ClientNext]_vars =>
    \A e, k : k \in Keys /\ Routes(e, k) /\ OnItsWay(e, k) =>
      OnItsWay(e, k)' \/ closing' \/ waiting'[k] = {}
<1> SUFFICES ASSUME TypeOK, PumpShape, EventsTyped, EndPhase, [ClientNext]_vars,
                    NEW e, NEW k, k \in Keys, Routes(e, k), OnItsWay(e, k)
             PROVE  OnItsWay(e, k)' \/ closing' \/ waiting'[k] = {}
  OBVIOUS
<1>o. /\ OnItsWay(e, k) <=> StillToTake(k) \/ InEvents(e)
      /\ OnItsWay(e, k)' <=> StillToTake(k)' \/ InEvents(e)'
  BY DEF OnItsWay, InEvents
<1>1. CASE StillToTake(k)
  BY <1>o, <1>1, ClientStepIsCoordinatorStep, TodoStep
<1>2. CASE InEvents(e)
  <2>1. InEvents(e)' \/ closing' \/ (PollNative /\ Head(events) = e)
    BY <1>2, EventsKept
  <2>2. ASSUME PollNative, Head(events) = e PROVE StillToTake(k)'
    <3>1. PumpPoll(e)
      BY <2>2 DEF PollNative
    <3> QED
      BY <3>1, PollRoutes
  <2> QED
    BY <1>o, <2>1, <2>2
<1> QED
  BY <1>o, <1>1, <1>2

\* A waiter comes to life when its call registers it.
LEMMA WaiterIsRegistered ==
  TypeOK /\ [ClientNext]_vars =>
    \A w \in Waiters : task[w] = "none" /\ task'[w] # "none" => RegisterCall(w)
<1> SUFFICES ASSUME TypeOK, [ClientNext]_vars, NEW w \in Waiters, task[w] = "none", task'[w] # "none"
             PROVE  RegisterCall(w)
  OBVIOUS
<1>k. DOMAIN task = Waiters
  BY DEF TypeOK
<1>1. CASE NativeNext \/ UNCHANGED vars
  BY <1>1, NativeFrame DEF vars, cvars
<1>2. ASSUME NEW v \in Waiters, CallNext(v) PROVE RegisterCall(w)
  <2>1. CASE RegisterCall(v)
    <3>1. \/ task' = task
          \/ \E t : task' = [task EXCEPT ![v] = t]
      BY <2>1 DEF RegisterCall, Register, cvars
    <3> QED
      BY <1>k, <2>1, <3>1
  <2>2. CASE Resume(v) \/ Leave(v)
    <3>1. task' = [task EXCEPT ![v] = "none"]
      BY <2>2 DEF Resume, Leave, DisposeWaiter
    <3> QED
      BY <1>k, <3>1
  <2>3. CASE ~RegisterCall(v) /\ ~Resume(v) /\ ~Leave(v)
    <3>1. UNCHANGED task
      BY <1>2, <2>3 DEF CallNext, CallStep, Start, Connect, ThrowFrom, ReceiveTry, AcceptTry, TryDequeue,
                        ReadTry, ReadChecksClosed, ConnectTimeout, Abandon, cvars
    <3> QED
      BY <3>1
  <2> QED
    BY <2>1, <2>2, <2>3
<1>3. CASE CoordinatorNext
  <2>1. ASSUME NEW v \in Waiters, PumpComplete(v) \/ DisposeComplete(v) \/ CancelNext(v) PROVE FALSE
    <3>1. \/ task' = task
          \/ \E t : task' = [task EXCEPT ![v] = IF @ = "pending" THEN t ELSE @]
      BY <2>1 DEF CancelNext, CancelToken, CancelRemove, CancelComplete, PumpComplete, DisposeComplete
    <3> QED
      BY <1>k, <3>1
  <2>2. ASSUME UNCHANGED task PROVE FALSE
    BY <2>2
  <2>3. CASE PollNative
    BY <2>2, <2>3 DEF PollNative, PumpPoll
  <2>4. CASE PumpStep
    BY <2>2, <2>4 DEF PumpStep, PumpStop, PumpMark, PumpEnqueue, PumpRelease, PumpTake, PumpDrain, PumpNext
  <2>5. CASE DisposeStep
    BY <2>2, <2>5 DEF DisposeStep, DisposeDrain, DisposeJoin
  <2> QED
    BY <1>3, <2>1, <2>3, <2>4, <2>5 DEF CoordinatorNext
<1>4. CASE Closing
  <2>1. UNCHANGED cvars \/ DisposeBegin
    BY <1>4 DEF Closing, EndStep, AdapterShutdown, CloseBegin, CloseShutdown, CloseRelease,
                AdapterDetach, AdapterDispose, AdapterRelease
  <2> QED
    BY <2>1 DEF cvars, DisposeBegin
<1> QED
  BY <1>1, <1>2, <1>3, <1>4, Cases

\* A call falls asleep by registering.
LEMMA FallsAsleep ==
  TypeOK /\ EventsTyped /\ [ClientNext]_vars =>
    \A w \in Waiters : Sleeps(w)' => Sleeps(w) \/ RegisterCall(w)
<1> SUFFICES ASSUME TypeOK, EventsTyped, [ClientNext]_vars, NEW w \in Waiters, Sleeps(w)', ~Sleeps(w)
             PROVE  RegisterCall(w)
  OBVIOUS
<1>1. Register(w)
  BY ClientStepIsCoordinatorStep, SleepersStep
<1>2. task[w] = "none" /\ task'[w] # "none"
  BY <1>1 DEF Register, Sleeps
<1> QED
  BY <1>2, WaiterIsRegistered

-----------------------------------------------------------------------------
(* No lost wakeup *)

Waits(w) == pc[w] \in {"closed??", "wait"} /\ Sleeps(w)
Empty(w) ==
  /\ w \in Receivers => datagrams = <<>>
  /\ w \in Readers => buffered[StreamOf(w)] = 0

DatagramEvent == SessionEvent("DATAGRAM_RECEIVED")
DataEvent(s) == [type |-> "STREAM_DATA_RECEIVED", stream |-> s]
CloseEvent(s) == [type |-> "STREAM_CLOSED", stream |-> s]

\* What a waiting call could have is announced to it.
Announced(w) ==
  /\ w \in Receivers /\ datagrams # <<>> => OnItsWay(DatagramEvent, KeyOf[w])
  /\ w \in Readers /\ buffered[StreamOf(w)] # 0 => OnItsWay(DataEvent(StreamOf(w)), KeyOf[w])

DataAnnounced == overflow \/ closing \/ \A w \in Waiters : Waits(w) => Announced(w)

LEMMA ReadersRead == \A w \in Readers : StreamOf(w) \in Streams /\ KeyOf[w] = <<"data", StreamOf(w)>>
BY DEF Readers, StreamKeys, StreamOf

\* A call that begins to wait has looked once more and found nothing.
LEMMA WaitsEmpty ==
  TypeOK /\ EventsTyped /\ DataTyped /\ CallsTyped /\ [ClientNext]_vars =>
    \A w \in Receivers \cup Readers : Waits(w)' => Waits(w) \/ Empty(w)'
<1> SUFFICES ASSUME TypeOK, EventsTyped, DataTyped, CallsTyped, [ClientNext]_vars,
                    NEW w \in Receivers \cup Readers, Waits(w)', ~Waits(w)
             PROVE  Empty(w)'
  OBVIOUS
<1>w. w \in Waiters /\ w \notin Connectors /\ w \notin Acceptors
  BY RolesDiffer
<1>1. RegisterCall(w) \/ pc'[w] # pc[w]
  BY <1>w, FallsAsleep DEF Waits
<1>2. CallNext(w)
  <2>1. CASE RegisterCall(w)
    BY <2>1 DEF CallNext, CallStep
  <2>2. CASE pc'[w] # pc[w]
    <3>1. ~UNCHANGED callVars
      BY <2>2
    <3>2. \E v \in Waiters : CallNext(v)
      BY <3>1, Cases, NativeFrame, CoordinatorFrame, ClosingFrame DEF vars, mvars
    <3> QED
      BY <1>w, <2>2, <3>2, CallOthers
  <2> QED
    BY <1>1, <2>1, <2>2
<1>3. CASE ReceiveTry(w)
  <2>1. w \in Receivers /\ w \notin Readers
    BY <1>3, RolesDiffer DEF ReceiveTry
  <2>2. \/ Return(w, "done", Got(Head(datagrams))) \/ Return(w, "leave", Got(Head(datagrams)))
        \/ datagrams = <<>> /\ datagrams' = datagrams
    BY <1>3 DEF ReceiveTry
  <2>3. datagrams' = <<>>
    BY <1>w, <2>2, Went DEF Waits
  <2> QED
    BY <2>1, <2>3 DEF Empty
<1>4. CASE ReadTry(w)
  <2>1. w \in Readers /\ w \notin Receivers
    BY <1>4, RolesDiffer DEF ReadTry
  <2> DEFINE s == StreamOf(w)
  <2>2. s \in Streams
    BY <2>1, ReadersRead
  <2>3. \/ Return(w, "done", Got(Readable(w))) \/ Return(w, "leave", Got(Readable(w)))
        \/ Readable(w) = 0
    BY <1>4 DEF ReadTry
  <2>4. Readable(w) = 0
    BY <1>w, <2>3, Went DEF Waits
  <2>5. buffered[s] \in Nat /\ ReadLength \in Nat \ {0} /\ DOMAIN buffered = Streams
    BY <2>2, ClientAssumption DEF DataTyped
  <2>6. buffered[s] = 0
    BY <2>4, <2>5 DEF Readable
  <2>7. buffered'[s] = buffered[s] - Readable(w)
    BY <1>4, <2>2, <2>5 DEF ReadTry
  <2>8. buffered'[s] = 0
    BY <2>4, <2>6, <2>7
  <2> QED
    BY <2>1, <2>8 DEF Empty
<1>5. CASE ReadChecksClosed(w)
  <2>1. \/ Return(w, "done", Got(0)) \/ Return(w, "leave", Got(0))
        \/ pc[w] = "closed?" /\ Goto(w, "register")
        \/ pc[w] = "closed??" /\ UNCHANGED cvars
    BY <1>5 DEF ReadChecksClosed
  <2>2. pc[w] = "closed??" /\ UNCHANGED cvars
    BY <1>w, <2>1, Went DEF Waits
  <2>3. Waits(w)
    BY <2>2 DEF Waits, Sleeps, cvars
  <2> QED
    BY <2>3
<1>6. CASE RegisterCall(w)
  <2>1. \/ \E f : Return(w, "done", Failure(f))
        \/ Goto(w, "retry")
    BY <1>6, <1>w DEF RegisterCall, Fail
  <2> QED
    BY <1>w, <2>1, Went DEF Waits
<1>7. CASE Start(w) \/ Connect(w) \/ ThrowFrom(w)
  <2>1. \E there \in {"connect", "try", "done", "register", "leave"} : Goto(w, there)
    BY <1>7 DEF Start, Connect, ThrowFrom, Return
  <2> QED
    BY <1>w, <2>1, Went DEF Waits
<1>8. CASE Resume(w) \/ Leave(w) \/ Abandon(w)
  <2>1. \E there \in {"done", "final", "try", "abandon"} : Goto(w, there)
    BY <1>8 DEF Resume, Leave, Abandon, Return, Fail
  <2> QED
    BY <1>w, <2>1, Went DEF Waits
<1>9. ~AcceptTry(w) /\ ~ConnectTimeout(w)
  BY <1>w DEF AcceptTry, ConnectTimeout
<1> QED
  BY <1>2, <1>3, <1>4, <1>5, <1>6, <1>7, <1>8, <1>9 DEF CallNext, CallStep

\* Datagrams and data come from the peer.
LEMMA DataComes ==
  DataTyped /\ [ClientNext]_vars =>
    /\ datagrams = <<>> /\ datagrams' # <<>> => PeerSendsDatagram /\ handle
    /\ \A s \in Streams : buffered[s] = 0 /\ buffered'[s] # 0 => PeerSendsData(s)
<1> SUFFICES ASSUME DataTyped, [ClientNext]_vars
             PROVE  /\ datagrams = <<>> /\ datagrams' # <<>> => PeerSendsDatagram /\ handle
                    /\ \A s \in Streams : buffered[s] = 0 /\ buffered'[s] # 0 => PeerSendsData(s)
  OBVIOUS
<1> DEFINE Same == UNCHANGED <<datagrams, buffered>>
<1>1. CASE Same
  BY <1>1
<1>2. CASE NativeNext
  <2>1. Same \/ PeerSendsDatagram \/ \E s \in Streams : PeerSendsData(s)
    BY <1>2 DEF NativeNext, HandshakeCompletes, PeerAnswers, StreamEnds, PeerOpensStream,
                ConnectionEnds, ConnectionOver
  <2>2. CASE PeerSendsDatagram
    <3>1. UNCHANGED buffered /\ (~handle => UNCHANGED datagrams)
      BY <2>2 DEF PeerSendsDatagram
    <3> QED
      BY <2>2, <3>1
  <2>3. ASSUME NEW s \in Streams, PeerSendsData(s)
        PROVE  UNCHANGED datagrams /\ \A r \in Streams : r # s => buffered'[r] = buffered[r]
    BY <2>3 DEF PeerSendsData, DataTyped
  <2> QED
    BY <1>1, <2>1, <2>2, <2>3
<1>3. ASSUME NEW w \in Waiters, CallNext(w)
      PROVE  /\ datagrams = <<>> => datagrams' = <<>>
             /\ \A s \in Streams : buffered[s] = 0 => buffered'[s] = 0
  <2>1. CASE ReceiveTry(w)
    BY <2>1 DEF ReceiveTry
  <2>2. CASE ReadTry(w)
    <3>1. UNCHANGED datagrams /\ buffered' = [buffered EXCEPT ![StreamOf(w)] = @ - Readable(w)]
      BY <2>2 DEF ReadTry
    <3>2. buffered[StreamOf(w)] = 0 => Readable(w) = 0
      BY ClientAssumption DEF Readable
    <3> QED
      BY <3>1, <3>2 DEF DataTyped
  <2>3. CASE Abandon(w)
    BY <2>3 DEF Abandon
  <2>4. CASE ~ReceiveTry(w) /\ ~ReadTry(w) /\ ~Abandon(w)
    <3>1. Same
      BY <1>3, <2>4 DEF CallNext, CallStep, Start, Connect, ThrowFrom, AcceptTry, ReadChecksClosed,
                        RegisterCall, Resume, ConnectTimeout, Leave
    <3> QED
      BY <3>1
  <2> QED
    BY <2>1, <2>2, <2>3, <2>4
<1>4. CASE Closing
  <2>1. UNCHANGED buffered /\ (UNCHANGED datagrams \/ datagrams' = <<>>)
    BY <1>4 DEF Closing, EndStep, AdapterShutdown, CloseBegin, CloseShutdown, CloseRelease,
                AdapterDetach, AdapterDispose, AdapterRelease
  <2> QED
    BY <2>1
<1>5. CASE CoordinatorNext \/ UNCHANGED vars
  BY <1>1, <1>5, CoordinatorFrame DEF vars, mvars
<1> QED
  BY <1>2, <1>3, <1>4, <1>5, Cases

\* Which events are for whom.
LEMMA EventsRoute ==
  /\ DatagramEvent \in NativeEvents
  /\ \A w \in Receivers : KeyOf[w] \in Keys /\ Routes(DatagramEvent, KeyOf[w])
  /\ \A w \in Readers : /\ KeyOf[w] \in Keys
                        /\ DataEvent(StreamOf(w)) \in NativeEvents
                        /\ CloseEvent(StreamOf(w)) \in NativeEvents
                        /\ Routes(DataEvent(StreamOf(w)), KeyOf[w])
                        /\ Routes(CloseEvent(StreamOf(w)), KeyOf[w])
<1>1. DatagramEvent \in NativeEvents
  BY SessionEventIsNative DEF DatagramEvent
<1>2. ASSUME NEW w \in Receivers PROVE KeyOf[w] \in Keys /\ Routes(DatagramEvent, KeyOf[w])
  <2>1. KeyOf[w] \in Keys /\ KeyOf[w] = <<"datagram", Session>>
    BY <1>2, WaiterAssumption DEF Receivers
  <2>2. Route(DatagramEvent) = << <<"datagram", Session>> >>
    <3>1. DatagramEvent.type = "DATAGRAM_RECEIVED" /\ DatagramEvent.session = Session
      BY DEF DatagramEvent, SessionEvent
    <3> QED
      BY <3>1 DEF Route
  <2> QED
    BY <2>1, <2>2 DEF Routes
<1>3. ASSUME NEW w \in Readers
      PROVE  /\ KeyOf[w] \in Keys
             /\ DataEvent(StreamOf(w)) \in NativeEvents
             /\ CloseEvent(StreamOf(w)) \in NativeEvents
             /\ Routes(DataEvent(StreamOf(w)), KeyOf[w])
             /\ Routes(CloseEvent(StreamOf(w)), KeyOf[w])
  <2> DEFINE s == StreamOf(w)
  <2>1. KeyOf[w] \in Keys /\ KeyOf[w] = <<"data", s>> /\ s \in Streams
    BY <1>3, WaiterAssumption, ReadersRead, RolesDiffer
  <2>2. ASSUME NEW e, e = DataEvent(s) \/ e = CloseEvent(s)
        PROVE  e \in NativeEvents /\ Route(e) = << <<"data", s>> >>
    <3>1. e.type \in {"STREAM_DATA_RECEIVED", "STREAM_CLOSED"} /\ e.stream = s
      BY <2>2 DEF DataEvent, CloseEvent
    <3>2. Route(e) = << <<"data", s>> >>
      BY <3>1 DEF Route
    <3>3. e \in NativeEvents
      BY <2>1, <2>2 DEF DataEvent, CloseEvent, NativeEvents, StreamEvents
    <3> QED
      BY <3>2, <3>3
  <2>3. \A e : Route(e) = << <<"data", s>> >> => Routes(e, KeyOf[w])
    BY <2>1 DEF Routes
  <2> QED
    BY <2>1, <2>2, <2>3
<1> QED
  BY <1>1, <1>2, <1>3

LEMMA DataAnnouncedStep ==
  TypeOK /\ PumpShape /\ EventsTyped /\ DataTyped /\ CallsTyped /\ Phases /\ DataAnnounced
    /\ [ClientNext]_vars => DataAnnounced'
<1> SUFFICES ASSUME TypeOK, PumpShape, EventsTyped, DataTyped, CallsTyped, Phases, DataAnnounced,
                    [ClientNext]_vars, ~overflow', ~closing', NEW w \in Waiters, Waits(w)'
             PROVE  Announced(w)'
  BY DEF DataAnnounced
<1>e. EndPhase
  BY DEF Phases
<1>n. ~overflow /\ ~closing
  BY OverflowStays
<1>1. CASE w \in Receivers
  <2> SUFFICES ASSUME datagrams' # <<>> PROVE OnItsWay(DatagramEvent, KeyOf[w])'
    BY <1>1, RolesDiffer DEF Announced
  <2>r. KeyOf[w] \in Keys /\ Routes(DatagramEvent, KeyOf[w]) /\ DatagramEvent \in NativeEvents
    BY <1>1, EventsRoute
  <2>1. Waits(w) \/ Empty(w)'
    BY <1>1, WaitsEmpty
  <2>2. Waits(w)
    BY <1>1, <2>1 DEF Empty
  <2>3. CASE datagrams # <<>>
    <3>1. OnItsWay(DatagramEvent, KeyOf[w])
      BY <1>1, <1>n, <2>2, <2>3 DEF DataAnnounced, Announced
    <3>2. waiting'[KeyOf[w]] # {}
      BY DEF Waits, Sleeps
    <3> QED
      BY <1>e, <2>r, <3>1, <3>2, OnItsWayStep
  <2>4. CASE datagrams = <<>>
    <3>1. Push(DatagramEvent)
      BY <2>4, DataComes DEF PeerSendsDatagram, DatagramEvent
    <3>2. InEvents(DatagramEvent)'
      BY <1>n, <2>r, <3>1, PushFacts
    <3> QED
      BY <3>2 DEF OnItsWay, InEvents
  <2> QED
    BY <2>3, <2>4
<1>2. CASE w \in Readers
  <2> DEFINE s == StreamOf(w)
  <2> SUFFICES ASSUME buffered'[s] # 0 PROVE OnItsWay(DataEvent(s), KeyOf[w])'
    BY <1>2, RolesDiffer DEF Announced
  <2>r. KeyOf[w] \in Keys /\ Routes(DataEvent(s), KeyOf[w]) /\ DataEvent(s) \in NativeEvents /\ s \in Streams
    BY <1>2, EventsRoute, ReadersRead
  <2>1. Waits(w) \/ Empty(w)'
    BY <1>2, WaitsEmpty
  <2>2. Waits(w)
    BY <1>2, <2>1 DEF Empty
  <2>3. CASE buffered[s] # 0
    <3>1. OnItsWay(DataEvent(s), KeyOf[w])
      BY <1>2, <1>n, <2>2, <2>3 DEF DataAnnounced, Announced
    <3>2. waiting'[KeyOf[w]] # {}
      BY DEF Waits, Sleeps
    <3> QED
      BY <1>e, <2>r, <3>1, <3>2, OnItsWayStep
  <2>4. CASE buffered[s] = 0
    <3>1. PeerSendsData(s)
      BY <2>4, <2>r, DataComes
    <3>2. SessionUp
      BY <1>2, <2>2, RolesDiffer DEF Phases, OtherPhase, Waits
    <3>3. handle
      BY <1>e, <1>n, <3>1, <3>2 DEF EndPhase, PeerSendsData
    <3>4. Push(DataEvent(s))
      BY <3>1, <3>3 DEF PeerSendsData, DataEvent
    <3>5. InEvents(DataEvent(s))'
      BY <1>n, <2>r, <3>4, PushFacts
    <3> QED
      BY <3>5 DEF OnItsWay, InEvents
  <2> QED
    BY <2>3, <2>4
<1> QED
  BY <1>1, <1>2 DEF Announced

-----------------------------------------------------------------------------
(* The end of a stream *)

EndAnnounced ==
  overflow \/ closing \/ \A s \in ended :
     s \in closedStreams \/ (pumpPc = "mark" /\ ev = CloseEvent(s)) \/ InEvents(CloseEvent(s))

\* The pump remembers the end of the stream it polled, and forgets none.
LEMMA EndRemembered ==
  TypeOK /\ [Next]_cvars =>
    /\ closedStreams \subseteq closedStreams'
    /\ \A s \in Streams : pumpPc = "mark" /\ ev = CloseEvent(s) =>
         s \in closedStreams' \/ (pumpPc' = "mark" /\ ev' = CloseEvent(s))
<1> SUFFICES ASSUME TypeOK, [Next]_cvars
             PROVE  /\ closedStreams \subseteq closedStreams'
                    /\ \A s \in Streams : pumpPc = "mark" /\ ev = CloseEvent(s) =>
                         s \in closedStreams' \/ (pumpPc' = "mark" /\ ev' = CloseEvent(s))
  OBVIOUS
<1>t. \A s : CloseEvent(s).type = "STREAM_CLOSED" /\ CloseEvent(s).stream = s
  BY DEF CloseEvent
<1>1. CASE UNCHANGED <<pumpPc, ev, closedStreams>>
  BY <1>1
<1>2. CASE pumpPc # "mark" /\ UNCHANGED closedStreams
  BY <1>2
<1>3. CASE PumpMark
  <2>1. /\ closedStreams \subseteq closedStreams'
        /\ ev.type = "STREAM_CLOSED" => ev.stream \in closedStreams'
    BY <1>3 DEF PumpMark
  <2> QED
    BY <1>t, <2>1
<1>4. CASE PumpEnqueue
  <2>1. UNCHANGED closedStreams /\ ev.type # "STREAM_CLOSED"
    BY <1>4 DEF PumpEnqueue
  <2> QED
    BY <1>t, <2>1
<1>5. CASE PumpStop \/ PumpRelease \/ PumpTake \/ PumpDrain \/ PumpNext
  <2>1. pumpPc # "mark" /\ UNCHANGED closedStreams
    BY <1>5 DEF PumpStop, PumpRelease, PumpTake, PumpDrain, PumpNext
  <2> QED
    BY <1>2, <2>1
<1>6. ASSUME NEW e \in Polled, PumpPoll(e) PROVE pumpPc # "mark" /\ UNCHANGED closedStreams
  BY <1>6 DEF PumpPoll
<1>7. CASE DisposeBegin \/ DisposeStep
  <2>1. UNCHANGED <<pumpPc, ev, closedStreams>>
    BY <1>7 DEF DisposeBegin, DisposeStep, DisposeDrain, DisposeJoin
  <2> QED
    BY <1>1, <2>1
<1>8. ASSUME NEW w \in Waiters, CallerNext(w) \/ CancelNext(w) \/ PumpComplete(w) \/ DisposeComplete(w)
      PROVE  UNCHANGED <<pumpPc, ev, closedStreams>>
  BY <1>8 DEF CallerNext, CancelNext, Register, DisposeWaiter, CancelToken, CancelRemove,
              CancelComplete, PumpComplete, DisposeComplete
<1>9. ASSUME NEW j \in IncomingKeys, TryDequeue(j) PROVE UNCHANGED <<pumpPc, ev, closedStreams>>
  BY <1>9 DEF TryDequeue
<1>10. CASE UNCHANGED cvars
  BY <1>1, <1>10 DEF cvars
<1> QED
  BY <1>1, <1>2, <1>3, <1>4, <1>5, <1>6, <1>7, <1>8, <1>9, <1>10 DEF Next, PumpStep

LEMMA EndAnnouncedStep ==
  TypeOK /\ EventsTyped /\ EndPhase /\ RestTyped /\ EndAnnounced /\ [ClientNext]_vars => EndAnnounced'
<1> SUFFICES ASSUME TypeOK, EventsTyped, EndPhase, RestTyped, EndAnnounced, [ClientNext]_vars,
                    ~overflow', ~closing', NEW s \in ended'
             PROVE  \/ s \in closedStreams'
                    \/ pumpPc' = "mark" /\ ev' = CloseEvent(s)
                    \/ InEvents(CloseEvent(s))'
  BY DEF EndAnnounced
<1>n. ~overflow /\ ~closing
  BY OverflowStays
<1>1. CASE s \in ended
  <2>s. s \in Streams
    BY <1>1 DEF RestTyped
  <2>1. CASE InEvents(CloseEvent(s))
    <3>1. InEvents(CloseEvent(s))' \/ (PollNative /\ Head(events) = CloseEvent(s))
      BY <2>1, EventsKept
    <3>2. CASE PollNative /\ Head(events) = CloseEvent(s)
      <4>1. PumpPoll(CloseEvent(s))
        BY <3>2 DEF PollNative
      <4>2. FirstStep(CloseEvent(s)) = "mark"
        BY DEF FirstStep, CloseEvent
      <4> QED
        BY <4>1, <4>2 DEF PumpPoll
    <3> QED
      BY <3>1, <3>2
  <2>2. CASE s \in closedStreams \/ (pumpPc = "mark" /\ ev = CloseEvent(s))
    BY <2>s, <2>2, ClientStepIsCoordinatorStep, EndRemembered
  <2> QED
    BY <1>1, <1>n, <2>1, <2>2 DEF EndAnnounced
<1>2. CASE s \notin ended
  <2>1. NativeNext
    BY <1>2, Cases, CoordinatorFrame, CallFrame, ClosingFrame DEF vars, mvars
  <2>2. s \in Streams /\ StreamEnds(s)
    BY <1>2, <2>1 DEF NativeNext, HandshakeCompletes, PeerAnswers, PeerSendsDatagram, PeerSendsData,
                      StreamEnds, PeerOpensStream, ConnectionEnds, ConnectionOver
  <2>3. Push(CloseEvent(s)) /\ CloseEvent(s) \in NativeEvents
    BY <2>2 DEF StreamEnds, CloseEvent, NativeEvents, StreamEvents
  <2> QED
    BY <1>n, <2>3, PushFacts
<1> QED
  BY <1>1, <1>2

-----------------------------------------------------------------------------
(* A connect succeeds only with the peer's answer *)

ConnectKey == <<"connected", Session>>

\* The coordinator has heard of no answer, and what it holds for the connect is a failure.
Unanswered ==
  /\ ev # Answer /\ Session \notin connected
  /\ StillToTake(ConnectKey) \/ pumpPc = "drain" => Outcome(ev) = "fault"
  /\ \A w \in Connectors : task[w] # "ok" /\ (w \in taken => Outcome(ev) = "fault")

AnswerKnown ==
  \/ answered = "accepted"
  \/ ~InEvents(Answer) /\ Unanswered /\ \A w \in Connectors : result[w] # Got(Session)

LEMMA AnswerFacts ==
  /\ Answer.type = "SESSION_CONNECTED" /\ FirstStep(Answer) = "mark"
  /\ NoNativeEvent # Answer
  /\ \A e \in NativeEvents : e.type = "SESSION_CONNECTED" => e = Answer /\ e.session = Session
<1>1. Answer.type = "SESSION_CONNECTED" /\ NoNativeEvent.type = "NONE"
  BY DEF Answer, SessionEvent, NoNativeEvent
<1>2. ASSUME NEW e \in NativeEvents, e.type = "SESSION_CONNECTED"
      PROVE  e = Answer /\ e.session = Session
  BY <1>2, ClientAssumption
     DEF NativeEvents, SessionEvents, OpenedEvents, StreamEvents, ClientEvents, Answer, SessionEvent
<1> QED
  BY <1>1, <1>2 DEF FirstStep

\* Only the answer completes a connect's waiters with success.
LEMMA ConnectRoute ==
  \A e \in NativeEvents : e # Answer /\ Routes(e, ConnectKey) => Outcome(e) = "fault"
<1> SUFFICES ASSUME NEW e \in NativeEvents, e # Answer, Routes(e, ConnectKey)
             PROVE  Outcome(e) = "fault"
  OBVIOUS
<1>1. PICK i \in 1 .. Len(Route(e)) : Route(e)[i] = ConnectKey
  BY DEF Routes
<1>2. e.type # "SESSION_CONNECTED"
  BY AnswerFacts
<1>3. e.type \notin {"DATAGRAM_RECEIVED", "BIDI_STREAM_OPENED", "UNI_STREAM_OPENED",
                     "STREAM_DATA_RECEIVED", "STREAM_CLOSED"}
  BY <1>1 DEF Route, IncomingKey, ConnectKey
<1>4. e.type \in {"SESSION_REJECTED", "SESSION_CLOSED"}
  BY <1>1, <1>2, <1>3 DEF Route
<1> QED
  BY <1>4 DEF Outcome

LEMMA UnansweredStep ==
  TypeOK /\ PumpShape /\ ListsAreDisjoint /\ Unanswered /\ [Next]_cvars =>
    Unanswered' \/ PumpPoll(Answer)
<1> SUFFICES ASSUME TypeOK, PumpShape, ListsAreDisjoint, Unanswered, [Next]_cvars, ~PumpPoll(Answer)
             PROVE  Unanswered'
  OBVIOUS
<1> USE DEF Unanswered
<1>c. ConnectKey \in Keys /\ \A w \in Connectors : w \in Waiters /\ KeyOf[w] = ConnectKey
  BY RolesDiffer, ClientAssumption DEF ConnectKey, Connectors, Keys, SessionKeys, SessionTables
<1>k. DOMAIN task = Waiters /\ DOMAIN waiting = Keys
  BY DEF TypeOK
<1> DEFINE Kept == UNCHANGED <<ev, connected, todo, taken, pumpPc>>
<1>1. ASSUME Kept, \A w \in Connectors : task'[w] # "ok" PROVE Unanswered'
  BY <1>1 DEF StillToTake
<1>2. ASSUME NEW v \in Waiters, Register(v) PROVE Unanswered'
  <2>1. Kept
    BY <1>2 DEF Register
  <2>2. ASSUME NEW w \in Connectors PROVE task'[w] # "ok"
    <3>1. CASE w = v
      <4>1. ~AlreadyThere(ConnectKey)
        BY DEF AlreadyThere, ConnectKey, IncomingKeys, Directions, StreamKeys
      <4> QED
        BY <1>2, <1>c, <1>k, <3>1, <4>1 DEF Register
    <3>2. CASE w # v
      <4>1. \E t : task' = [task EXCEPT ![v] = t]
        BY <1>2 DEF Register
      <4> QED
        BY <1>c, <1>k, <3>2, <4>1
    <3> QED
      BY <3>1, <3>2
  <2> QED
    BY <1>1, <2>1, <2>2
<1>3. ASSUME NEW v \in Waiters, DisposeWaiter(v) \/ CancelNext(v) \/ DisposeComplete(v) PROVE Unanswered'
  <2>1. Kept
    BY <1>3 DEF DisposeWaiter, CancelNext, CancelToken, CancelRemove, CancelComplete, DisposeComplete
  <2>2. \/ task' = task
        \/ task' = [task EXCEPT ![v] = "none"]
        \/ \E t \in {"cancelled", "disposed"} :
             task' = [task EXCEPT ![v] = IF @ = "pending" THEN t ELSE @]
    BY <1>3 DEF DisposeWaiter, CancelNext, CancelToken, CancelRemove, CancelComplete, DisposeComplete
  <2>3. \A w \in Connectors : task'[w] # "ok"
    BY <1>c, <1>k, <2>2
  <2> QED
    BY <1>1, <2>1, <2>3
<1>4. ASSUME NEW v \in Waiters, PumpComplete(v) PROVE Unanswered'
  <2>1. /\ UNCHANGED <<ev, connected, todo, pumpPc>> /\ taken' \subseteq taken /\ v \in taken
        /\ task' = [task EXCEPT ![v] = IF @ = "pending" THEN Outcome(ev) ELSE @]
    BY <1>4 DEF PumpComplete
  <2>2. \A w \in Connectors : task'[w] # "ok"
    BY <1>c, <1>k, <2>1
  <2> QED
    BY <2>1, <2>2 DEF StillToTake
<1>5. CASE PumpTake
  <2>1. /\ UNCHANGED <<ev, connected, task>> /\ pumpPc' = "complete"
        /\ taken' = waiting[Head(todo)] /\ todo' = Tail(todo) /\ todo # <<>> /\ todo \in Seq(Keys)
    BY <1>5 DEF PumpTake, TypeOK
  <2>2. /\ Head(todo) = todo[1] /\ Head(todo) \in Keys /\ Len(todo) \in Nat \ {0}
        /\ Len(todo') = Len(todo) - 1
        /\ \A j \in 1 .. Len(todo') : todo'[j] = todo[j + 1]
    BY <2>1, HeadTailProperties, LenProperties, EmptySeq
  <2>3. StillToTake(ConnectKey)' => StillToTake(ConnectKey)
    <3> SUFFICES ASSUME NEW i \in 1 .. Len(todo'), todo'[i] = ConnectKey PROVE StillToTake(ConnectKey)
      BY DEF StillToTake
    <3>1. i + 1 \in 1 .. Len(todo) /\ todo[i + 1] = ConnectKey
      BY <2>2
    <3> QED
      BY <3>1 DEF StillToTake
  <2>4. ASSUME NEW w \in Connectors, w \in taken' PROVE StillToTake(ConnectKey)
    <3>1. Head(todo) = ConnectKey
      BY <1>c, <2>1, <2>2, <2>4 DEF ListsAreDisjoint
    <3>2. 1 \in 1 .. Len(todo) /\ todo[1] = ConnectKey
      BY <2>2, <3>1
    <3> QED
      BY <3>2 DEF StillToTake
  <2> QED
    BY <2>1, <2>3, <2>4
<1>6. CASE PumpDrain
  <2>1. UNCHANGED <<ev, connected, task, todo>> /\ pumpPc = "drain" /\ pumpPc' = "complete"
    BY <1>6 DEF PumpDrain
  <2> QED
    BY <2>1 DEF StillToTake
<1>7. CASE PumpMark
  <2>1. UNCHANGED <<ev, task, todo, taken>> /\ pumpPc' = "take"
    BY <1>7 DEF PumpMark
  <2>2. ev \in NativeEvents
    BY <1>7 DEF PumpMark, TypeOK, NoNativeEvent
  <2>3. connected' = connected
    BY <1>7, <2>2, AnswerFacts DEF PumpMark
  <2> QED
    BY <2>1, <2>3 DEF StillToTake
<1>8. CASE PumpStop \/ PumpEnqueue \/ PumpRelease
  <2>1. UNCHANGED <<ev, connected, task, todo, taken>> /\ pumpPc' # "drain"
    BY <1>8 DEF PumpStop, PumpEnqueue, PumpRelease
  <2> QED
    BY <2>1 DEF StillToTake
<1>9. CASE PumpNext
  <2>1. /\ UNCHANGED <<connected, task, todo, taken>> /\ pumpPc' # "drain" /\ taken = {}
        /\ ev' = ev \/ (todo = <<>> /\ ev' = NoNativeEvent)
    BY <1>9 DEF PumpNext
  <2>2. todo = <<>> => ~StillToTake(ConnectKey)'
    BY <2>1, EmptySeq DEF StillToTake
  <2> QED
    BY <2>1, <2>2, AnswerFacts DEF StillToTake
<1>10. ASSUME NEW e \in Polled, PumpPoll(e) PROVE Unanswered'
  <2>1. /\ UNCHANGED <<connected, task, taken>> /\ pumpPc = "poll" /\ pumpPc' = FirstStep(e)
        /\ todo' = Route(e) /\ ev' = IF FirstStep(e) = "poll" THEN NoNativeEvent ELSE e
    BY <1>10 DEF PumpPoll
  <2>2. e \in NativeEvents /\ e # Answer
    BY <1>10, PolledAssumption
  <2>3. taken = {}
    BY <2>1 DEF PumpShape
  <2>4. ev' # Answer
    BY <2>1, <2>2, AnswerFacts
  <2>5. ASSUME StillToTake(ConnectKey)' PROVE Outcome(ev') = "fault"
    <3>1. Routes(e, ConnectKey)
      BY <2>1, <2>5 DEF Routes, StillToTake
    <3>2. Outcome(e) = "fault"
      BY <2>2, <3>1, ConnectRoute
    <3>3. FirstStep(e) # "poll"
      BY <3>2 DEF Outcome, FirstStep
    <3> QED
      BY <2>1, <3>2, <3>3
  <2>6. ASSUME pumpPc' = "drain" PROVE Outcome(ev') = "fault"
    <3>1. ev' = e /\ FirstStep(e) = "drain"
      BY <2>1, <2>6
    <3> QED
      BY <3>1 DEF FirstStep, Outcome
  <2> QED
    BY <2>1, <2>3, <2>4, <2>5, <2>6
<1>11. CASE DisposeBegin \/ DisposeStep
  <2>1. Kept /\ UNCHANGED task
    BY <1>11 DEF DisposeBegin, DisposeStep, DisposeDrain, DisposeJoin
  <2> QED
    BY <1>1, <2>1
<1>12. ASSUME NEW j \in IncomingKeys, TryDequeue(j) PROVE Unanswered'
  BY <1>1, <1>12 DEF TryDequeue
<1>13. CASE UNCHANGED cvars
  BY <1>1, <1>13 DEF cvars
<1> QED
  BY <1>2, <1>3, <1>4, <1>5, <1>6, <1>7, <1>8, <1>9, <1>10, <1>11, <1>12, <1>13
     DEF Next, CallerNext, PumpStep

LEMMA AnswerStays == [ClientNext]_vars => (answered = "accepted" => answered' = "accepted")
<1> SUFFICES ASSUME [ClientNext]_vars, answered = "accepted" PROVE answered' = "accepted"
  OBVIOUS
<1>1. CASE NativeNext
  BY <1>1 DEF NativeNext, HandshakeCompletes, PeerAnswers, PeerSendsDatagram, PeerSendsData, StreamEnds,
              PeerOpensStream, ConnectionEnds, ConnectionOver
<1> QED
  BY <1>1, Cases, CoordinatorFrame, CallFrame, ClosingFrame DEF vars, mvars

\* The pump gets to the answer by polling it.
LEMMA PollIsNative ==
  [ClientNext]_vars => (PumpPoll(Answer) => PollNative /\ ev' = Head(events))
<1> SUFFICES ASSUME [ClientNext]_vars, PumpPoll(Answer) PROVE PollNative /\ ev' = Head(events)
  OBVIOUS
<1>1. pumpPc = "poll" /\ pumpPc' = "mark"
  BY AnswerFacts DEF PumpPoll
<1>2. CASE NativeNext \/ UNCHANGED vars
  BY <1>1, <1>2, NativeFrame DEF vars, cvars
<1>3. ASSUME NEW w \in Waiters, CallNext(w) PROVE UNCHANGED pumpPc
  BY <1>3 DEF CallNext, CallStep, Start, Connect, ThrowFrom, ReceiveTry, AcceptTry, TryDequeue, ReadTry,
              ReadChecksClosed, RegisterCall, Register, Resume, ConnectTimeout, Leave, Abandon,
              DisposeWaiter, cvars
<1>4. CASE Closing
  <2>1. UNCHANGED cvars \/ DisposeBegin
    BY <1>4 DEF Closing, EndStep, AdapterShutdown, CloseBegin, CloseShutdown, CloseRelease,
                AdapterDetach, AdapterDispose, AdapterRelease
  <2> QED
    BY <1>1, <2>1 DEF cvars, DisposeBegin
<1>5. CASE CoordinatorNext
  <2>1. ASSUME PumpStep PROVE FALSE
    BY <1>1, <2>1 DEF PumpStep, PumpStop, PumpMark, PumpEnqueue, PumpRelease, PumpTake, PumpDrain, PumpNext
  <2>2. ASSUME NEW w \in Waiters, PumpComplete(w) \/ DisposeComplete(w) \/ CancelNext(w) PROVE FALSE
    BY <1>1, <2>2 DEF PumpComplete, DisposeComplete, CancelNext, CancelToken, CancelRemove, CancelComplete
  <2>3. ASSUME DisposeStep PROVE FALSE
    BY <1>1, <2>3 DEF DisposeStep, DisposeDrain, DisposeJoin
  <2>4. PollNative
    BY <1>5, <2>1, <2>2, <2>3 DEF CoordinatorNext
  <2>5. PumpPoll(Head(events))
    BY <2>4 DEF PollNative
  <2>6. ev' = Head(events)
    BY <1>1, <2>5 DEF PumpPoll
  <2> QED
    BY <2>4, <2>6
<1> QED
  BY <1>1, <1>2, <1>3, <1>4, <1>5, Cases

\* A call gets the session by resuming from a wait that succeeded.
LEMMA GotByWaiting ==
  ASSUME TypeOK, CallsTyped, NEW w \in Connectors, CallNext(w), ConnectPhase(w), closing' = closing,
         result'[w] = Got(Session), result[w] # Got(Session)
  PROVE  task[w] = "ok"
<1>1. pc[w] = "wait" /\ w \in Waiters
  BY ConnectPhaseStep, RolesDiffer
<1>2. Resume(w) \/ ConnectTimeout(w)
  BY <1>1 DEF CallNext, CallStep, Start, Connect, ThrowFrom, ReceiveTry, AcceptTry, ReadTry, ReadChecksClosed,
              RegisterCall, Leave, Abandon
<1>3. ~ConnectTimeout(w)
  <2>1. ConnectTimeout(w) => \E f : Return(w, "leave", Failure(f))
    BY DEF ConnectTimeout
  <2> QED
    BY <1>1, <2>1, Went, ResultsDiffer
<1>4. Resume(w) /\ task[w] # "ok" => \E f, there : Return(w, there, Failure(f))
  BY DEF Resume, Fail
<1> QED
  BY <1>1, <1>2, <1>3, <1>4, Went, ResultsDiffer

LEMMA AnswerKnownStep ==
  IInv /\ EventsTyped /\ DataTyped /\ CallsTyped /\ Phases /\ AnswerKnown /\ [ClientNext]_vars =>
    AnswerKnown'
<1> SUFFICES ASSUME IInv, EventsTyped, DataTyped, CallsTyped, Phases, AnswerKnown, [ClientNext]_vars,
                    answered' # "accepted"
             PROVE  /\ ~InEvents(Answer)' /\ Unanswered'
                    /\ \A w \in Connectors : result'[w] # Got(Session)
  BY DEF AnswerKnown
<1>1. ~InEvents(Answer) /\ Unanswered /\ \A w \in Connectors : result[w] # Got(Session)
  BY AnswerStays DEF AnswerKnown
<1>2. ~InEvents(Answer)'
  BY <1>1, EventsNew
<1>3. ~PumpPoll(Answer)
  <2> SUFFICES ASSUME PumpPoll(Answer) PROVE FALSE
    OBVIOUS
  <2>1. PollNative /\ ev' = Head(events) /\ ev' = Answer
    BY PollIsNative, AnswerFacts DEF PumpPoll
  <2>2. events # <<>> /\ events' = Tail(events)
    BY <2>1 DEF PollNative
  <2> QED
    BY <1>1, <2>1, <2>2, PollFacts
<1>4. Unanswered'
  BY <1>1, <1>3, ClientStepIsCoordinatorStep, UnansweredStep DEF IInv
<1>5. ASSUME NEW w \in Connectors, result'[w] = Got(Session) PROVE FALSE
  <2>1. w \in Waiters /\ result[w] # Got(Session) /\ task[w] # "ok"
    BY <1>1, <1>5, RolesDiffer DEF Unanswered
  <2>2. ~UNCHANGED callVars
    BY <1>5, <2>1
  <2>3. PICK v \in Waiters : CallNext(v)
    BY <2>2, Cases, NativeFrame, CoordinatorFrame, ClosingFrame DEF vars, mvars
  <2>4. v = w
    BY <1>5, <2>1, <2>3, CallOthers DEF IInv
  <2>5. closing' = closing
    BY <2>3, CallFrame
  <2> QED
    BY <1>5, <2>1, <2>3, <2>4, <2>5, GotByWaiting DEF IInv, Phases
<1> QED
  BY <1>2, <1>4, <1>5

-----------------------------------------------------------------------------
(* A call that comes round to register again *)

Clear(w) == w \notin waiting[KeyOf[w]] /\ w \notin taken /\ w \notin disposeTaken

\* A waiter that succeeded, or is gone, is in nobody's list.
Settled(w) ==
  /\ task[w] = "none" => w \notin waiting[KeyOf[w]]
  /\ task[w] = "ok" => Clear(w)

BeforeWaiting == {"idle", "connect", "try", "closed?", "register"}

WaiterFree ==
  \A w \in Waiters : Settled(w) /\ (pc[w] \in BeforeWaiting => task[w] = "none" /\ Clear(w))

\* What the pump, DisposeAsync and cancellations do to a waiter.
LEMMA CoordinatorClears ==
  TypeOK /\ PumpShape /\ ListsAreDisjoint /\ CoordinatorNext =>
    \A w \in Waiters :
      /\ task[w] = "none" <=> task'[w] = "none"
      /\ w \in waiting'[KeyOf[w]] => w \in waiting[KeyOf[w]]
      /\ Clear(w) => Clear(w)'
      /\ task'[w] = "ok" /\ task[w] # "ok" => Clear(w)'
<1> SUFFICES ASSUME TypeOK, PumpShape, ListsAreDisjoint, CoordinatorNext, NEW w \in Waiters
             PROVE  /\ task[w] = "none" <=> task'[w] = "none"
                    /\ w \in waiting'[KeyOf[w]] => w \in waiting[KeyOf[w]]
                    /\ Clear(w) => Clear(w)'
                    /\ task'[w] = "ok" /\ task[w] # "ok" => Clear(w)'
  OBVIOUS
<1> USE DEF Clear
<1>k. KeyOf[w] \in Keys /\ DOMAIN waiting = Keys /\ DOMAIN task = Waiters
  BY WaiterAssumption DEF TypeOK
<1>l. \A k \in Keys : w \in waiting[k] => k = KeyOf[w]
  BY DEF ListsAreDisjoint
<1>1. CASE UNCHANGED <<waiting, task, taken, disposeTaken>>
  BY <1>1
<1>2. CASE PollNative
  BY <1>1, <1>2 DEF PollNative, PumpPoll
<1>3. CASE PumpStop \/ PumpMark \/ PumpEnqueue \/ PumpRelease \/ PumpNext \/ DisposeJoin
  <2>1. UNCHANGED <<waiting, task, taken, disposeTaken>>
    BY <1>3 DEF PumpStop, PumpMark, PumpEnqueue, PumpRelease, PumpNext, DisposeJoin
  <2> QED
    BY <1>1, <2>1
<1>4. CASE PumpTake
  <2>1. /\ UNCHANGED <<task, disposeTaken>> /\ taken' = waiting[Head(todo)]
        /\ waiting' = [waiting EXCEPT ![Head(todo)] = {}] /\ Head(todo) \in Keys
    BY <1>4, HeadTailProperties DEF PumpTake, TypeOK
  <2> QED
    BY <1>k, <1>l, <2>1
<1>5. CASE PumpDrain
  <2>1. /\ UNCHANGED <<task, disposeTaken>> /\ taken' = UNION {waiting[k] : k \in Keys}
        /\ waiting' = [k \in Keys |-> {}]
    BY <1>5 DEF PumpDrain
  <2> QED
    BY <1>k, <1>l, <2>1
<1>6. CASE DisposeDrain
  <2>1. /\ UNCHANGED <<task, taken>> /\ disposeTaken' = UNION {waiting[k] : k \in Keys}
        /\ waiting' = [k \in Keys |-> {}]
    BY <1>6 DEF DisposeDrain
  <2> QED
    BY <1>k, <1>l, <2>1
<1>7. ASSUME NEW v \in Waiters, PumpComplete(v)
      PROVE  /\ task[w] = "none" <=> task'[w] = "none"
             /\ w \in waiting'[KeyOf[w]] => w \in waiting[KeyOf[w]]
             /\ Clear(w) => Clear(w)'
             /\ task'[w] = "ok" /\ task[w] # "ok" => Clear(w)'
  <2>1. /\ UNCHANGED <<waiting, disposeTaken>> /\ taken' = taken \ {v} /\ v \in taken
        /\ task' = [task EXCEPT ![v] = IF @ = "pending" THEN Outcome(ev) ELSE @]
    BY <1>7 DEF PumpComplete
  <2>2. Outcome(ev) # "none"
    BY DEF Outcome
  <2>3. v \notin waiting[KeyOf[v]] /\ v \notin disposeTaken
    BY <2>1, WaiterAssumption DEF ListsAreDisjoint
  <2> QED
    BY <1>k, <2>1, <2>2, <2>3
<1>8. ASSUME NEW v \in Waiters, DisposeComplete(v) \/ CancelNext(v)
      PROVE  /\ task[w] = "none" <=> task'[w] = "none"
             /\ w \in waiting'[KeyOf[w]] => w \in waiting[KeyOf[w]]
             /\ Clear(w) => Clear(w)'
             /\ task'[w] = "ok" /\ task[w] # "ok" => Clear(w)'
  <2>1. /\ taken' = taken /\ disposeTaken' \subseteq disposeTaken
        /\ \/ task' = task
           \/ \E t \in {"disposed", "cancelled"} :
                task' = [task EXCEPT ![v] = IF @ = "pending" THEN t ELSE @]
        /\ \/ waiting' = waiting
           \/ waiting' = [waiting EXCEPT ![KeyOf[v]] = @ \ {v}]
    BY <1>8 DEF DisposeComplete, CancelNext, CancelToken, CancelRemove, CancelComplete
  <2>2. w \in waiting'[KeyOf[w]] => w \in waiting[KeyOf[w]]
    BY <1>k, <2>1, WaiterAssumption
  <2>3. (task[w] = "none" <=> task'[w] = "none") /\ (task'[w] = "ok" => task[w] = "ok")
    BY <1>k, <2>1
  <2> QED
    BY <2>1, <2>2, <2>3
<1> QED
  BY <1>2, <1>3, <1>4, <1>5, <1>6, <1>7, <1>8 DEF CoordinatorNext, PumpStep, DisposeStep

LEMMA WaiterFreeStep ==
  IInv /\ EventsTyped /\ DataTyped /\ CallsTyped /\ WaiterFree /\ [ClientNext]_vars => WaiterFree'
<1> SUFFICES ASSUME IInv, EventsTyped, DataTyped, CallsTyped, WaiterFree, [ClientNext]_vars,
                    NEW w \in Waiters
             PROVE  /\ Settled(w)'
                    /\ pc'[w] \in BeforeWaiting => task'[w] = "none" /\ Clear(w)'
  BY DEF WaiterFree
<1>i. TypeOK /\ PumpShape /\ ListsAreDisjoint
  BY DEF IInv
<1>w. Settled(w) /\ (pc[w] \in BeforeWaiting => task[w] = "none" /\ Clear(w))
  BY DEF WaiterFree
<1>k. /\ KeyOf[w] \in Keys /\ DOMAIN waiting = Keys /\ DOMAIN task = Waiters
      /\ \A v \in Waiters : KeyOf[v] \in Keys
  BY <1>i, WaiterAssumption DEF TypeOK
<1> DEFINE Kept == UNCHANGED <<waiting, task, taken, disposeTaken>>
<1>1. CASE Kept /\ (pc'[w] = pc[w] \/ pc'[w] \notin BeforeWaiting \/ pc[w] \in BeforeWaiting)
  BY <1>w, <1>1 DEF Settled, Clear
<1>2. CASE NativeNext \/ UNCHANGED vars
  <2>1. Kept /\ pc' = pc
    BY <1>2, NativeFrame DEF vars, mvars, cvars
  <2> QED
    BY <1>1, <2>1
<1>3. CASE Closing
  <2>1. UNCHANGED cvars \/ DisposeBegin
    BY <1>3 DEF Closing, EndStep, AdapterShutdown, CloseBegin, CloseShutdown, CloseRelease,
                AdapterDetach, AdapterDispose, AdapterRelease
  <2>2. Kept /\ pc' = pc
    BY <1>3, <2>1, ClosingFrame DEF cvars, DisposeBegin
  <2> QED
    BY <1>1, <2>2
<1>4. CASE CoordinatorNext
  <2>1. pc' = pc
    BY <1>4, CoordinatorFrame
  <2> QED
    BY <1>4, <1>i, <1>w, <2>1, CoordinatorClears DEF Settled
<1>5. ASSUME NEW v \in Waiters, CallNext(v)
      PROVE  /\ Settled(w)'
             /\ pc'[w] \in BeforeWaiting => task'[w] = "none" /\ Clear(w)'
  <2>o. v # w => pc'[w] = pc[w]
    BY <1>5, <1>i, CallOthers
  <2>1. CASE RegisterCall(v)
    <3>1. /\ UNCHANGED <<taken, disposeTaken>>
          /\ \E there : Goto(v, there) /\ there \notin BeforeWaiting
      BY <2>1 DEF RegisterCall, Register, Fail, Return, BeforeWaiting, cvars
    <3>2. pc'[v] \notin BeforeWaiting
      BY <3>1, Went
    <3>3. CASE UNCHANGED cvars
      <4>1. Kept
        BY <3>3 DEF cvars
      <4> QED
        BY <1>1, <2>o, <3>2, <4>1
    <3>4. CASE Register(v)
      <4>1. /\ task[v] = "none" /\ v \notin taken /\ v \notin disposeTaken
            /\ \/ waiting' = waiting
               \/ /\ waiting' = [waiting EXCEPT ![KeyOf[v]] = @ \cup {v}]
                  /\ task' = [task EXCEPT ![v] = IF token[v] THEN "cancelled" ELSE "pending"]
            /\ \E t \in {"ok", "cancelled", "pending"} : task' = [task EXCEPT ![v] = t]
        BY <3>4 DEF Register
      <4>2. CASE v = w
        BY <1>k, <1>w, <3>1, <3>2, <4>1, <4>2 DEF Settled, Clear
      <4>3. CASE v # w
        <5>1. task'[w] = task[w] /\ (w \in waiting'[KeyOf[w]] => w \in waiting[KeyOf[w]])
          BY <1>k, <4>1, <4>3
        <5> QED
          BY <1>w, <2>o, <3>1, <4>3, <5>1 DEF Settled, Clear
      <4> QED
        BY <4>2, <4>3
    <3> QED
      BY <2>1, <3>3, <3>4 DEF RegisterCall
  <2>2. CASE Resume(v) \/ Leave(v)
    <3>1. /\ waiting' = [waiting EXCEPT ![KeyOf[v]] = @ \ {v}]
          /\ task' = [task EXCEPT ![v] = "none"]
          /\ UNCHANGED <<taken, disposeTaken>>
      BY <2>2 DEF Resume, Leave, DisposeWaiter
    <3>2. \/ \E there : Goto(v, there) /\ there \notin BeforeWaiting
          \/ task[v] = "ok"
      BY <2>2 DEF Resume, Leave, Fail, Return, BeforeWaiting
    <3>3. CASE v = w
      BY <1>k, <1>w, <3>1, <3>2, <3>3, Went DEF Settled, Clear
    <3>4. CASE v # w
      BY <1>k, <1>w, <2>o, <3>1, <3>4 DEF Settled, Clear
    <3> QED
      BY <3>3, <3>4
  <2>3. CASE ~RegisterCall(v) /\ ~Resume(v) /\ ~Leave(v)
    <3>1. Kept
      BY <1>5, <2>3 DEF CallNext, CallStep, Start, Connect, ThrowFrom, ReceiveTry, AcceptTry, TryDequeue,
                        ReadTry, ReadChecksClosed, ConnectTimeout, Abandon, cvars
    <3>2. pc[v] \in BeforeWaiting \/ \E there : Goto(v, there) /\ there \notin BeforeWaiting
      <4> USE DEF BeforeWaiting
      <4>1. CASE Start(v) \/ Connect(v) \/ ConnectTimeout(v) \/ Abandon(v)
        BY <4>1 DEF Start, Connect, ConnectTimeout, Abandon, Return
      <4>2. CASE ThrowFrom(v)
        BY <4>2 DEF ThrowFrom, Return
      <4>3. CASE ReceiveTry(v) \/ AcceptTry(v)
        BY <4>3 DEF ReceiveTry, AcceptTry, Return
      <4>4. CASE ReadTry(v) \/ ReadChecksClosed(v)
        BY <4>4 DEF ReadTry, ReadChecksClosed, Return
      <4> QED
        BY <1>5, <2>3, <4>1, <4>2, <4>3, <4>4 DEF CallNext, CallStep
    <3>3. v = w => pc[w] \in BeforeWaiting \/ pc'[w] \notin BeforeWaiting
      BY <3>2, Went
    <3> QED
      BY <1>1, <2>o, <3>1, <3>3
  <2> QED
    BY <2>1, <2>2, <2>3
<1> QED
  BY <1>2, <1>3, <1>4, <1>5, Cases

LEMMA EventsFit ==
  EventsTyped /\ Len(events) <= EventLimit /\ [ClientNext]_vars => Len(events') <= EventLimit
<1> SUFFICES ASSUME EventsTyped, Len(events) <= EventLimit, [ClientNext]_vars
             PROVE  Len(events') <= EventLimit
  OBVIOUS
<1>l. Len(events) \in Nat /\ EventLimit \in Nat
  BY LenProperties, ClientAssumption DEF EventsTyped
<1>1. CASE UNCHANGED events
  BY <1>1
<1>2. ASSUME NEW e \in NativeEvents, Push(e) PROVE Len(events') <= EventLimit
  <2>1. events' = events \/ (Len(events) < EventLimit /\ events' = Append(events, e))
    BY <1>2 DEF Push, CanPush
  <2>2. events' = Append(events, e) => Len(events') = Len(events) + 1
    BY AppendProperties DEF EventsTyped
  <2> QED
    BY <1>l, <2>1, <2>2
<1>3. CASE PollNative
  <2>1. events # <<>> /\ events' = Tail(events)
    BY <1>3 DEF PollNative
  <2>2. Len(events') = Len(events) - 1
    BY <2>1, HeadTailProperties DEF EventsTyped
  <2> QED
    BY <1>l, <2>2
<1>4. CASE AdapterRelease
  BY <1>4, <1>l, EmptySeq DEF AdapterRelease
<1> QED
  BY <1>1, <1>2, <1>3, <1>4, EventsStep

-----------------------------------------------------------------------------
(* Racing calls share out what arrives *)

Takers == Receivers \cup Acceptors

\* The datagrams come in the order of sending, and nobody has one that is still queued.
DatagramsInOrder ==
  /\ \A i \in 1 .. Len(datagrams) : datagrams[i] <= sent
  /\ \A i, j \in 1 .. Len(datagrams) : i < j => datagrams[i] < datagrams[j]
  /\ \A w \in Receivers : \A x : result[w] = Got(x) =>
       x \in Nat /\ x <= sent /\ \A i \in 1 .. Len(datagrams) : x < datagrams[i]

SharedOut ==
  /\ \A w \in Waiters : pc[w] \in {"closed?", "closed??"} => w \in Readers
  /\ \A w \in Acceptors : \A x : result[w] = Got(x) => x \in accepted
  /\ \A v, w \in Takers : \A x :
       v # w /\ KeyOf[v] = KeyOf[w] /\ result[v] = Got(x) => result[w] # Got(x)

\* How a receive or an accept comes by what it returns.
TakesDatagram(w) ==
  /\ w \in Receivers
  /\ datagrams # <<>> /\ datagrams' = Tail(datagrams)
  /\ result' = [result EXCEPT ![w] = Got(Head(datagrams))]
  /\ UNCHANGED <<sent, accepted>>
TakesStream(w) ==
  /\ w \in Acceptors
  /\ TryDequeue(KeyOf[w])
  /\ result' = [result EXCEPT ![w] = Got(Head(incoming[KeyOf[w]]))]
  /\ UNCHANGED <<sent, datagrams>>

NothingTaken == \A w \in Takers : \A x : result'[w] = Got(x) => result[w] = Got(x)

LEMMA TakerFails ==
  ASSUME CallsTyped, SharedOut, NEW w \in Takers, CallNext(w)
  PROVE  \/ TakesDatagram(w) \/ TakesStream(w)
         \/ /\ result' = result \/ \E f : result' = [result EXCEPT ![w] = Failure(f)]
            /\ UNCHANGED <<sent, accepted>> /\ (datagrams' = datagrams \/ datagrams' = <<>>)
<1> DEFINE Quiet == /\ result' = result \/ \E f : result' = [result EXCEPT ![w] = Failure(f)]
                    /\ UNCHANGED <<sent, accepted>> /\ (datagrams' = datagrams \/ datagrams' = <<>>)
<1>w. w \in Waiters /\ w \notin Connectors /\ w \notin Readers
  BY RolesDiffer DEF Takers
<1>1. CASE Start(w) \/ Leave(w) \/ Abandon(w) \/ Connect(w)
  BY <1>1 DEF Start, Leave, Abandon, Connect, DisposeWaiter, Stay, cvars, Return
<1>2. CASE ThrowFrom(w) \/ ConnectTimeout(w)
  BY <1>2 DEF ThrowFrom, ConnectTimeout, Stay, cvars, Return
<1>3. CASE ReceiveTry(w)
  BY <1>3 DEF ReceiveTry, TakesDatagram, Stay, cvars, Return
<1>4. CASE AcceptTry(w)
  BY <1>4 DEF AcceptTry, TakesStream, Stay, cvars, Return, TryDequeue
<1>5. ~ReadTry(w) /\ ~ReadChecksClosed(w)
  BY <1>w DEF ReadTry, ReadChecksClosed, SharedOut
<1>6. CASE RegisterCall(w)
  BY <1>6 DEF RegisterCall, Register, Fail, Return, Stay, cvars
<1>7. CASE Resume(w)
  BY <1>7, <1>w DEF Resume, DisposeWaiter, Fail, Return, Stay
<1> QED
  BY <1>1, <1>2, <1>3, <1>4, <1>5, <1>6, <1>7 DEF CallNext, CallStep

DatagramsStep ==
  \/ UNCHANGED <<datagrams, sent>>
  \/ datagrams' = <<>> /\ sent' = sent
  \/ sent' = sent + 1 /\ (datagrams' = datagrams \/ datagrams' = Append(datagrams, sent + 1))

LEMMA TakersStep ==
  TypeOK /\ DataTyped /\ CallsTyped /\ SharedOut /\ [ClientNext]_vars =>
    \/ \E w \in Receivers : TakesDatagram(w)
    \/ \E w \in Acceptors : TakesStream(w)
    \/ NothingTaken /\ accepted \subseteq accepted' /\ DatagramsStep
<1> SUFFICES ASSUME TypeOK, DataTyped, CallsTyped, SharedOut, [ClientNext]_vars
             PROVE  \/ \E w \in Receivers : TakesDatagram(w)
                    \/ \E w \in Acceptors : TakesStream(w)
                    \/ NothingTaken /\ accepted \subseteq accepted' /\ DatagramsStep
  OBVIOUS
<1>1. CASE NativeNext
  <2>1. DatagramsStep
    BY <1>1 DEF NativeNext, HandshakeCompletes, PeerAnswers, PeerSendsDatagram, PeerSendsData, StreamEnds,
                PeerOpensStream, ConnectionEnds, ConnectionOver, DatagramsStep
  <2>2. UNCHANGED <<result, accepted>>
    BY <1>1, NativeFrame DEF cvars
  <2> QED
    BY <2>1, <2>2 DEF NothingTaken
<1>2. CASE CoordinatorNext
  <2>1. accepted' = accepted
    <3>1. CASE PollNative
      BY <3>1 DEF PollNative, PumpPoll
    <3>2. CASE PumpStep
      BY <3>2 DEF PumpStep, PumpStop, PumpMark, PumpEnqueue, PumpRelease, PumpTake, PumpDrain, PumpNext
    <3>3. CASE DisposeStep
      BY <3>3 DEF DisposeStep, DisposeDrain, DisposeJoin
    <3>4. ASSUME NEW w \in Waiters, PumpComplete(w) \/ DisposeComplete(w) \/ CancelNext(w)
          PROVE  accepted' = accepted
      BY <3>4 DEF PumpComplete, DisposeComplete, CancelNext, CancelToken, CancelRemove, CancelComplete
    <3> QED
      BY <1>2, <3>1, <3>2, <3>3, <3>4 DEF CoordinatorNext
  <2>2. UNCHANGED <<result, datagrams, sent>>
    BY <1>2, CoordinatorFrame
  <2> QED
    BY <2>1, <2>2 DEF NothingTaken, DatagramsStep
<1>3. CASE Closing
  <2>1. UNCHANGED <<result, sent>>
    BY <1>3, ClosingFrame
  <2>2. accepted' = accepted /\ (datagrams' = datagrams \/ datagrams' = <<>>)
    BY <1>3 DEF Closing, EndStep, AdapterShutdown, CloseBegin, CloseShutdown, CloseRelease, AdapterDetach,
                AdapterDispose, AdapterRelease, DisposeBegin, cvars
  <2> QED
    BY <2>1, <2>2 DEF NothingTaken, DatagramsStep
<1>4. ASSUME NEW w \in Takers, CallNext(w)
      PROVE  \/ \E v \in Receivers : TakesDatagram(v)
             \/ \E v \in Acceptors : TakesStream(v)
             \/ NothingTaken /\ accepted \subseteq accepted' /\ DatagramsStep
  <2>1. CASE TakesDatagram(w) \/ TakesStream(w)
    BY <2>1 DEF TakesDatagram, TakesStream
  <2>2. CASE /\ result' = result \/ \E f : result' = [result EXCEPT ![w] = Failure(f)]
             /\ UNCHANGED <<sent, accepted>> /\ (datagrams' = datagrams \/ datagrams' = <<>>)
    <3>1. NothingTaken
      <4> SUFFICES ASSUME NEW v \in Takers, NEW x, result'[v] = Got(x) PROVE result[v] = Got(x)
        BY DEF NothingTaken
      <4>1. v \in Waiters /\ DOMAIN result = Waiters
        BY RolesDiffer DEF Takers, CallsTyped
      <4>2. \A f : Failure(f) # Got(x)
        BY ResultsDiffer
      <4> QED
        BY <2>2, <4>1, <4>2
    <3> QED
      BY <2>2, <3>1 DEF DatagramsStep
  <2> QED
    BY <1>4, <2>1, <2>2, TakerFails
<1>5. ASSUME NEW w \in Waiters \ Takers, CallNext(w)
      PROVE  NothingTaken /\ accepted \subseteq accepted' /\ DatagramsStep
  <2>1. NothingTaken
    BY <1>5, CallOthers, RolesDiffer DEF NothingTaken, Takers
  <2>2. sent' = sent
    BY <1>5, CallFrame
  <2>3. ~ReceiveTry(w) /\ ~AcceptTry(w)
    BY <1>5 DEF Takers, ReceiveTry, AcceptTry
  <2>4. accepted' = accepted /\ (datagrams' = datagrams \/ datagrams' = <<>>)
    BY <1>5, <2>3 DEF CallNext, CallStep, Start, Connect, ThrowFrom, ReadTry, ReadChecksClosed, RegisterCall,
              Register, Resume, ConnectTimeout, Leave, Abandon, DisposeWaiter, cvars
  <2> QED
    BY <2>1, <2>2, <2>4 DEF DatagramsStep
<1>6. CASE UNCHANGED vars
  BY <1>6 DEF vars, mvars, cvars, NothingTaken, DatagramsStep
<1> QED
  BY <1>1, <1>2, <1>3, <1>4, <1>5, <1>6, Cases

LEMMA DatagramsInOrderStep ==
  TypeOK /\ DataTyped /\ CallsTyped /\ SharedOut /\ DatagramsInOrder /\ [ClientNext]_vars =>
    DatagramsInOrder'
<1> SUFFICES ASSUME TypeOK, DataTyped, CallsTyped, SharedOut, DatagramsInOrder, [ClientNext]_vars
             PROVE  DatagramsInOrder'
  OBVIOUS
<1>t. /\ datagrams \in Seq(1 .. MaxDatagrams) /\ sent \in Nat /\ Len(datagrams) \in Nat
      /\ \A i \in 1 .. Len(datagrams) : datagrams[i] \in Nat
  <2>1. \A i \in 1 .. Len(datagrams) : datagrams[i] \in 1 .. MaxDatagrams
    BY ElementOfSeq DEF DataTyped
  <2> QED
    BY <2>1, LenProperties, ClientAssumption DEF DataTyped
<1>1. ASSUME NEW w \in Receivers, TakesDatagram(w) PROVE DatagramsInOrder'
  <2>1. /\ Head(datagrams) = datagrams[1] /\ Len(datagrams') = Len(datagrams) - 1 /\ sent' = sent
        /\ \A i \in 1 .. Len(datagrams') : datagrams'[i] = datagrams[i + 1] /\ i + 1 \in 1 .. Len(datagrams)
        /\ 1 \in 1 .. Len(datagrams)
    BY <1>1, <1>t, HeadTailProperties, EmptySeq DEF TakesDatagram
  <2>2. \A i \in 1 .. Len(datagrams') : datagrams'[i] <= sent'
    BY <2>1 DEF DatagramsInOrder
  <2>3. \A i, j \in 1 .. Len(datagrams') : i < j => datagrams'[i] < datagrams'[j]
    <3> SUFFICES ASSUME NEW i \in 1 .. Len(datagrams'), NEW j \in 1 .. Len(datagrams'), i < j
                 PROVE  datagrams'[i] < datagrams'[j]
      OBVIOUS
    <3>1. i + 1 \in 1 .. Len(datagrams) /\ j + 1 \in 1 .. Len(datagrams) /\ i + 1 < j + 1
      BY <1>t, <2>1
    <3>2. datagrams[i + 1] < datagrams[j + 1]
      BY <3>1 DEF DatagramsInOrder
    <3> QED
      BY <2>1, <3>2
  <2>4. ASSUME NEW v \in Receivers, NEW x, result'[v] = Got(x)
        PROVE  x \in Nat /\ x <= sent' /\ \A i \in 1 .. Len(datagrams') : x < datagrams'[i]
    <3>d. v \in Waiters /\ w \in Waiters /\ DOMAIN result = Waiters
      BY RolesDiffer DEF CallsTyped
    <3>1. CASE v = w
      <4>1. Got(x) = Got(datagrams[1])
        BY <1>1, <2>1, <2>4, <3>d, <3>1 DEF TakesDatagram
      <4>2. x = datagrams[1]
        BY <4>1, ResultsDiffer
      <4> QED
        BY <1>t, <2>1, <4>2 DEF DatagramsInOrder
    <3>2. CASE v # w
      <4>1. result[v] = Got(x)
        BY <1>1, <2>4, <3>d, <3>2 DEF TakesDatagram
      <4> QED
        BY <2>1, <4>1 DEF DatagramsInOrder
    <3> QED
      BY <3>1, <3>2
  <2> QED
    BY <2>2, <2>3, <2>4 DEF DatagramsInOrder
<1>2. ASSUME NEW w \in Acceptors, TakesStream(w) PROVE DatagramsInOrder'
  <2>1. UNCHANGED <<datagrams, sent>> /\ \A v \in Receivers : result'[v] = result[v]
    BY <1>2, RolesDiffer DEF TakesStream, CallsTyped
  <2> QED
    BY <2>1 DEF DatagramsInOrder
<1>3. CASE NothingTaken /\ DatagramsStep
  <2>r. \A w \in Receivers : \A x : result'[w] = Got(x) => result[w] = Got(x)
    BY <1>3 DEF NothingTaken, Takers
  <2>1. CASE UNCHANGED <<datagrams, sent>>
    BY <2>r, <2>1 DEF DatagramsInOrder
  <2>2. CASE datagrams' = <<>> /\ sent' = sent
    <3>1. Len(datagrams') = 0
      BY <2>2, EmptySeq
    <3> QED
      BY <2>r, <2>2, <3>1 DEF DatagramsInOrder
  <2>3. CASE sent' = sent + 1 /\ datagrams' = datagrams
    BY <1>t, <2>r, <2>3 DEF DatagramsInOrder
  <2>4. CASE sent' = sent + 1 /\ datagrams' = Append(datagrams, sent + 1)
    <3>1. sent + 1 \in 1 .. MaxDatagrams
      BY <1>t, <2>4, DataTypedStep DEF DataTyped
    <3>2. /\ Len(datagrams') = Len(datagrams) + 1 /\ datagrams'[Len(datagrams) + 1] = sent + 1
          /\ \A i \in 1 .. Len(datagrams) : datagrams'[i] = datagrams[i]
      BY <1>t, <2>4, <3>1, AppendProperties
    <3>3. \A i \in 1 .. Len(datagrams') : i \in 1 .. Len(datagrams) \/ i = Len(datagrams) + 1
      BY <1>t, <3>2
    <3>4. \A i \in 1 .. Len(datagrams') : datagrams'[i] <= sent'
      BY <1>t, <2>4, <3>2, <3>3 DEF DatagramsInOrder
    <3>5. \A i, j \in 1 .. Len(datagrams') : i < j => datagrams'[i] < datagrams'[j]
      <4> SUFFICES ASSUME NEW i \in 1 .. Len(datagrams'), NEW j \in 1 .. Len(datagrams'), i < j
                   PROVE  datagrams'[i] < datagrams'[j]
        OBVIOUS
      <4>1. i \in 1 .. Len(datagrams)
        BY <1>t, <3>2
      <4> QED
        BY <1>t, <3>2, <3>3, <4>1 DEF DatagramsInOrder
    <3>6. ASSUME NEW v \in Receivers, NEW x, result'[v] = Got(x)
          PROVE  x \in Nat /\ x <= sent' /\ \A i \in 1 .. Len(datagrams') : x < datagrams'[i]
      <4>1. result[v] = Got(x)
        BY <2>r, <3>6
      <4>2. x \in Nat /\ x <= sent /\ \A i \in 1 .. Len(datagrams) : x < datagrams[i]
        BY <4>1 DEF DatagramsInOrder
      <4> QED
        BY <1>t, <2>4, <3>2, <3>3, <4>2
    <3> QED
      BY <3>4, <3>5, <3>6 DEF DatagramsInOrder
  <2> QED
    BY <1>3, <2>1, <2>2, <2>3, <2>4 DEF DatagramsStep
<1> QED
  BY <1>1, <1>2, <1>3, TakersStep

\* The stream at the head of a queue has not been accepted yet.
LEMMA HeadIsNew ==
  TypeOK /\ Owned =>
    \A k \in IncomingKeys : incoming[k] # <<>> => Head(incoming[k]) \notin accepted
<1> SUFFICES ASSUME TypeOK, Owned, NEW k \in IncomingKeys, incoming[k] # <<>>
             PROVE  Head(incoming[k]) \notin accepted
  OBVIOUS
<1>1. incoming[k] \in Seq(Streams) /\ DOMAIN incoming = IncomingKeys
  BY DEF TypeOK
<1>2. Head(incoming[k]) = incoming[k][1] /\ 1 \in 1 .. Len(incoming[k])
  BY <1>1, HeadTailProperties, EmptySeq
<1>3. Head(incoming[k]) \in Members(incoming)
  BY <1>1, <1>2, InMembers
<1> QED
  BY <1>3 DEF Owned

\* Only readers ask whether their stream is closed.
LEMMA ClosedPlaces ==
  TypeOK /\ DataTyped /\ CallsTyped /\ SharedOut /\ [ClientNext]_vars =>
    \A w \in Waiters : pc'[w] \in {"closed?", "closed??"} => w \in Readers
<1> SUFFICES ASSUME TypeOK, DataTyped, CallsTyped, SharedOut, [ClientNext]_vars, NEW w \in Waiters,
                    pc'[w] \in {"closed?", "closed??"}, w \notin Readers
             PROVE  FALSE
  OBVIOUS
<1>1. pc'[w] # pc[w]
  BY DEF SharedOut
<1>2. ~UNCHANGED callVars
  BY <1>1
<1>3. \E v \in Waiters : CallNext(v)
  BY <1>2, Cases, NativeFrame, CoordinatorFrame, ClosingFrame DEF vars, mvars
<1>4. CallNext(w)
  BY <1>1, <1>3, CallOthers
<1>5. \E there \in Places \ {"closed?", "closed??"} : Goto(w, there)
  <2> USE DEF Places
  <2>1. CASE Start(w) \/ Connect(w) \/ ThrowFrom(w) \/ ConnectTimeout(w) \/ Leave(w) \/ Abandon(w)
    BY <2>1 DEF Start, Connect, ThrowFrom, ConnectTimeout, Leave, Abandon, Return
  <2>2. CASE ReceiveTry(w) \/ AcceptTry(w)
    BY <2>2 DEF ReceiveTry, AcceptTry, Return
  <2>3. CASE ReadTry(w) \/ ReadChecksClosed(w)
    BY <2>3 DEF ReadTry, ReadChecksClosed, Return
  <2>4. CASE RegisterCall(w) \/ Resume(w)
    BY <2>4 DEF RegisterCall, Resume, Fail, Return
  <2> QED
    BY <1>4, <2>1, <2>2, <2>3, <2>4 DEF CallNext, CallStep
<1> QED
  BY <1>5, Went

LEMMA SharedOutStep ==
  TypeOK /\ Owned /\ DataTyped /\ CallsTyped /\ DatagramsInOrder /\ SharedOut /\ [ClientNext]_vars =>
    SharedOut'
<1> SUFFICES ASSUME TypeOK, Owned, DataTyped, CallsTyped, DatagramsInOrder, SharedOut, [ClientNext]_vars
             PROVE  SharedOut'
  OBVIOUS
<1>d. Takers \subseteq Waiters /\ DOMAIN result = Waiters
  BY RolesDiffer DEF Takers, CallsTyped
<1>p. \A w \in Waiters : pc'[w] \in {"closed?", "closed??"} => w \in Readers
  BY ClosedPlaces
<1>1. ASSUME NEW w \in Takers, NEW new, result' = [result EXCEPT ![w] = Got(new)],
             accepted \subseteq accepted', w \in Acceptors => new \in accepted',
             \A v \in Takers : KeyOf[v] = KeyOf[w] => result[v] # Got(new)
      PROVE  SharedOut'
  <2>1. ASSUME NEW v \in Acceptors, NEW x, result'[v] = Got(x) PROVE x \in accepted'
    <3>1. v \in Takers
      BY DEF Takers
    <3>2. CASE v = w
      BY <1>1, <1>d, <2>1, <3>2, ResultsDiffer
    <3>3. CASE v # w
      BY <1>1, <1>d, <2>1, <3>1, <3>3 DEF SharedOut
    <3> QED
      BY <3>2, <3>3
  <2>2. ASSUME NEW v \in Takers, NEW u \in Takers, NEW x, v # u, KeyOf[v] = KeyOf[u],
               result'[v] = Got(x), result'[u] = Got(x)
        PROVE  FALSE
    <3>1. v # w /\ u # w => result[v] = Got(x) /\ result[u] = Got(x)
      BY <1>1, <1>d, <2>2
    <3>2. v = w => x = new /\ result[u] = Got(x)
      BY <1>1, <1>d, <2>2, ResultsDiffer
    <3>3. u = w => x = new /\ result[v] = Got(x)
      BY <1>1, <1>d, <2>2, ResultsDiffer
    <3> QED
      BY <1>1, <2>2, <3>1, <3>2, <3>3 DEF SharedOut
  <2> QED
    BY <1>p, <2>1, <2>2 DEF SharedOut
<1>2. ASSUME NEW w \in Receivers, TakesDatagram(w) PROVE SharedOut'
  <2>1. w \in Takers /\ w \notin Acceptors /\ accepted' = accepted
    BY <1>2, RolesDiffer DEF TakesDatagram, Takers
  <2>2. datagrams \in Seq(1 .. MaxDatagrams) /\ datagrams # <<>>
    BY <1>2 DEF TakesDatagram, DataTyped
  <2>3. Head(datagrams) = datagrams[1] /\ 1 \in 1 .. Len(datagrams)
    BY <2>2, HeadTailProperties, EmptySeq
  <2>4. ASSUME NEW v \in Takers, KeyOf[v] = KeyOf[w], result[v] = Got(Head(datagrams)) PROVE FALSE
    <3>1. v \in Receivers
      BY <1>2, <1>d, <2>4 DEF Takers, Receivers
    <3>2. Head(datagrams) \in Nat /\ Head(datagrams) < Head(datagrams)
      BY <2>3, <2>4, <3>1 DEF DatagramsInOrder
    <3> QED
      BY <3>2
  <2>5. result' = [result EXCEPT ![w] = Got(Head(datagrams))]
    BY <1>2 DEF TakesDatagram
  <2> QED
    BY <1>1, <2>1, <2>4, <2>5
<1>3. ASSUME NEW w \in Acceptors, TakesStream(w) PROVE SharedOut'
  <2> DEFINE k == KeyOf[w]
             new == Head(incoming[k])
  <2>1. /\ w \in Takers /\ k \in IncomingKeys /\ incoming[k] # <<>>
        /\ accepted' = accepted \cup {new}
        /\ result' = [result EXCEPT ![w] = Got(new)]
    BY <1>3 DEF TakesStream, TryDequeue, Takers, Acceptors
  <2>2. new \notin accepted
    BY <2>1, HeadIsNew
  <2>3. ASSUME NEW v \in Takers, KeyOf[v] = k, result[v] = Got(new) PROVE FALSE
    <3>1. v \in Acceptors
      BY <1>d, <2>1, <2>3 DEF Acceptors
    <3> QED
      BY <2>2, <2>3, <3>1 DEF SharedOut
  <2> HIDE DEF k, new
  <2>4. accepted \subseteq accepted' /\ new \in accepted'
    BY <2>1
  <2> QED
    BY <1>1, <2>1, <2>3, <2>4 DEF k
<1>4. CASE NothingTaken /\ accepted \subseteq accepted'
  <2>1. \A w \in Acceptors : \A x : result'[w] = Got(x) => x \in accepted'
    BY <1>4 DEF NothingTaken, Takers, SharedOut
  <2>2. \A v, w \in Takers : \A x :
          v # w /\ KeyOf[v] = KeyOf[w] /\ result'[v] = Got(x) => result'[w] # Got(x)
    BY <1>4 DEF NothingTaken, SharedOut
  <2> QED
    BY <1>p, <2>1, <2>2 DEF SharedOut
<1> QED
  BY <1>2, <1>3, <1>4, TakersStep

-----------------------------------------------------------------------------
(* A disposed session is announced *)

SessionEnd == SessionEvent("SESSION_CLOSED")
EndKnown ==
  Session \in closedSessions \/ (pumpPc = "mark" /\ ev = SessionEnd) \/ InEvents(SessionEnd)

CloseAnnounced ==
  /\ sessionDisposed => ~sinks
  /\ closePc \in {"closing", "disposing", "release"} \/ sessionDisposed => closing \/ EndKnown

LEMMA SessionEndRemembered ==
  TypeOK /\ [Next]_cvars =>
    /\ closedSessions \subseteq closedSessions'
    /\ pumpPc = "mark" /\ ev = SessionEnd =>
         Session \in closedSessions' \/ (pumpPc' = "mark" /\ ev' = SessionEnd)
<1> SUFFICES ASSUME TypeOK, [Next]_cvars
             PROVE  /\ closedSessions \subseteq closedSessions'
                    /\ pumpPc = "mark" /\ ev = SessionEnd =>
                         Session \in closedSessions' \/ (pumpPc' = "mark" /\ ev' = SessionEnd)
  OBVIOUS
<1>t. SessionEnd.type = "SESSION_CLOSED" /\ SessionEnd.session = Session
  BY DEF SessionEnd, SessionEvent
<1>1. CASE UNCHANGED <<pumpPc, ev, closedSessions>>
  BY <1>1
<1>3. CASE PumpMark
  <2>1. /\ closedSessions \subseteq closedSessions'
        /\ ev.type = "SESSION_CLOSED" => ev.session \in closedSessions'
    BY <1>3 DEF PumpMark
  <2> QED
    BY <1>t, <2>1
<1>4. CASE PumpEnqueue
  <2>1. UNCHANGED closedSessions /\ ev.type # "SESSION_CLOSED"
    BY <1>4 DEF PumpEnqueue
  <2> QED
    BY <1>t, <2>1
<1>5. CASE PumpStop \/ PumpRelease \/ PumpTake \/ PumpDrain \/ PumpNext
  <2>1. pumpPc # "mark" /\ UNCHANGED closedSessions
    BY <1>5 DEF PumpStop, PumpRelease, PumpTake, PumpDrain, PumpNext
  <2> QED
    BY <2>1
<1>6. ASSUME NEW e \in Polled, PumpPoll(e) PROVE pumpPc # "mark" /\ UNCHANGED closedSessions
  BY <1>6 DEF PumpPoll
<1>7. CASE DisposeBegin \/ DisposeStep
  <2>1. UNCHANGED <<pumpPc, ev, closedSessions>>
    BY <1>7 DEF DisposeBegin, DisposeStep, DisposeDrain, DisposeJoin
  <2> QED
    BY <1>1, <2>1
<1>8. ASSUME NEW w \in Waiters, CallerNext(w) \/ CancelNext(w) \/ PumpComplete(w) \/ DisposeComplete(w)
      PROVE  UNCHANGED <<pumpPc, ev, closedSessions>>
  BY <1>8 DEF CallerNext, CancelNext, Register, DisposeWaiter, CancelToken, CancelRemove,
              CancelComplete, PumpComplete, DisposeComplete
<1>9. ASSUME NEW j \in IncomingKeys, TryDequeue(j) PROVE UNCHANGED <<pumpPc, ev, closedSessions>>
  BY <1>9 DEF TryDequeue
<1>10. CASE UNCHANGED cvars
  BY <1>1, <1>10 DEF cvars
<1> QED
  BY <1>1, <1>3, <1>4, <1>5, <1>6, <1>7, <1>8, <1>9, <1>10 DEF Next, PumpStep

LEMMA EndKnownStep ==
  TypeOK /\ EventsTyped /\ EndPhase /\ EndKnown /\ [ClientNext]_vars => EndKnown' \/ closing'
<1> SUFFICES ASSUME TypeOK, EventsTyped, EndPhase, EndKnown, [ClientNext]_vars, ~closing' PROVE EndKnown'
  OBVIOUS
<1>1. CASE InEvents(SessionEnd)
  <2>1. InEvents(SessionEnd)' \/ (PollNative /\ Head(events) = SessionEnd)
    BY <1>1, EventsKept
  <2>2. ASSUME PollNative, Head(events) = SessionEnd PROVE EndKnown'
    <3>1. PumpPoll(SessionEnd)
      BY <2>2 DEF PollNative
    <3>2. FirstStep(SessionEnd) = "mark"
      BY DEF FirstStep, SessionEnd, SessionEvent
    <3> QED
      BY <3>1, <3>2 DEF PumpPoll, EndKnown
  <2> QED
    BY <2>1, <2>2 DEF EndKnown
<1>2. CASE Session \in closedSessions \/ (pumpPc = "mark" /\ ev = SessionEnd)
  BY <1>2, ClientStepIsCoordinatorStep, SessionEndRemembered DEF EndKnown
<1> QED
  BY <1>1, <1>2 DEF EndKnown

LEMMA CloseAnnouncedStep ==
  TypeOK /\ EventsTyped /\ EndPhase /\ CloseAnnounced /\ [ClientNext]_vars => CloseAnnounced'
<1> SUFFICES ASSUME TypeOK, EventsTyped, EndPhase, CloseAnnounced, [ClientNext]_vars
             PROVE  CloseAnnounced'
  OBVIOUS
<1> DEFINE Told == closePc \in {"closing", "disposing", "release"} \/ sessionDisposed
<1>k. closing \/ EndKnown => closing' \/ EndKnown'
  BY EndKnownStep, OverflowStays
<1>1. CASE (Told' => Told) /\ (sinks' => sinks) /\ (sessionDisposed' => sessionDisposed \/ ~sinks)
  BY <1>k, <1>1 DEF CloseAnnounced
<1>2. CASE NativeNext \/ CoordinatorNext \/ (\E w \in Waiters : CallNext(w)) \/ UNCHANGED vars
  <2>1. UNCHANGED <<closePc, sinks, sessionDisposed>>
    BY <1>2, NativeFrame, CoordinatorFrame, CallFrame DEF vars, mvars
  <2> QED
    BY <1>1, <2>1
<1>3. CASE CloseShutdown
  <2>1. Told /\ ~sinks'
    BY <1>3 DEF CloseShutdown
  <2> QED
    BY <1>k, <2>1 DEF CloseAnnounced
<1>4. CASE CloseRelease
  <2>1. sinks' = sinks /\ closePc' = "done" /\ (sessionDisposed' => closePc = "release")
    BY <1>4 DEF CloseRelease
  <2> QED
    BY <1>k, <2>1 DEF CloseAnnounced, EndPhase
<1>5. CASE AdapterShutdown \/ AdapterDetach \/ AdapterDispose \/ AdapterRelease
  <2>1. UNCHANGED <<closePc, sessionDisposed>> /\ (sinks' => sinks)
    BY <1>5 DEF AdapterShutdown, AdapterDetach, AdapterDispose, AdapterRelease
  <2> QED
    BY <1>1, <2>1
<1>6. ASSUME NEW how \in {"closing", "disposing"}, CloseBegin(how) PROVE CloseAnnounced'
  <2>1. UNCHANGED <<sinks, sessionDisposed>>
    BY <1>6 DEF CloseBegin
  <2>2. CASE handle /\ CanPush
    <3>1. Push(SessionEnd) /\ CanPush /\ SessionEnd \in NativeEvents
      BY <1>6, <2>2, SessionEventIsNative DEF CloseBegin, SessionEnd
    <3>2. events' = Append(events, SessionEnd)
      BY <3>1 DEF Push
    <3>3. /\ Len(events') = Len(events) + 1 /\ Len(events) \in Nat
          /\ events'[Len(events) + 1] = SessionEnd
      BY <3>1, <3>2, AppendProperties, LenProperties DEF EventsTyped
    <3>4. InEvents(SessionEnd)'
      BY <3>3 DEF InEvents
    <3>5. EndKnown'
      BY <3>4 DEF EndKnown
    <3> QED
      BY <2>1, <3>5 DEF CloseAnnounced
  <2>3. CASE ~(handle /\ CanPush)
    <3>1. closePc' = closePc \/ closePc' = "release after failure"
      BY <1>6, <2>3 DEF CloseBegin, AfterFailedClose
    <3> QED
      BY <1>1, <2>1, <3>1
  <2> QED
    BY <2>2, <2>3
<1> QED
  BY <1>2, <1>3, <1>4, <1>5, <1>6, Cases DEF Closing, EndStep

-----------------------------------------------------------------------------
(* The inductive invariant and the theorems *)

\* The types support each other; Phases says what a handle and a place mean; the rest
\* follows events on their way and what the calls have taken.
CallsInv ==
  /\ EventsTyped /\ Len(events) <= EventLimit
  /\ DataTyped /\ CallsTyped /\ RestTyped
  /\ Phases
  /\ DataAnnounced /\ EndAnnounced /\ CloseAnnounced
  /\ AnswerKnown
  /\ WaiterFree
  /\ DatagramsInOrder /\ SharedOut

LEMMA CallsInvInit == ClientInit => CallsInv
<1> SUFFICES ASSUME ClientInit PROVE CallsInv
  OBVIOUS
<1>c. Init
  BY DEF ClientInit
<1>r. \A w \in Waiters : pc[w] = "idle" /\ result[w] = NoResult
  BY DEF ClientInit
<1>g. \A w \in Waiters : \A x : result[w] # Got(x)
  BY <1>r, ResultsDiffer
<1>1. EventsTyped /\ Len(events) <= EventLimit /\ ~\E e : InEvents(e)
  <2>1. events \in Seq(NativeEvents) /\ Len(events) = 0
    BY EmptySeq DEF ClientInit
  <2> QED
    BY <2>1, ClientAssumption DEF EventsTyped, InEvents
<1>2. DataTyped
  <2>1. datagrams \in Seq(1 .. MaxDatagrams)
    BY EmptySeq DEF ClientInit
  <2> QED
    BY <2>1, ClientAssumption DEF ClientInit, DataTyped
<1>3. CallsTyped
  BY DEF ClientInit, CallsTyped, Places, Results
<1>4. RestTyped
  BY DEF ClientInit, RestTyped
<1>5. Phases
  <2>1. \A w \in Connectors : w \in Waiters
    BY RolesDiffer
  <2>2. \A w \in Connectors : ConnectPhase(w)
    BY <1>r, <1>g, <2>1 DEF ConnectPhase, ClientInit
  <2>3. \A w \in Waiters \ Connectors : OtherPhase(w)
    BY <1>r DEF OtherPhase
  <2>4. EndPhase
    BY <1>g, <2>1 DEF EndPhase, ClientInit, SessionUp
  <2> QED
    BY <2>2, <2>3, <2>4 DEF Phases
<1>6. DataAnnounced /\ EndAnnounced /\ CloseAnnounced
  BY <1>r DEF DataAnnounced, EndAnnounced, CloseAnnounced, Waits, ClientInit
<1>7. AnswerKnown
  <2>1. ~StillToTake(ConnectKey)
    BY <1>c, EmptySeq DEF Init, StillToTake
  <2>2. Unanswered
    BY <1>c, <2>1, RolesDiffer, AnswerFacts DEF Init, Unanswered
  <2> QED
    BY <1>1, <1>g, <2>2, RolesDiffer DEF AnswerKnown
<1>8. WaiterFree
  BY <1>c, WaiterAssumption DEF Init, WaiterFree, Settled, Clear
<1>9. DatagramsInOrder
  <2>1. Len(datagrams) = 0
    BY EmptySeq DEF ClientInit
  <2> QED
    BY <1>g, <2>1, RolesDiffer DEF DatagramsInOrder
<1>10. SharedOut
  BY <1>r, <1>g, RolesDiffer DEF SharedOut, Takers
<1> QED
  BY <1>1, <1>2, <1>3, <1>4, <1>5, <1>6, <1>7, <1>8, <1>9, <1>10 DEF CallsInv

LEMMA CallsInvStep == IInv /\ CallsInv /\ [ClientNext]_vars => CallsInv'
<1> SUFFICES ASSUME IInv, CallsInv, [ClientNext]_vars PROVE CallsInv'
  OBVIOUS
<1> USE DEF CallsInv
<1>i. TypeOK /\ PumpShape /\ Owned /\ EndPhase
  BY DEF IInv, Phases
<1>1. EventsTyped' /\ Len(events') <= EventLimit /\ DataTyped' /\ CallsTyped' /\ RestTyped'
  BY <1>i, EventsTypedStep, EventsFit, DataTypedStep, CallsTypedStep, RestTypedStep
<1>2. Phases'
  BY <1>i, PhasesStep
<1>3. DataAnnounced' /\ EndAnnounced' /\ CloseAnnounced'
  BY <1>i, DataAnnouncedStep, EndAnnouncedStep, CloseAnnouncedStep
<1>4. AnswerKnown' /\ WaiterFree'
  BY AnswerKnownStep, WaiterFreeStep
<1>5. DatagramsInOrder' /\ SharedOut'
  BY <1>i, DatagramsInOrderStep, SharedOutStep
<1> QED
  BY <1>1, <1>2, <1>3, <1>4, <1>5

\* Calls, native library, close and dispose keep the invariant, on top of the coordinator's.
THEOREM CallsInvariance == ClientSpec => [](IInv /\ CallsInv)
<1>1. ClientSpec => []IInv
  BY ClientRefinesCoordinator, Invariance, PTL DEF ImplementsCoordinator
<1> QED
  BY <1>1, CallsInvInit, CallsInvStep, PTL DEF ClientSpec

\* Every variable keeps its type, the event queue its limit, and a loop that registers again
\* has its last waiter in nobody's hands (NativeSessionBackend.cs:64-95).
THEOREM ClientTypeCorrect == ClientSpec => []ClientTypeOK
<1>1. CallsInv => ClientTypeOK
  <2> SUFFICES ASSUME CallsInv PROVE ClientTypeOK
    OBVIOUS
  <2> USE DEF CallsInv
  <2>1. pc \in [Waiters -> Places] /\ \A w \in Waiters : result[w] \in Results
    BY DEF CallsTyped
  <2>2. \A w \in Waiters : pc[w] = "register" => task[w] = "none" /\ w \notin taken \cup disposeTaken
    BY DEF WaiterFree, BeforeWaiting, Clear
  <2> QED
    BY <2>1, <2>2 DEF ClientTypeOK, Places, Results, Faults, EventsTyped, DataTyped, RestTyped
<1> QED
  BY <1>1, CallsInvariance, PTL

\* No receive and no read sleeps over what the native library already has for it, unless the
\* event queue overflowed or the client is closing: trying, registering and trying once more
\* leaves no window (NativeSessionBackend.cs:64-95, NativeStreamBackend.cs:27-56).
THEOREM NobodySleepsOnArrivals == ClientSpec => []NoLostWakeup
<1>1. IInv /\ CallsInv => NoLostWakeup
  <2> SUFFICES ASSUME IInv, CallsInv, ~overflow, ~closing, NEW w \in Waiters, Asleep(w)
               PROVE  /\ w \in Receivers /\ datagrams # <<>> =>
                           OnItsWay(SessionEvent("DATAGRAM_RECEIVED"), KeyOf[w])
                      /\ w \in Readers /\ buffered[StreamOf(w)] # 0 =>
                           OnItsWay([type |-> "STREAM_DATA_RECEIVED", stream |-> StreamOf(w)], KeyOf[w])
                      /\ w \in Readers /\ StreamOf(w) \in ended =>
                           OnItsWay([type |-> "STREAM_CLOSED", stream |-> StreamOf(w)], KeyOf[w])
    BY DEF NoLostWakeup
  <2>1. Announced(w)
    BY DEF CallsInv, DataAnnounced, Asleep, Waits, Sleeps
  <2>2. ASSUME w \in Readers, StreamOf(w) \in ended
        PROVE  OnItsWay(CloseEvent(StreamOf(w)), KeyOf[w])
    <3> DEFINE s == StreamOf(w)
    <3>k. KeyOf[w] = <<"data", s>> /\ KeyOf[w] \in Keys /\ KeyOf[w] \in StreamKeys
          /\ Routes(CloseEvent(s), KeyOf[w])
      BY <2>2, ReadersRead, EventsRoute DEF Readers
    <3>1. \/ s \in closedStreams \/ (pumpPc = "mark" /\ ev = CloseEvent(s)) \/ InEvents(CloseEvent(s))
      BY <2>2 DEF CallsInv, EndAnnounced
    <3>2. CASE s \in closedStreams
      <4>1. Happened(KeyOf[w])
        BY <3>k, <3>2 DEF Happened, AlreadyThere
      <4>2. waiting[KeyOf[w]] # {}
        BY DEF Asleep
      <4> QED
        BY <3>k, <4>1, <4>2 DEF IInv, NoSleeperOnPastEvent, OnItsWay
    <3>3. CASE pumpPc = "mark" /\ ev = CloseEvent(s)
      <4>1. todo = Route(CloseEvent(s))
        BY <3>3 DEF IInv, PumpShape
      <4> QED
        BY <3>k, <4>1 DEF Routes, OnItsWay, StillToTake
    <3>4. CASE InEvents(CloseEvent(s))
      BY <3>4 DEF InEvents, OnItsWay
    <3> QED
      BY <3>1, <3>2, <3>3, <3>4
  <2> QED
    BY <2>1, <2>2 DEF Announced, DatagramEvent, DataEvent, CloseEvent
<1> QED
  BY <1>1, CallsInvariance, PTL

\* A connect that returns the session had the peer's answer, one that fails leaves no native
\* session behind unless the client is disposed, and then that takes it away
\* (NativeBackendAdapter.cs:42-66, WebTransportClient.cs:38, 63).
THEOREM ConnectEndsWell == ClientSpec => []ConnectOutcome
<1>1. CallsInv => ConnectOutcome
  <2> SUFFICES ASSUME CallsInv PROVE ConnectOutcome
    OBVIOUS
  <2>1. \A w \in Connectors : result[w] = Got(Session) => answered = "accepted"
    BY DEF CallsInv, AnswerKnown
  <2>2. \A w \in Connectors :
          pc[w] = "done" /\ result[w] \in {Failure(f) : f \in {"fault", "cancelled", "timeout"}} => ~handle
    BY DEF CallsInv, Phases, ConnectPhase
  <2>3. adapterPc = "done" => ~handle
    BY DEF CallsInv, Phases, EndPhase
  <2> QED
    BY <2>1, <2>2, <2>3 DEF ConnectOutcome
<1> QED
  BY <1>1, CallsInvariance, PTL

\* No datagram and no peer stream goes to two calls, however they race, and a datagram a call
\* returned has left the queue (NativeSessionBackend.cs:23-62, 64-95).
THEOREM SharedOutOnce == ClientSpec => []NothingHandedOutTwice
<1>1. CallsInv => NothingHandedOutTwice
  <2> SUFFICES ASSUME CallsInv PROVE NothingHandedOutTwice
    OBVIOUS
  <2>1. ASSUME NEW v \in Takers, NEW w \in Takers, v # w, KeyOf[v] = KeyOf[w], result[v][1] = "got"
        PROVE  result[v] # result[w]
    <3>1. result[v] \in Results
      BY RolesDiffer DEF CallsInv, CallsTyped, Takers
    <3>2. PICK x : result[v] = Got(x)
      BY <2>1, <3>1, ResultsDiffer DEF Results
    <3> QED
      BY <2>1, <3>2 DEF CallsInv, SharedOut
  <2>2. ASSUME NEW w \in Receivers, NEW i \in 1 .. Len(datagrams), result[w] = Got(datagrams[i])
        PROVE  FALSE
    <3>1. datagrams[i] \in Nat /\ datagrams[i] < datagrams[i]
      BY <2>2 DEF CallsInv, DatagramsInOrder
    <3> QED
      BY <3>1
  <2> QED
    BY <2>1, <2>2 DEF NothingHandedOutTwice, Takers
<1> QED
  BY <1>1, CallsInvariance, PTL

\* A session that counts as disposed is shut down, and its end is known to the coordinator or
\* on its way to it (NativeSessionBackend.cs:104-124).
THEOREM DisposedIsKnown == ClientSpec => []DisposedIsAnnounced
<1>1. IInv /\ CallsInv => DisposedIsAnnounced
  <2> SUFFICES ASSUME IInv, CallsInv, sessionDisposed
               PROVE  /\ ~sinks
                      /\ closing \/ Session \in closedSessions \/ OnItsWay(SessionEnd, <<"bidi", Session>>)
    BY DEF DisposedIsAnnounced, SessionEnd
  <2>1. ~sinks /\ (closing \/ EndKnown)
    BY DEF CallsInv, CloseAnnounced
  <2>2. ASSUME pumpPc = "mark", ev = SessionEnd PROVE OnItsWay(SessionEnd, <<"bidi", Session>>)
    <3>1. todo = Route(SessionEnd)
      BY <2>2 DEF IInv, PumpShape
    <3>2. Route(SessionEnd) = << <<"connected", Session>>, <<"datagram", Session>>,
                                <<"bidi", Session>>, <<"uni", Session>> >>
      <4>1. SessionEnd.type = "SESSION_CLOSED" /\ SessionEnd.session = Session
        BY DEF SessionEnd, SessionEvent
      <4> QED
        BY <4>1 DEF Route
    <3>3. 3 \in 1 .. Len(todo) /\ todo[3] = <<"bidi", Session>>
      BY <3>1, <3>2
    <3> QED
      BY <3>3 DEF OnItsWay, StillToTake
  <2>3. InEvents(SessionEnd) => OnItsWay(SessionEnd, <<"bidi", Session>>)
    BY DEF InEvents, OnItsWay
  <2> QED
    BY <2>1, <2>2, <2>3 DEF EndKnown
<1> QED
  BY <1>1, CallsInvariance, PTL
=============================================================================
