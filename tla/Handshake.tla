----------------------------- MODULE Handshake -----------------------------
(***************************************************************************)
(* How a WebTransport session comes about (wt_msquic.c): a thread connects *)
(* the client, perhaps again after an earlier connect was given up;        *)
(* MsQuic's callbacks send the settings and the CONNECT request, read the  *)
(* answer in whatever pieces it arrives, announce the session and take the *)
(* datagrams.  One action per section of the context's lock, and one per   *)
(* read or write the code does outside it.                                 *)
(*                                                                         *)
(* A connect is known by its number: it is the session it allocates and    *)
(* the connection it opens, and 0 is none.  MsQuic is external: it runs    *)
(* one callback of a connection at a time, closes a connection when none   *)
(* of its callbacks runs, and may fail any call.                           *)
(***************************************************************************)
EXTENDS Codec, FiniteSets

CONSTANTS
  Urls,            \* bound: the URL of each connect, in the order of the calls
  Headers,         \* the header lines of each connect
  Answers,         \* bound: what a server may answer, each a sequence of frames
  Datagrams,       \* bound: what a server may send as a datagram
  RequestStreamId, \* the id MsQuic gives the request stream
  Limit            \* WT_MAX_REQUEST_STREAM_BUFFER_BYTES

Attempts == 1..Len(Urls)

\* Bound: what the headers take on the wire, so that a request needs 31 bits for its length.
LongHeaders == 2147480000

\* That answers are whole frames leaves no server out: whatever bytes it sends are the
\* beginning of some, and how much of an answer arrives is open.
ASSUME HandshakeAssumption ==
  /\ Urls \in Seq(Seq(Nat))
  /\ Headers \in Seq(Seq({<<>>} \union (Seq(Nat) \X Seq(Nat)))) /\ Len(Headers) = Len(Urls)
  /\ \A c \in DOMAIN Headers : Len(wt_http3_append_serialized_headers(<<>>, Headers[c])) <= LongHeaders
  /\ Answers \subseteq Seq(Seq(Bytes)) /\ <<>> \notin Answers
  /\ \A a \in Answers : \A i \in DOMAIN a : IsFrame(a[i])
  /\ Datagrams \subseteq Seq(Bytes)
  /\ RequestStreamId \in Nat /\ RequestStreamId <= Huge /\ Limit \in Nat

VARIABLES
  context,   \* the fields of wt_msquic_context the handshake uses; its URL and its
             \* authority are those of the connects that wrote them
  caller,    \* the thread that connects: where it is, its connect, the connection it replaces
  callback,  \* connection |-> what the callback running for it has still to do
  link,      \* connection |-> its life: "none", "starting", "up", "ending", "over", "closed"
  wire,      \* connection |-> the bytes sent on its control and request streams
  started,   \* connections whose request stream has its id
  answer,    \* connection |-> the frames of the server's answer, <<>> for none yet
  arrived,   \* connection |-> bytes of the answer that MsQuic has handed over
  greeted,   \* connections on which a datagram has arrived
  connected, \* session |-> SESSION_CONNECTED events pushed for it
  failed,    \* an ERROR or CLIENT_CLOSED event was handed to the sink: the end of the client
  delivered, \* the datagrams queued, with the connection and the session
  crossed,   \* history: connects begun while an earlier connection was still alive
  hole       \* history: a piece of the answer could not be buffered

handshake == <<context, callback>>
peer == <<link, wire, started, answer, arrived, greeted>>
history == <<connected, failed, delivered, crossed, hole>>
vars == <<context, caller, callback, peer, history>>

NoContext == [session |-> 0, connection |-> 0, control |-> 0, request |-> 0,
              url |-> 0, authority |-> 0, flow |-> 0, ready |-> FALSE,
              accepted |-> FALSE, emitted |-> FALSE, closing |-> FALSE, buffer |-> <<>>]

Init ==
  /\ context = NoContext
  /\ caller = [pc |-> "idle", attempt |-> 0, replaced |-> 0]
  /\ callback = [n \in Attempts |-> <<>>]
  /\ link = [n \in Attempts |-> "none"]
  /\ wire = [n \in Attempts |-> [control |-> <<>>, request |-> <<>>]]
  /\ started = {} /\ greeted = {}
  /\ answer = [n \in Attempts |-> <<>>]
  /\ arrived = [n \in Attempts |-> 0]
  /\ connected = [n \in Attempts |-> 0]
  /\ failed = FALSE
  /\ delivered = {} /\ crossed = {} /\ hole = FALSE

-----------------------------------------------------------------------------
(* wt_client_connect and wt_msquic_connect: one connect after the other *)

attempt == caller.attempt

Goto(pc) == caller' = [caller EXCEPT !.pc = pc]

\* The session is put into the context before anything of the last connect is cleared.
wt_client_connect ==
  /\ caller.pc = "idle" /\ attempt < Len(Urls)
  /\ caller' = [pc |-> "reset", attempt |-> attempt + 1, replaced |-> 0]
  /\ context' = [context EXCEPT !.session = attempt + 1]
  /\ crossed' = IF \E m \in 1..attempt : link[m] \in {"starting", "up"} THEN crossed \union {attempt + 1}
                ELSE crossed
  /\ UNCHANGED <<callback, peer, connected, failed, delivered, hole>>

ConnectRefused ==
  /\ caller.pc = "reset" /\ ~wt_url_parse_https(Urls[attempt]).ok
  /\ Goto("idle")
  /\ UNCHANGED <<handshake, peer, history>>

Cleared == [context EXCEPT !.url = attempt, !.flow = 0, !.ready = FALSE, !.accepted = FALSE,
                           !.emitted = FALSE, !.buffer = <<>>]

\* There may be no memory for the headers; otherwise the connection is taken out.
ConnectResets ==
  /\ caller.pc = "reset" /\ wt_url_parse_https(Urls[attempt]).ok
  /\ \/ context' = Cleared /\ Goto("idle")
     \/ /\ context' = [Cleared EXCEPT !.connection = 0]
        /\ caller' = [caller EXCEPT !.pc = "name", !.replaced = context.connection]
  /\ UNCHANGED <<callback, peer, history>>

\* Outside the lock, while a callback of the connection to be replaced may run.
ConnectNames ==
  /\ caller.pc = "name"
  /\ context' = [context EXCEPT !.authority = attempt]
  /\ Goto(IF caller.replaced = 0 THEN "open" ELSE "close")
  /\ UNCHANGED <<callback, peer, history>>

ConnectReplaces ==
  /\ caller.pc = "close" /\ callback[caller.replaced] = <<>>
  /\ link' = [link EXCEPT ![caller.replaced] = "closed"]
  /\ Goto("open")
  /\ UNCHANGED <<handshake, wire, started, answer, arrived, greeted, history>>

\* The configuration or ConnectionOpen may fail.
ConnectOpens ==
  /\ caller.pc = "open"
  /\ \/ Goto("idle") /\ UNCHANGED context
     \/ Goto("start") /\ context' = [context EXCEPT !.connection = attempt]
  /\ UNCHANGED <<callback, peer, history>>

\* A connection that cannot be started is closed and taken out again.
ConnectStarts ==
  /\ caller.pc = "start"
  /\ Goto("idle")
  /\ \/ link' = [link EXCEPT ![attempt] = "starting"] /\ UNCHANGED context
     \/ link' = [link EXCEPT ![attempt] = "closed"] /\ context' = [context EXCEPT !.connection = 0]
  /\ UNCHANGED <<callback, wire, started, answer, arrived, greeted, history>>

\* Another thread shuts the client down: from here the callbacks do nothing.
wt_msquic_shutdown ==
  /\ ~context.closing
  /\ context' = [context EXCEPT !.closing = TRUE]
  /\ UNCHANGED <<caller, callback, peer, history>>

-----------------------------------------------------------------------------
(* Callbacks: MsQuic hands over an event, and what it sets off is done in steps.  An     *)
(* operator named after a definition, with a suffix, is that definition with a plausible *)
(* bug: the properties must notice it.                                                   *)

Do(what) == [do |-> what, piece |-> <<>>]
DoWith(what, piece) == [do |-> what, piece |-> piece]

\* An event of connection c sets off steps.  Those of a closing client set off none, and
\* are left out.
Callback(c, steps) ==
  /\ callback[c] = <<>> /\ ~context.closing
  /\ callback' = [callback EXCEPT ![c] = steps]

At(c, what) == callback[c] # <<>> /\ Head(callback[c]).do = what
Piece(c) == Head(callback[c]).piece

\* Its next step is done, and further ones take its place.
Then(c, further) == callback' = [callback EXCEPT ![c] = further \o Tail(callback[c])]

\* wt_msquic_emit_error
EmitError(c) ==
  /\ At(c, "error")
  /\ Then(c, <<>>)
  /\ failed' = (failed \/ ~context.closing)
  /\ UNCHANGED <<context, caller, peer, connected, delivered, crossed, hole>>

\* CLIENT_CONNECTED, which is pushed last, says nothing of the session: it is left out.
Connected(c) ==
  /\ link[c] = "starting"
  /\ Callback(c, <<Do("settings"), Do("request")>>)
  /\ link' = [link EXCEPT ![c] = "up"]
  /\ UNCHANGED <<context, caller, wire, started, answer, arrived, greeted, history>>

\* The transport or the peer begins to end the connection (ERROR, CLIENT_CLOSED), and
\* MsQuic is through with it (CLIENT_CLOSED).
ConnectionEnds(c) ==
  /\ link[c] \in {"starting", "up", "ending"}
  /\ Callback(c, <<Do("push")>>)
  /\ link' = [link EXCEPT ![c] = IF @ = "ending" THEN "over" ELSE "ending"]
  /\ UNCHANGED <<context, caller, wire, started, answer, arrived, greeted, history>>

\* The event of the connection goes to the sink the callback copied when it began, though
\* the client may be closing by now.
PushEvent(c) ==
  /\ At(c, "push")
  /\ Then(c, <<>>)
  /\ failed' = TRUE
  /\ UNCHANGED <<context, caller, peer, connected, delivered, crossed, hole>>

\* wt_msquic_send_control_settings, outside the lock, opens the control stream on the
\* connection of the context.  It keeps the one it has, of an earlier connection too ...
OpenControl(c) ==
  LET k == context.connection IN
  /\ At(c, "settings")
  /\ \/ /\ k = 0 \/ context.control = 0
        /\ Then(c, <<Do("error")>>)
        /\ UNCHANGED context
     \/ /\ k # 0 /\ context.control # 0
        /\ Then(c, <<>>)
        /\ UNCHANGED context
     \/ /\ k # 0 /\ context.control = 0
        /\ Then(c, <<Do("greet")>>)
        /\ context' = [context EXCEPT !.control = k]
  /\ UNCHANGED <<caller, peer, history>>

\* ... and sends the settings on it.
SendSettings(c) ==
  /\ At(c, "greet")
  /\ \/ Then(c, <<Do("error")>>) /\ UNCHANGED wire
     \/ /\ Then(c, <<>>)
        /\ wire' = [wire EXCEPT ![context.control].control =
                      wt_http3_encode_varint(0) \o wt_http3_encode_client_settings(TRUE)]
  /\ UNCHANGED <<context, caller, link, started, answer, arrived, greeted, history>>

\* wt_msquic_send_webtransport_connect opens the request stream, if there is none ...
OpenRequest(c) ==
  LET k == context.connection IN
  /\ At(c, "request")
  /\ \/ /\ k = 0 \/ context.request = 0
        /\ Then(c, <<Do("error")>>)
        /\ UNCHANGED context
     \/ /\ k # 0 /\ context.request # 0
        /\ Then(c, <<>>)
        /\ UNCHANGED context
     \/ /\ k # 0 /\ context.request = 0
        /\ Then(c, <<Do("send")>>)
        /\ context' = [context EXCEPT !.request = k]
  /\ UNCHANGED <<caller, peer, history>>

\* ... and sends the request for the URL, authority and headers the context holds by now.
SendRequest(c) ==
  LET request == wt_http3_encode_webtransport_connect(
                   AuthorityOf(wt_url_parse_https(Urls[context.authority])),
                   wt_url_parse_https(Urls[context.url]).path,
                   Headers[context.url]) IN
  /\ At(c, "send")
  /\ \/ Then(c, <<Do("error")>>) /\ UNCHANGED wire
     \/ /\ request # <<>>
        /\ Then(c, <<>>)
        /\ wire' = [wire EXCEPT ![context.request].request = request]
  /\ UNCHANGED <<context, caller, link, started, answer, arrived, greeted, history>>

-----------------------------------------------------------------------------
(* The request stream *)

StartSteps_NoEmit == <<Do("ready")>>

StartSteps == <<Do("ready"), Do("emit")>>

\* START_COMPLETE: the id of the request stream is the session's on the wire.
StreamStarted(c) ==
  /\ context.request = c /\ wire[c].request # <<>> /\ c \notin started /\ link[c] = "up"
  /\ Callback(c, StartSteps)
  /\ started' = started \union {c}
  /\ UNCHANGED <<context, caller, link, wire, answer, arrived, greeted, history>>

MarkReady(c) ==
  /\ At(c, "ready")
  /\ Then(c, <<>>)
  /\ context' = [context EXCEPT !.ready = TRUE, !.flow = RequestStreamId \div 4]
  /\ UNCHANGED <<caller, peer, history>>

CanEmit_Again == ~context.closing /\ context.accepted /\ context.ready

CanEmit == ~context.closing /\ context.accepted /\ context.ready /\ ~context.emitted

\* wt_msquic_try_emit_session_connected
TryEmit(c) ==
  /\ At(c, "emit")
  /\ Then(c, <<>>)
  /\ IF CanEmit THEN /\ context' = [context EXCEPT !.emitted = TRUE]
                     /\ connected' = [connected EXCEPT ![context.session] = @ + 1]
     ELSE UNCHANGED <<context, connected>>
  /\ UNCHANGED <<caller, peer, failed, delivered, crossed, hole>>

ServerAnswers(c) ==
  /\ link[c] = "up" /\ ~context.closing /\ wire[c].request # <<>> /\ answer[c] = <<>>
  /\ \E a \in Answers : answer' = [answer EXCEPT ![c] = a]
  /\ UNCHANGED <<handshake, caller, link, wire, started, arrived, greeted, history>>

\* RECEIVE: any piece of what is left of the answer.  Bound: no more of it arrives after a
\* piece was refused, which has ended the client with an error.
Received(c) ==
  LET bytes == FlattenSeq(answer[c]) IN
  /\ link[c] = "up" /\ context.request = c /\ ~hole
  /\ \E end \in (arrived[c] + 1)..Len(bytes) :
       /\ Callback(c, <<DoWith("receive", SubSeq(bytes, arrived[c] + 1, end))>>)
       /\ arrived' = [arrived EXCEPT ![c] = end]
  /\ UNCHANGED <<context, caller, link, wire, started, answer, greeted, history>>

Fits_NextOnly(piece) == Len(piece) <= Limit

Fits(piece) == Len(piece) <= Limit /\ Len(context.buffer) <= Limit - Len(piece)

\* wt_msquic_process_request_stream: the piece is refused when it does not fit, or when
\* there is no memory; otherwise all the frames that are whole by now are read.
ProcessRequestStream(c) ==
  LET data == context.buffer \o Piece(c)
      scan == Scan(data)
  IN
  /\ At(c, "receive")
  /\ \/ /\ Then(c, <<Do("error")>>) /\ hole' = TRUE /\ UNCHANGED context
     \/ /\ Fits(Piece(c))
        /\ context' = [context EXCEPT !.buffer = SubSeq(data, scan.end + 1, Len(data)),
                                      !.accepted = @ \/ TRUE \in scan.verdicts]
        /\ Then(c, (IF TRUE \in scan.verdicts THEN <<Do("emit")>> ELSE <<>>)
                   \o (IF FALSE \in scan.verdicts THEN <<Do("error")>> ELSE <<>>))
        /\ UNCHANGED hole
  /\ UNCHANGED <<caller, peer, connected, failed, delivered, crossed>>

\* DATAGRAM_RECEIVED
DatagramReceived(c) ==
  /\ link[c] = "up" /\ c \notin greeted
  /\ \E d \in Datagrams : Callback(c, <<DoWith("datagram", d)>>)
  /\ greeted' = greeted \union {c}
  /\ UNCHANGED <<context, caller, link, wire, started, answer, arrived, history>>

Expected_Early(flow) == flow = context.flow

Expected(flow) == context.ready /\ flow = context.flow

\* wt_msquic_deliver_datagram
DeliverDatagram(c) ==
  LET d == wt_datagrams_decode(Piece(c)) IN
  /\ At(c, "datagram")
  /\ IF d.ok /\ Expected(d.value.flow) /\ ~context.closing
       THEN /\ Then(c, <<>>)
            /\ delivered' = delivered \union
                 {[connection |-> c, session |-> context.session, payload |-> d.value.payload]}
       ELSE Then(c, <<Do("error")>>) /\ UNCHANGED delivered
  /\ UNCHANGED <<context, caller, peer, connected, failed, crossed, hole>>

-----------------------------------------------------------------------------
Connecting ==
  wt_client_connect \/ ConnectRefused \/ ConnectResets \/ ConnectNames \/ ConnectReplaces
  \/ ConnectOpens \/ ConnectStarts

Callbacks(c) ==
  Connected(c) \/ ConnectionEnds(c) \/ StreamStarted(c) \/ ServerAnswers(c) \/ Received(c)
  \/ DatagramReceived(c)

Steps(c) ==
  OpenControl(c) \/ SendSettings(c) \/ OpenRequest(c) \/ SendRequest(c) \/ MarkReady(c)
  \/ TryEmit(c) \/ ProcessRequestStream(c) \/ DeliverDatagram(c) \/ EmitError(c) \/ PushEvent(c)

Next == Connecting \/ wt_msquic_shutdown \/ \E c \in Attempts : Callbacks(c) \/ Steps(c)

Spec == Init /\ [][Next]_vars

-----------------------------------------------------------------------------
(* Properties *)

What == {"settings", "greet", "request", "send", "ready", "emit", "receive", "datagram",
         "error", "push"}

\* The types.
HandshakeTypeOK ==
  /\ {context.session, context.connection, context.control, context.request,
      context.url, context.authority} \subseteq 0..Len(Urls)
  /\ {context.ready, context.accepted, context.emitted, context.closing} \subseteq BOOLEAN
  /\ context.flow \in Nat /\ context.buffer \in Seq(Nat)
  /\ Len(context.buffer) <= Limit
  /\ caller.pc \in {"idle", "reset", "name", "close", "open", "start"}
  /\ {caller.attempt, caller.replaced} \subseteq 0..Len(Urls)
  /\ caller.pc = "close" => caller.replaced # 0
  /\ callback \in [Attempts -> Seq([do : What, piece : Seq(Nat)])]
  /\ link \in [Attempts -> {"none", "starting", "up", "ending", "over", "closed"}]
  /\ wire \in [Attempts -> [control : Seq(Nat), request : Seq(Nat)]]
  /\ started \subseteq Attempts /\ greeted \subseteq Attempts
  /\ answer \in [Attempts -> Answers \union {<<>>}]
  /\ arrived \in [Attempts -> Nat]
  /\ connected \in [Attempts -> Nat]
  /\ failed \in BOOLEAN /\ hole \in BOOLEAN
  /\ delivered \subseteq [connection : Attempts, session : Attempts, payload : Seq(Nat)]
  /\ crossed \subseteq Attempts

\* What was handed over of an answer and is no longer on its way through a callback.
Seen(c) == arrived[c] - IF At(c, "receive") THEN Len(Piece(c)) ELSE 0

EndOf(c, i) == Len(FlattenSeq(SubSeq(answer[c], 1, i)))
Whole(c) == {i \in DOMAIN answer[c] : EndOf(c, i) <= Seen(c)}

Says(frame, verdict) ==
  LET f == FrameAt(frame, 0).value IN
  f.type = HEADERS /\ Accepts(wt_qpack_decode_status(f.payload)) = verdict

\* The request in the context is that of the last connect and every piece was buffered.
Followed(c) == context.request = c /\ attempt = c /\ ~hole

\* However the answer is cut into pieces, the client has read exactly the frames that are
\* all there, and keeps exactly the beginning of the next.
PiecesDoNotMatter ==
  \A c \in Attempts : Followed(c) =>
    /\ context.accepted <=> \E i \in Whole(c) : Says(answer[c][i], TRUE)
    /\ context.buffer = SubSeq(FlattenSeq(answer[c]), 1 + EndOf(c, Cardinality(Whole(c))), Seen(c))

Pending(what) == \E c \in Attempts : \E i \in DOMAIN callback[c] : callback[c][i].do = what

\* No answer is forgotten: whichever of the id of the stream and the answer comes first, an
\* accepted session is announced, and a refusal is reported.
VerdictIsAnnounced ==
  /\ context.accepted /\ context.ready /\ ~context.closing => context.emitted \/ Pending("emit")
  /\ \A c \in Attempts :
       Followed(c) /\ (\E i \in Whole(c) : Says(answer[c][i], FALSE))
         => context.closing \/ failed \/ Pending("error")

\* A session is announced once, and on an answer to its own request, unless its connect
\* overtook an earlier connection that was still alive.
ConnectedOnce ==
  \A s \in Attempts \ crossed :
    connected[s] <= 1 /\ (connected[s] = 1 => \E i \in Whole(s) : Says(answer[s][i], TRUE))

\* The integers QUIC lets a peer write for a value: in any of the widths that hold it.
Legal(value) == {InWidth(value, w) : w \in {1, 2, 4, 8} \ 0..(Width(value) - 1)}

\* A session gets the datagrams of its own connection and flow, after its request has
\* its id, with the payload the server sent, unless its connect overtook an earlier
\* connection that was still alive: it may get that one's.
DatagramsAreOurs ==
  \A d \in delivered : d.session \notin crossed =>
    /\ d.connection = d.session /\ d.connection \in started
    /\ \E flow \in Legal(RequestStreamId \div 4) : flow \o d.payload \in Datagrams

\* RFC 9204: the fields of a field section, as far as they can be read, with the entries of
\* the static table a request uses.
RfcName(index) == CASE index = 0 -> Authority [] index = 1 -> Path [] OTHER -> <<>>
RfcEntry(index) == CASE index = 15 -> <<Method, Connect>> [] index = 23 -> <<Scheme, HttpsScheme>>
                     [] OTHER -> <<>>

RfcField(data, offset) ==
  LET text(at, bits) ==
        LET length == PrefixedAt(data, at + 1, bits) IN
        IF at < Len(data) /\ length.ok THEN TextAt(data, length.end, length.value) ELSE Unreadable
      first == data[offset + 1]
      index == PrefixedAt(data, offset + 1, IF first >= 192 THEN 6 ELSE 4)
      name == IF first >= 64 THEN [index EXCEPT !.value = RfcName(@)] ELSE text(offset, 3)
      value == text(name.end, 7)
  IN IF first >= 192 THEN [index EXCEPT !.value = RfcEntry(@)]
     ELSE IF name.ok /\ value.ok THEN Read(<<name.value, value.value>>, value.end)
     ELSE Unreadable

RfcFields(data) ==
  LET from[offset \in 2..Len(data)] ==
        LET field == RfcField(data, offset) IN
        IF offset = Len(data) \/ ~field.ok THEN <<>>
        ELSE <<field.value>> \o from[field.end]
  IN from[2]

\* The host of an authority, and its port, 443 if it has none.
HostOf(authority) == SubSeq(authority, 1, Find(authority, Colon, 0, Len(authority)))
PortOf(authority) ==
  LET digits == SubSeq(authority, Find(authority, Colon, 0, Len(authority)) + 2, Len(authority))
  IN IF digits = <<>> THEN 443 ELSE Number(digits)

\* An authority and a path that name a URL: the path "/" may be left out.
Names(authority, path, url) ==
  \E end \in {path, <<>>} :
    LET named == SubSeq(url, 9, Len(url) - Len(end)) IN
    /\ url = Https \o named \o end /\ (end = <<>> => path = <<Slash>>)
    /\ HostOf(authority) = HostOf(named) /\ PortOf(authority) = PortOf(named)

SettingsMeant(bytes) ==
  /\ Head(bytes) = 0
  /\ wt_http3_validate_peer_settings(wt_http3_parse_settings(Tail(bytes)))

\* The field a line of the caller's headers stands for, if it is not blank.
Fields(line) == IF line = <<>> THEN <<>> ELSE <<line>>

RequestMeant(bytes, c) ==
  LET frame == FrameAt(bytes, 0)
      fields == RfcFields(frame.value.payload)
  IN /\ frame.end = Len(bytes) /\ frame.value.type = HEADERS
     /\ SubSeq(fields, 1, 3) =
          << <<Method, Connect>>, <<Protocol, WebTransport>>, <<Scheme, HttpsScheme>> >>
     /\ fields[4][1] = Authority /\ fields[5][1] = Path
     /\ Names(fields[4][2], fields[5][2], Urls[c])
     /\ SubSeq(fields, 6, Len(fields)) = FlattenSeq([i \in DOMAIN Headers[c] |-> Fields(Headers[c][i])])

\* A server that reads what the client sends as the RFCs say finds the settings WebTransport
\* needs, and a request for the URL and with the headers of the connect, unless a later
\* connect has already begun.
PeerReadsWhatWasMeant ==
  [][\A c \in Attempts :
       /\ wire'[c].control # wire[c].control => SettingsMeant(wire'[c].control)
       /\ wire'[c].request # wire[c].request /\ attempt = c => RequestMeant(wire'[c].request, c)]_vars

-----------------------------------------------------------------------------
(* What the documentation says *)

\* The :status entries of the static table of RFC 9204, appendix A.
RfcStatus(index) ==
  CASE index = 24 -> 103 [] index = 25 -> 200 [] index = 26 -> 304 [] index = 27 -> 404
    [] index = 28 -> 503 [] OTHER -> 0

RfcAccepts(frame) ==
  LET f == FrameAt(frame, 0).value
      first == f.payload[3]
  IN /\ f.type = HEADERS
     /\ Accepts(IF first >= 192 THEN RfcStatus(first - 192) ELSE wt_qpack_decode_status(f.payload))

\* README.md: "ConnectAsync returns only after the remote endpoint accepts the WebTransport
\* extended CONNECT request."
ConnectedMeansAccepted ==
  \A s \in Attempts : connected[s] > 0 => \E i \in DOMAIN answer[s] : RfcAccepts(answer[s][i])

=============================================================================
