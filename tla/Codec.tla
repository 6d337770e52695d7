------------------------------- MODULE Codec -------------------------------
(***************************************************************************)
(* What the client writes on the wire of a connection and how it reads the *)
(* answer: QUIC integers, HTTP/3 frames and settings (wt_http3.c), QPACK   *)
(* field sections (wt_qpack.c), datagrams (wt_datagrams.c) and the URL the *)
(* request is made from (wt_url.c).                                        *)
(*                                                                         *)
(* Bytes are numbers and offsets count from 0, as in the code.  A text the *)
(* code only copies and compares is a sequence of numbers above 255 that   *)
(* stand for its characters: Text(k, n) is the k-th text, of n characters. *)
(*                                                                         *)
(* An operator named after a definition, with a suffix, is that definition *)
(* with a plausible bug: the properties must notice it.                    *)
(***************************************************************************)
EXTENDS Naturals, Sequences, SequencesExt

Bytes == 0..255

Text(k, n) == [i \in 1..n |-> 1000 * k + i]

Https == Text(1, 8)          \* "https://"
Method == Text(2, 7)         \* ":method"
Connect == Text(3, 7)        \* "CONNECT"
Protocol == Text(4, 9)       \* ":protocol"
WebTransport == Text(5, 12)  \* "webtransport"
Scheme == Text(6, 7)         \* ":scheme"
HttpsScheme == Text(7, 5)    \* "https"
Authority == Text(8, 10)     \* ":authority"
Path == Text(9, 5)           \* ":path"
Status == Text(10, 7)        \* ":status"

-----------------------------------------------------------------------------
(* QUIC integers *)

Width(value) ==
  IF value <= 63 THEN 1
  ELSE IF value <= 16383 THEN 2
  ELSE IF value <= 1073741823 THEN 4
  ELSE 8

\* The two top bits of the first byte tell the width.
Mark(width) == CASE width = 1 -> 0 [] width = 2 -> 64 [] width = 4 -> 128 [] width = 8 -> 192

\* Bound: a value has four bytes that are not 0, at most.
ByteOf(value, k) == IF k > 3 THEN 0 ELSE (value \div 256 ^ k) % 256

InWidth(value, w) == [i \in 1..w |-> ByteOf(value, w - i) + (IF i = 1 THEN Mark(w) ELSE 0)]

wt_http3_encode_varint(value) == InWidth(value, Width(value))

\* What a decoder returns: the value and where it ends, or that there is none.
Read(value, end) == [ok |-> TRUE, value |-> value, end |-> end]
Unreadable == [ok |-> FALSE, value |-> 0, end |-> 0]

\* Bound: values that need more than 31 bits, which no offset or length of the code reaches,
\* are not told apart.
Huge == 2147483647

\* A value with one more byte.
Shifted(value, byte) == IF value >= 2 ^ 23 THEN Huge ELSE 256 * value + byte
Shifts(value, bytes) == FoldLeft(Shifted, value, bytes)

wt_http3_decode_varint(data, offset) ==
  IF offset >= Len(data) THEN Unreadable
  ELSE LET first == data[offset + 1]
           end == offset + 2 ^ (first \div 64)
       IN IF end > Len(data) THEN Unreadable
          ELSE Read(Shifts(first % 64, SubSeq(data, offset + 2, end)), end)

-----------------------------------------------------------------------------
(* HTTP/3 frames and settings *)

HEADERS == 1
SETTINGS == 4
WANTED == {8, 51, 727725890}  \* extended CONNECT, datagrams, the WebTransport draft

Frame(type, payload) ==
  wt_http3_encode_varint(type) \o wt_http3_encode_varint(Len(payload)) \o payload

wt_http3_append_setting(id, value) == wt_http3_encode_varint(id) \o wt_http3_encode_varint(value)

wt_http3_encode_client_settings(datagrams) ==
  Frame(SETTINGS, wt_http3_append_setting(8, 1)
                  \o wt_http3_append_setting(51, IF datagrams THEN 1 ELSE 0)
                  \o wt_http3_append_setting(727725890, 1))

\* The frame at an offset: its type, its payload and its end, if it is all there.
FrameAt(data, offset) ==
  LET type == wt_http3_decode_varint(data, offset)
      length == wt_http3_decode_varint(data, type.end)
  IN IF ~type.ok \/ ~length.ok \/ length.value > Len(data) - length.end THEN Unreadable
     ELSE Read([type |-> type.value,
                payload |-> SubSeq(data, length.end + 1, length.end + length.value)],
               length.end + length.value)

\* What a peer that keeps to HTTP/3 sends on a stream is a sequence of these.
IsFrame(bytes) == LET frame == FrameAt(bytes, 0) IN frame.ok /\ frame.end = Len(bytes)

\* The wanted settings a settings frame turns on, and 0 if it cannot be parsed.
wt_http3_parse_settings(data) ==
  LET frame == FrameAt(data, 0)
      payload == frame.value.payload
      on[offset \in 0..Len(payload)] ==
        LET id == wt_http3_decode_varint(payload, offset)
            value == wt_http3_decode_varint(payload, id.end)
        IN IF offset = Len(payload) THEN {}
           ELSE IF ~id.ok \/ ~value.ok THEN {0}
           ELSE on[value.end] \union IF value.value # 0 THEN {id.value} \intersect WANTED ELSE {}
  IN IF ~frame.ok \/ frame.value.type # SETTINGS THEN {0} ELSE on[0]

wt_http3_validate_peer_settings(settings) == settings = WANTED

-----------------------------------------------------------------------------
(* Datagrams *)

wt_datagrams_encode(flow, payload) == wt_http3_encode_varint(flow) \o payload

wt_datagrams_decode(datagram) ==
  LET flow == wt_http3_decode_varint(datagram, 0) IN
  IF flow.ok THEN Read([flow |-> flow.value,
                        payload |-> SubSeq(datagram, flow.end + 1, Len(datagram))],
                       Len(datagram))
  ELSE Unreadable

-----------------------------------------------------------------------------
(* QPACK: the request *)

\* What a prefix of n bits cannot hold follows in groups of seven bits, the low ones first.
\* Bound: five groups hold the values that are told apart.
GroupsFor(value) ==
  IF value < 128 THEN 1 ELSE IF value < 128 ^ 2 THEN 2 ELSE IF value < 128 ^ 3 THEN 3
  ELSE IF value < 128 ^ 4 THEN 4 ELSE 5

Groups(value) ==
  [i \in 1..GroupsFor(value) |->
     ((value \div 128 ^ (i - 1)) % 128) + (IF i < GroupsFor(value) THEN 128 ELSE 0)]

wt_qpack_encode_prefixed_integer(bits, mask, value) ==
  LET max == 2 ^ bits - 1 IN
  IF value < max THEN <<mask + value>> ELSE <<mask + max>> \o Groups(value - max)

wt_qpack_encode_string_literal(text) ==
  wt_qpack_encode_prefixed_integer(7, 0, Len(text)) \o text

wt_qpack_encode_static_index(index) == wt_qpack_encode_prefixed_integer(6, 192, index)

wt_qpack_encode_literal_with_static_name(index, value) ==
  wt_qpack_encode_prefixed_integer(4, 80, index) \o wt_qpack_encode_string_literal(value)

wt_qpack_encode_header_field(header) ==
  wt_qpack_encode_prefixed_integer(3, 32, Len(header[1])) \o header[1]
  \o wt_qpack_encode_string_literal(header[2])

\* The names of the authority and of the path are mixed up.
RequestField_NamesSwapped(header) ==
  CASE header = <<Method, Connect>> -> wt_qpack_encode_static_index(15)
    [] header = <<Scheme, HttpsScheme>> -> wt_qpack_encode_static_index(23)
    [] header[1] = Authority -> wt_qpack_encode_literal_with_static_name(1, header[2])
    [] header[1] = Path -> wt_qpack_encode_literal_with_static_name(0, header[2])
    [] OTHER -> wt_qpack_encode_header_field(header)

\* Headers the static table has, or whose name it has, are written as their index.
RequestField(header) ==
  CASE header = <<Method, Connect>> -> wt_qpack_encode_static_index(15)
    [] header = <<Scheme, HttpsScheme>> -> wt_qpack_encode_static_index(23)
    [] header[1] = Authority -> wt_qpack_encode_literal_with_static_name(0, header[2])
    [] header[1] = Path -> wt_qpack_encode_literal_with_static_name(1, header[2])
    [] OTHER -> wt_qpack_encode_header_field(header)

wt_qpack_encode_webtransport_request_headers(headers) ==
  <<0, 0>> \o FlattenSeq([i \in DOMAIN headers |-> RequestField(headers[i])])

\* The caller's headers, one in a line: a blank line is skipped, a line without a name
\* is an error (<<>>).
HeaderLine(line) == IF line = <<>> THEN <<>> ELSE wt_qpack_encode_header_field(line)

wt_http3_append_serialized_headers(block, lines) ==
  IF \E i \in DOMAIN lines : lines[i] # <<>> /\ lines[i][1] = <<>> THEN <<>>
  ELSE block \o FlattenSeq([i \in DOMAIN lines |-> HeaderLine(lines[i])])

\* The frame of the request, or <<>> when there is none to make.
wt_http3_encode_webtransport_connect(authority, path, lines) ==
  LET block == wt_http3_append_serialized_headers(
                 wt_qpack_encode_webtransport_request_headers(
                   << <<Method, Connect>>, <<Protocol, WebTransport>>, <<Scheme, HttpsScheme>>,
                      <<Authority, authority>>, <<Path, path>> >>), lines)
  IN IF authority = <<>> \/ path = <<>> \/ block = <<>> THEN <<>> ELSE Frame(HEADERS, block)

-----------------------------------------------------------------------------
(* QPACK: the answer *)

wt_qpack_static_status(index) ==
  CASE index = 25 -> 200 [] index = 26 -> 204 [] index = 27 -> 206 [] index = 28 -> 304
    [] index = 29 -> 400 [] index = 30 -> 404 [] index = 31 -> 500 [] OTHER -> 0

StatusNames == {24, 25, 63, 64, 65, 67, 71}

\* An integer in the low bits of the byte before the offset and, when they are all set,
\* in the groups after it, nine at most.
PrefixedAt(data, offset, bits) ==
  LET max == 2 ^ bits - 1
      low == data[offset] % 2 ^ bits
      from[i \in (offset + 1)..(offset + 10)] ==
        IF i > offset + 9 \/ i > Len(data) THEN Unreadable
        ELSE IF data[i] < 128 THEN Read(data[i], i)
        ELSE IF ~from[i + 1].ok THEN Unreadable
        ELSE Read((data[i] % 128) + 128 * from[i + 1].value, from[i + 1].end)
      groups == from[offset + 1]
  IN IF low < max THEN Read(low, offset)
     ELSE IF groups.ok THEN Read(max + groups.value, groups.end)
     ELSE Unreadable

TextAt(data, offset, length) ==
  IF length > Len(data) - offset THEN Unreadable
  ELSE Read(SubSeq(data, offset + 1, offset + length), offset + length)

\* The length of a value is the low seven bits of one byte.
ValueAt(data, offset) ==
  IF offset >= Len(data) THEN Unreadable ELSE TextAt(data, offset + 1, data[offset + 1] % 128)

Digits == 48..57
Number(text) ==
  LET upTo[i \in 0..Len(text)] == IF i = 0 THEN 0 ELSE 10 * upTo[i - 1] + (text[i] - 48)
  IN upTo[Len(text)]

\* What a field that tells no status tells: no three digits make it, but 000 makes 0.
NoStatus == 1000

\* A field line that tells the status, if it is named so and three characters long.
StatusOf(named, value) ==
  IF ~value.ok THEN Unreadable
  ELSE IF ~named \/ Len(value.value) # 3 THEN Read(NoStatus, value.end)
  ELSE IF \A i \in 1..3 : value.value[i] \in Digits THEN Read(Number(value.value), value.end)
  ELSE Unreadable

FieldAt(data, offset) ==
  LET first == data[offset + 1]
      index == PrefixedAt(data, offset + 1, 4)
      length == PrefixedAt(data, offset + 1, 3)
      name == TextAt(data, length.end, length.value)
      known == wt_qpack_static_status(first % 64)
  IN CASE first >= 192 -> Read(IF known = 0 THEN NoStatus ELSE known, offset + 1)
       [] first \in 64..127 ->
            IF index.ok THEN StatusOf(index.value \in StatusNames, ValueAt(data, index.end))
            ELSE Unreadable
       [] first \in 32..63 ->
            IF length.ok /\ name.ok THEN StatusOf(name.value = Status, ValueAt(data, name.end))
            ELSE Unreadable
       [] OTHER -> Unreadable

\* The status the first field that tells one tells, 0 for none or unreadable fields before.
wt_qpack_decode_status(data) ==
  LET status[offset \in 2..Len(data)] ==
        LET field == FieldAt(data, offset) IN
        IF offset = Len(data) \/ ~field.ok THEN 0
        ELSE IF field.value # NoStatus THEN field.value
        ELSE status[field.end]
  IN IF Len(data) < 2 THEN 0 ELSE status[2]

Accepts(status) == status \in 200..299

\* What a frame says of the request, if it is an answer.
Verdicts(frame) ==
  IF frame.type = HEADERS THEN {Accepts(wt_qpack_decode_status(frame.payload))} ELSE {}

\* A frame that is not all there is taken out of the buffer without its header.
Scan_HeaderLost(data) ==
  LET from[offset \in 0..Len(data)] ==
        LET frame == FrameAt(data, offset)
            type == wt_http3_decode_varint(data, offset)
        IN IF ~frame.ok THEN [verdicts |-> {}, end |-> IF type.ok THEN type.end ELSE offset]
           ELSE [from[frame.end] EXCEPT !.verdicts = @ \union Verdicts(frame.value)]
  IN from[0]

\* The frames in the buffer of the request stream: what each HEADERS frame says, and
\* where the first frame that is not all there begins.
Scan(data) ==
  LET from[offset \in 0..Len(data)] ==
        LET frame == FrameAt(data, offset) IN
        IF ~frame.ok THEN [verdicts |-> {}, end |-> offset]
        ELSE [from[frame.end] EXCEPT !.verdicts = @ \union Verdicts(frame.value)]
  IN from[0]

-----------------------------------------------------------------------------
(* The URL *)

Colon == 58
Slash == 47

\* The first place of a character from an offset on, or the end.
Find(text, char, offset, end) ==
  LET found == {i \in offset..(end - 1) : text[i + 1] = char} IN
  IF found = {} THEN end ELSE CHOOSE i \in found : \A j \in found : i <= j

BadUrl == [ok |-> FALSE]

\* What the fields of a parsed URL have room for.
HostFits(length) == length \in 1..255
PortFits(port) == port \in 1..65535
PathFits(length) == length < 1024

wt_url_parse_https(url) ==
  LET end == Find(url, Slash, 8, Len(url))
      hostEnd == Find(url, Colon, 8, end)
      port == SubSeq(url, hostEnd + 2, end)
      path == SubSeq(url, end + 1, Len(url))
  IN IF \/ ~IsPrefix(Https, url)
        \/ ~HostFits(hostEnd - 8)
        \/ hostEnd < end /\ ( \/ port = <<>>
                              \/ \E i \in DOMAIN port : port[i] \notin Digits
                              \/ ~PortFits(Number(port)) )
        \/ ~PathFits(Len(path))
     THEN BadUrl
     ELSE [ok |-> TRUE,
           host |-> SubSeq(url, 9, hostEnd),
           port |-> IF hostEnd < end THEN Number(port) ELSE 443,
           path |-> IF path = <<>> THEN <<Slash>> ELSE path]

\* %u of a port
Decimal(n) ==
  LET length == IF n < 10 THEN 1 ELSE IF n < 100 THEN 2 ELSE IF n < 1000 THEN 3
                ELSE IF n < 10000 THEN 4 ELSE 5
  IN [i \in 1..length |-> 48 + ((n \div 10 ^ (length - i)) % 10)]

AuthorityOf(url) ==
  IF url.port = 443 THEN url.host ELSE url.host \o <<Colon>> \o Decimal(url.port)

=============================================================================
