---------------------------- MODULE MCHandshake ----------------------------
(***************************************************************************)
(* Instances of the handshake: two connects after one with a URL that is   *)
(* refused, and a single connect with a server that refuses.               *)
(***************************************************************************)
EXTENDS Handshake

Host == Text(20, 3)
NoHost == Https \o <<58, 52>>                              \* https://:4
WithPort == Https \o Host \o <<58, 48, 56, 52, 52, 51>>    \* https://host:08443
WithPath == Https \o Host \o <<47>> \o Text(21, 130)       \* https://host/...

ThreeUrls == <<NoHost, WithPort, WithPath>>
OneUrl == <<WithPort>>

\* Lengths at which a prefix integer of 3 or 7 bits goes on; a blank line.
ThreeHeaders == << <<>>,
                   << <<>>, <<Text(22, 7), Text(23, 127)>> >>,
                   << <<Text(24, 6), Text(23, 1)>> >> >>
OneHeaders == << <<>> >>

\* HEADERS frames with one field line, a frame of an unknown type, and a frame two
\* bytes too long for the buffer, which may hold all but the last of it.
Section(line) == Frame(HEADERS, <<0, 0>> \o line)
OK200 == Section(<<192 + 25>>)
Static404 == Section(<<192 + 27>>)
Literal404 == Section(<<95, 9, 3, 52, 48, 52>>)
Unknown == <<64, 33, 0>>
Long == <<0, 10>> \o [i \in 1..10 |-> 1]

SomeAnswers == { <<Unknown, OK200>>, <<Literal404>>, <<Long>>, <<Static404, OK200>> }
Refusal == { <<Static404>> }

\* The flow of the session in eight bytes, another flow, and no flow.
SomeDatagrams == { <<192, 0, 0, 0, 0, 0, 0, 0, 7>>, <<1, 7>>, <<64>> }
=============================================================================
