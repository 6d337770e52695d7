\* Two connects, one after the other, with every answer, piece and failure.
SPECIFICATION Spec
CONSTANTS
  Urls <- ThreeUrls
  Headers <- ThreeHeaders
  Answers <- SomeAnswers
  Datagrams <- SomeDatagrams
  RequestStreamId = 0
  Limit = 10
INVARIANTS
  HandshakeTypeOK
  PiecesDoNotMatter
  VerdictIsAnnounced
  ConnectedOnce
  DatagramsAreOurs
PROPERTIES
  PeerReadsWhatWasMeant
CHECK_DEADLOCK FALSE
