\* A server that refuses the request.
SPECIFICATION Spec
CONSTANTS
  Urls <- OneUrl
  Headers <- OneHeaders
  Answers <- Refusal
  Datagrams = {}
  RequestStreamId = 0
  Limit = 10
INVARIANTS
  ConnectedMeansAccepted
CHECK_DEADLOCK FALSE
