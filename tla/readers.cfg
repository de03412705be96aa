CONSTANTS
  Names = {a, b}
  Ports <- MCPorts
  Ephemeral <- MCEphemeral
  Requests <- MCRequests
  Readers = {r}
  None = None
SPECIFICATION FairReaders
INVARIANT ReadersInv
INVARIANT ListExact
INVARIANT AnswerExact
PROPERTY SessionAtHome
PROPERTY Answered
