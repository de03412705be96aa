CONSTANTS
  Names = {a, b}
  Ports <- MCPorts
  Ephemeral <- MCEphemeral
  Requests <- MCRequests
  None = None
SPECIFICATION Spec
INVARIANT PortsDisjoint
