------------------------- MODULE MCUnlockedReaders -------------------------
(* A small instance of UnlockedReaders for TLC: as few ports as let another  *)
(* VM get the port of one that was deleted.                                  *)
EXTENDS UnlockedReaders

MCPorts == 1..2
MCEphemeral == 1..2
MCRequests == {<<>>}
=============================================================================
