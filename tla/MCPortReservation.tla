------------------------- MODULE MCPortReservation -------------------------
(* Small instances of PortReservation for TLC. *)
EXTENDS PortReservation

(* Port 1 can only be asked for; the others are also what the kernel hands   *)
(* out: few enough for it to run out, or enough for every create.            *)
MCPorts == 1..4
MCEphemeral == 2..4
ManyPorts == 1..6
ManyEphemeral == 2..6

(* 0 asks for any port.  A list that repeats a port is refused.              *)
MCRequests == {<<>>, <<1>>, <<0, 0>>}
ManyRequests == {<<>>, <<1>>, <<2>>, <<0, 0>>, <<1, 1>>}
=============================================================================
