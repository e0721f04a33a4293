--------------------------- MODULE MCTcpTransport ---------------------------
(* Small instances of TcpTransport for TLC. *)
EXTENDS TcpTransport

Packet(id, size) == [i \in 1..size |-> [id |-> id, size |-> size]]

(* A packet of one unit, two that need several reads or share one, and one *)
(* that is longer than the buffer.                                         *)
ManyPackets == <<Packet(1, 1), Packet(2, 3), Packet(3, 2), Packet(4, 4)>>
=============================================================================
