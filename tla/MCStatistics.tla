---------------------------- MODULE MCStatistics ----------------------------
(* A cycle of eight packets of which half may be escalated, and a part of the *)
(* next; the monitor is started among the first packets.                     *)
EXTENDS PacketMonitor
=============================================================================
