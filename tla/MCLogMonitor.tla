---------------------------- MODULE MCLogMonitor ----------------------------
(* A writer, a client that streams the log and one that follows the events.*)
EXTENDS LogMonitor
CONSTANTS w1, conn, stream, events

MCSizeOf == <<2, 2, 4>>
MCConn == [c \in {events} |-> conn]
=============================================================================
