-------------------------------- MODULE MCDaemon --------------------------------
(***************************************************************************)
(* Daemon for TLC: the streams have ports of their own.                    *)
(***************************************************************************)
EXTENDS Daemon

OwnPorts == [s \in 1 .. N |-> s]

=============================================================================
