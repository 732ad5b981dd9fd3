------------------------------ MODULE MCRtspLoops ------------------------------
(***************************************************************************)
(* RtspLoops for TLC: three streams, of which the last two are configured  *)
(* with one port (AddStream looks at the URLs only).                       *)
(***************************************************************************)
EXTENDS RtspLoops, TLC

CONSTANTS port1, port2

SharedPort == (1 :> port1) @@ (2 :> port2) @@ (3 :> port2)

=============================================================================
