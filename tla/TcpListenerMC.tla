---------------------------- MODULE TcpListenerMC ----------------------------
(***************************************************************************)
(* Instances of TcpListener: two packets of different sizes.               *)
(***************************************************************************)
EXTENDS TcpListener, TLC

CONSTANTS short, long

PacketSizes == (short :> 2) @@ (long :> 3)
=============================================================================
