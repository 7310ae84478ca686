----------------------------- MODULE LinuxNodeMC -----------------------------
(***************************************************************************)
(* Instances of LinuxNode for TLC.                                         *)
(***************************************************************************)
EXTENDS LinuxNode

CONSTANTS h1, h2

\* Both hosts are in the list of clients.
MCHosts == <<h1, h2>>
=============================================================================
