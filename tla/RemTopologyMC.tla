---------------------------- MODULE RemTopologyMC ----------------------------
(***************************************************************************)
(* Instances of RemTopology: the server, a device attached to it and one   *)
(* that is attached to either.                                             *)
(***************************************************************************)
EXTENDS RemTopology

CONSTANTS session, d1, d2

Ids == {session, d1, d2}
Reports == {<<d1, session>>, <<d2, d1>>, <<d2, session>>}
=============================================================================
