----------------------------- MODULE RemMeshMC -----------------------------
(***************************************************************************)
(* Instances of RemMesh, cut out of the mesh that                          *)
(* RemPythonClient/client_local_1/run.sh starts: the root, 110 and 120     *)
(* attached to it, 210 attached to 110.                                    *)
(***************************************************************************)
EXTENDS RemMesh, TLC

CONSTANTS d0, d110, d120, d210

\* Two devices.
PairDevice == {d0, d110}
PairAttach == d110 :> d0
PairDepth  == (d0 :> 0) @@ (d110 :> 1)

\* A device behind a device.
ChainDevice == {d0, d110, d210}
ChainAttach == (d110 :> d0) @@ (d210 :> d110)
ChainDepth  == (d0 :> 0) @@ (d110 :> 1) @@ (d210 :> 2)

\* Two devices attached to the root.
StarDevice == {d0, d110, d120}
StarAttach == (d110 :> d0) @@ (d120 :> d0)
StarDepth  == (d0 :> 0) @@ (d110 :> 1) @@ (d120 :> 1)
=============================================================================
