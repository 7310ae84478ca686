---------------------------- MODULE RemReportsMC ----------------------------
(***************************************************************************)
(* Instances of RemReports for TLC.                                        *)
(***************************************************************************)
EXTENDS RemReports

CONSTANTS leaf, near, top, mid, server

\* leaf has one parent, near, near has top, which is connected to the server
\* and to mid, the last device before the server.
MCUp == leaf :> {near} @@ near :> {top} @@ top :> {mid, server} @@ mid :> {server}

\* leaf and its parent report, leaf logs.
MCReports == leaf :> 1 @@ near :> 1 @@ top :> 0 @@ mid :> 0
MCLogs == leaf :> 1 @@ near :> 0 @@ top :> 0 @@ mid :> 0
=============================================================================
