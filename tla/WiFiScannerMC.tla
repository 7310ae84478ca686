---------------------------- MODULE WiFiScannerMC ----------------------------
(***************************************************************************)
(* Instances of WiFiScanner for TLC.                                       *)
(***************************************************************************)
EXTENDS WiFiScanner

CONSTANTS near, far, stranger

\* The stranger has the strongest signal and is not valid.
MCRssi == near :> -50 @@ far :> -60 @@ stranger :> -40
MCChannel == near :> 1 @@ far :> 6 @@ stranger :> 11
=============================================================================
