------------------------------- MODULE MCOMS -------------------------------
(***************************************************************************)
(* The OMS alone, for TLC.  The .cfg files give the constants.             *)
(***************************************************************************)
EXTENDS OMS
=============================================================================
