--------------------------- MODULE MCBackupFiles ----------------------------
(***************************************************************************)
(* A small instance of InsertedRun for TLC.                                *)
(***************************************************************************)
EXTENDS InsertedRun

CONSTANTS directory, dictionary
=============================================================================
