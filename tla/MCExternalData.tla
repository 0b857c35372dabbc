--------------------------- MODULE MCExternalData ---------------------------
(***************************************************************************)
(* Small instances of ExternalData for TLC; all constants are numbers.     *)
(***************************************************************************)
EXTENDS ExternalData
=============================================================================
