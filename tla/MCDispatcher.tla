---------------------------- MODULE MCDispatcher ----------------------------
(***************************************************************************)
(* A small instance of Dispatcher for TLC.                                 *)
(***************************************************************************)
EXTENDS Dispatcher

CONSTANTS f, g
=============================================================================
