---------------------------- MODULE MCEventTables ---------------------------
(***************************************************************************)
(* A small instance of RunExport and EventTables for TLC.                  *)
(***************************************************************************)
EXTENDS RunExport

CONSTANTS primary, baseline

\* The columns of primary are too many for one table; seq_num is in the first.
MCParts == [s \in Streams |-> IF s = primary THEN 2 ELSE 1]
MCSeqNumPart == [s \in Streams |-> 1]

\* A stream that may be exported gets another descriptor.
MCMaxDescriptors == [s \in Streams |-> IF s = primary THEN 1 ELSE 2]
=============================================================================
