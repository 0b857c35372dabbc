\* Two streams, of two tables and of one, with and without a backup.
SPECIFICATION ExportSpec
CONSTANTS
  primary = primary  baseline = baseline
  NoStream = NoStream
  Streams = {primary, baseline}
  ArrayStreams = {primary, baseline}
  Parts <- MCParts
  SeqNumPart <- MCSeqNumPart
  BatchSize = 2
  Retries = 2
  NumEvents = 3
  MaxFaults = 3
  MaxDescriptors <- MCMaxDescriptors
INVARIANTS RowsAppearInOrder TablesComplete DuplicatesNoted ArraysAligned ClosedIsFinal ExportIsComplete ExportIsFaithful
PROPERTY TransientIsSurvived
\* The run ends.
CHECK_DEADLOCK FALSE
