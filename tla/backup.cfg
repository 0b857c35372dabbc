\* A backup directory and a backup dictionary, and a run that outgrows the buffer,
\* posted to a server and read back, each with one retry.
SPECIFICATION InserterSpec
CONSTANTS
  directory = directory  dictionary = dictionary
  Backups = {directory, dictionary}
  Files = {directory}
  MaxLen = 3
  NumDocs = 4
  MaxOthers = 1
  Attempts = 2
  MaxLost = 2
INVARIANTS PrimaryHasPrefix RunIsNotSplit ReadBack InsertedInOrder DocumentsEndWithRun
\* The run ends.
CHECK_DEADLOCK FALSE
