\* Datums of up to 4 frames in files of 1 or several, up to three StreamResources.
SPECIFICATION ReexportSpec
CONSTANTS
  Shapes <- MCShapes
  ChunkShapes <- MCChunkShapes
  Multipliers = {0, 3}
  FilesPerDatum = {0, 2}
  MaxRows = 4
  MaxResources = 3
INVARIANTS ChunksTileShape FilesHoldFrames OrigChunksFit FilesRestartAtZero ReexportedAlike
\* No more documents within the bounds.
CHECK_DEADLOCK FALSE
