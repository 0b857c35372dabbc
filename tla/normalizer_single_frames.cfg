\* Frame numbers that start again, in files of one frame.
SPECIFICATION Spec
CONSTANTS
  d1 = d1  d2 = d2  primary = primary  baseline = baseline
  Descriptors = {d1}
  Runs <- MCRuns
  Image = "image"
  MinFrames = 1
  MaxSize = 1
  NumDatums = 3
  NumResources = 3
INVARIANT FramesTile
\* The run ends.
CHECK_DEADLOCK FALSE
