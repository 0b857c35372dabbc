\* Two streams; frame numbers that start again in files with more frames than a Datum has.
SPECIFICATION Spec
CONSTANTS
  d1 = d1  d2 = d2  primary = primary  baseline = baseline
  Descriptors = {d1, d2}
  Runs <- MCRuns
  Image = "image"
  MinFrames = 3
  MaxSize = 2
  NumDatums = 5
  NumResources = 3
INVARIANTS ResourceOnceBeforeDatum EveryValueEmitted FramesTile
\* The run ends.
CHECK_DEADLOCK FALSE
