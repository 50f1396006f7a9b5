CONSTANTS
  MaxLenField = 14
  Streams <- MCFlukeStreams
SPECIFICATION Spec
INVARIANT
  NoneMeansNoFrameInTheBuffer
