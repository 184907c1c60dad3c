\* All words of the bus; two buffers of two samples.
CONSTANTS
  Values <- MCValues
  Statuses <- MCStatuses
  BufferLength = 2
  MaxBuffers = 2
SPECIFICATION SamplesSpec
INVARIANTS
  WrittenAsWired
  HostRecoversWord
  DetangleElsewhere
  ColumnsShown
  ValuesSurvive
  StatusAccumulates
CHECK_DEADLOCK FALSE
