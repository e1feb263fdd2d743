\* Two lines that pass the filter and one that does not, room for one of them in
\* the channel, and two things that go wrong between the sink and the collector.
\* The relay ends when its source gives up or a signal arrives.
SPECIFICATION FairSpec
CONSTANTS
  Log <- MCLog
  Include = TRUE
  BufferCap = 1
  MaxRetries = 2
  SourceDelay = 1
  SourceDelayMax = 2
  SinkDelay = 1
  SinkDelayMax = 2
  SinkIdles = TRUE
  WriteTimesOut = TRUE
  Modes = {"tcp", "stdout"}
  MaxTrouble = 2
  NoLine = NoLine
CHECK_DEADLOCK FALSE
INVARIANTS
  SinkKeepsLines
  WritesInOrder
  GivesUpAfterFailures
PROPERTIES
  LinesArrive
