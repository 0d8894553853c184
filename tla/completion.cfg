SPECIFICATION Spec
CONSTANTS
  Streams <- MCStreams  Documents <- MCDocuments
  MaxEventBytes = 4  MaxProbeBytes = 12  MaxDocuments = 4
INVARIANTS TypeOK VerdictOfWhole EventsJudged ProbeAgrees
CHECK_DEADLOCK FALSE
