\* One service that writes a line to each of its two streams and a session
\* log that may not open, a channel of two events and a tail of one line.
CONSTANTS
  api = api
  out = out
  err = err
  Order <- InOrder
  Stream = {out, err}
  Broken = {"_arig"}
  Capacity = 2
  TailLines = 1
  MaxLines <- Lines
SPECIFICATION FairSpec
INVARIANTS NoSilentGap DrainMeansWritten OneComplaint DumpIsTheEnd OnlyMissedRowsAreStale
PROPERTIES DrainEnds
CHECK_DEADLOCK FALSE
CONSTRAINTS OneIsBehind OneOddStream
