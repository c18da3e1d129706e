CONSTANTS
  Workers = {w1}
  Flusher = main
  Cap = 1
  MaxLines = 2
  Job = j1
  OtherJobs = {j2}
  OtherLines = 1
  Chains = {k1, k2}
  Limit = 1
  MaxDisturbed = 1
  Nil = Nil
SPECIFICATION TraceSpec
CHECK_DEADLOCK FALSE
INVARIANT LinesAccounted
PROPERTIES JobLogImplemented FlushReturns LinesAppear
