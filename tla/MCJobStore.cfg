CONSTANTS
  Machines = {m1, m2}
  Images = {i1, i2}
  Stages <- MCStages
  Nil = Nil
  MaxJobs = 3
  MaxTime = 2
SPECIFICATION Spec
INVARIANTS TypeOK OneInFlight FinishedStamps
PROPERTIES OutcomeIsFinal MutexImplemented
SYMMETRY MCSymmetry
