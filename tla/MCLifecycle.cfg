CONSTANTS
  Programs <- MCPrograms
  Units = 2
  MaxSamples = 2
SPECIFICATION Spec
CHECK_DEADLOCK FALSE
INVARIANT TypeOK
INVARIANT CrashOnlyWithoutWriters
INVARIANT FailsBeforeServing
INVARIANT SuccessLeavesNothing
PROPERTY SignalEnds
PROPERTY StartupEnds
