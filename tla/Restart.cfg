\* Two commands, both restart policies, with and without signals; one fault.
CONSTANTS
  c1 = c1  c2 = c2
  Commands = {c1, c2}
  Policies = {"always", "on-failure"}
  Platforms = {TRUE, FALSE}
  MaxFaults = 1
  NoCommand = NoCommand
SPECIFICATION FairSpec
INVARIANT SuccessIsEarned
INVARIANT StoppedInReverse
PROPERTY EveryRestartIsReported
CHECK_DEADLOCK FALSE
