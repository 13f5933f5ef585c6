SPECIFICATION FairSpec
CONSTANTS
  Runs = {"r1", "r2"}
  Actions = {"act"}
  ActionOf <- MCActionOf
  Callers = {c1, c2}
  NoOne = NoOne
  NoRun = NoRun
  NoAction = NoAction
  MaxEpoch = 2
  MaxFaults = 1
CHECK_DEADLOCK FALSE
INVARIANTS
  DispatchIsSound
PROPERTIES
  AuthorityIsLive
  ControlIsReleased
  DispatchIsOneShot
