SPECIFICATION FairSpec
CONSTANTS
  Launchers = {"gha", "setup"}
  MaxLaunches = 3
  Faults <- AnyFault
CHECK_DEADLOCK FALSE
INVARIANTS
  NoWaiterLeft
  PatIsGone
PROPERTIES
  LaunchEnds
  WaiterServed
