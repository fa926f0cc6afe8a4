SPECIFICATION Spec
CONSTANTS
  a = a
  b = b
  home = home
  other = other
  work = work
  n1 = n1
  n2 = n2
  Runners = {a, b}
  Names = {n1, n2}
  Dirs = {home, other}
  Works = {work}
  NoDir = NoDir
  NoRunner = NoRunner
  Configs <- AbsoluteConfigs
  Faults = {}
INVARIANTS
  OneRunnerPerRoot
