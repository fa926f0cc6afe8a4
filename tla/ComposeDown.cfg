SPECIFICATION FairSpec
CONSTANTS
  a = a
  b = b
  home = home
  other = other
  work = work
  n1 = n1
  n2 = n2
  Runners = {a}
  Names = {n1}
  Dirs = {home}
  Works = {work}
  NoDir = NoDir
  NoRunner = NoRunner
  Configs <- ComposeConfigs
  Faults = {}
PROPERTIES
  StopDeregisters
