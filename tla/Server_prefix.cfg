CONSTANTS
  p1 = p1
  p2 = p2
  s1 = s1
  s2 = s2
  old = old
  broken = broken
  greeter = greeter
  greeterV2 = greeterV2
  hello = hello
  Process = {p1, p2}
  Server = {s1, s2}
  Home <- Apart
  Program <- Programs
  Plugins <- AllPlugins
  Service = {old, broken, greeter, greeterV2}
  Valid = {old, greeter, greeterV2}
  Methods <- SameMethod
  Extends <- Prefix
  Client = {c}
  MaxCalls = 1
  MaxStarts = 1
  None = None
SPECIFICATION Spec
INVARIANTS RightService
CHECK_DEADLOCK FALSE
