CONSTANTS
  p1 = p1
  p2 = p2
  s1 = s1
  s2 = s2
  old = old
  broken = broken
  greeter = greeter
  greeterV2 = greeterV2
  hello = hello
  Process = {p1, p2}
  Server = {s1, s2}
  Home <- Apart
  Program <- Programs
  Plugins <- AllPlugins
  Service = {old, broken, greeter, greeterV2}
  Valid = {old, greeter, greeterV2}
  Methods <- SameMethod
  Extends <- NoPrefix
  Client = {c}
  MaxCalls = 3
  MaxStarts = 2
  None = None
SPECIFICATION Spec
INVARIANTS TypeOK RightService HandlerReady ListenersAreListed AtMostOneMore
CHECK_DEADLOCK FALSE
