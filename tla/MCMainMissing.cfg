\* Dependencies are missing and nothing else fails.
CONSTANTS
  p = p
  b = b
  bad = bad
  lo = lo
  eth0 = eth0
  eth1 = eth1
  part = part
  None = None
  Torn = Torn
  Earlier = Earlier
  Packet <- MCPacket
  MaxLive = 2
  IfaceLists <- MCIfaceLists
  Interfaces <- MCInterfaces
  EndsWith <- MCEndsWith
  TestPcap <- MCTestPcap
  MayFail <- MCMayFail
  Bad <- MCBad
  Captures <- MCCaptures
  Environments <- MCEnvironments
  Failures <- MCNothing
SPECIFICATION MCSpec
INVARIANTS
  MissingDependencyEndsNothing
