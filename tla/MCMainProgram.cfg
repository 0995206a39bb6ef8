\* Any input, any environment, any phase failing.
CONSTANTS
  p = p
  b = b
  bad = bad
  lo = lo
  eth0 = eth0
  eth1 = eth1
  part = part
  None = None
  Torn = Torn
  Earlier = Earlier
  Packet <- MCPacket
  MaxLive = 2
  IfaceLists <- MCIfaceLists
  Interfaces <- MCInterfaces
  EndsWith <- MCEndsWith
  TestPcap <- MCTestPcap
  MayFail <- MCMayFail
  Bad <- MCBad
  Captures <- MCCaptures
  Environments <- MCEnvironments
  Failures <- MCFailures
SPECIFICATION MCSpec
INVARIANTS
  LiveOrReplay
  MainTypeOK
  OutputsInOrder
  SinksAgree
  SameTrafficForBoth
