SPECIFICATION Spec
CONSTANTS
  eth = eth
  wifi = wifi
  ip = ip
  IP = IP
  TOTAL = TOTAL
  Constructors = {eth, wifi, ip}
  StatOf <- MCStatOf
  FdLimit = 2
  Keys <- MCKeys
  SysLines = 3
  YMax = 3
  MsgRows = {1, 2}
  MaxPackets = 2
INVARIANT ScreenCleansUp
