\* One peer resets its connection while another is heard.
CONSTANTS
  c1 = c1
  c2 = c2
  c3 = c3
  lan = lan
  Conns = {c1, c2}
  Endpoints <- MCEndpoints
  Claimed <- Direct
  MaxFrames = 1
  Resettable <- OnlyC1
  Sends <- WholeOnly
SPECIFICATION Spec
PROPERTY BroadcastReachesAll
CHECK_DEADLOCK FALSE
