\* Two peers that send frames of every kind and may reset.
CONSTANTS
  c1 = c1
  c2 = c2
  c3 = c3
  lan = lan
  Conns = {c1, c2}
  Endpoints <- MCEndpoints
  Claimed <- Direct
  MaxFrames = 2
  Resettable <- Everybody
  Sends <- AllKinds
SPECIFICATION Spec
INVARIANT TypeOK
INVARIANT OperationDiscipline
INVARIANT Registry
INVARIANT Departures
INVARIANT OneOrder
PROPERTY ImplementsBroadcast
SYMMETRY Peering
\* A server that nobody connects to any more has nothing to do.
CHECK_DEADLOCK FALSE
