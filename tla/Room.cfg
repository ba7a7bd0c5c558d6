\* A peer behind a NAT that sends frames of every kind and may reset, and one that
\* sends one message.
CONSTANTS
  c1 = c1
  c2 = c2
  c3 = c3
  lan = lan
  Conns = {c1, c2}
  Endpoints <- MCEndpoints
  Claimed <- Translated
  MaxFrames = 2
  Resettable <- OnlyC1
  Sends <- MostlyC1
SPECIFICATION LiveSpec
INVARIANT TypeOK
INVARIANT OperationDiscipline
INVARIANT Registry
INVARIANT Departures
INVARIANT OneOrder
PROPERTY ImplementsBroadcast
PROPERTY EveryoneIsAdmitted
PROPERTY TheGoneAreRemoved
PROPERTY QueuesDrain
\* A server that nobody connects to any more has nothing to do.
CHECK_DEADLOCK FALSE
