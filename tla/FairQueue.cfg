SPECIFICATION FairSpec
CONSTANTS
  Callers = {c1, c2, c3, c4}
  CLIENTS <- MCClients
  per_client = 2
  capacity = 3
  MaxDirect = 1
INVARIANTS OneOnTheBus TicketsAreWaiters BoundedBypass
PROPERTIES WaiterIsServed StopDrains
