\* Two calls of any operation, one slot in every pool, two attempts, a fault.
SPECIFICATION Spec
CONSTANTS
  c1 = c1
  c2 = c2
  Callers = {c1, c2}
  Wanted <- Mixed
  MaxAttempts = 2
  Patience = 2
  Deadline <- ConnectorDeadlines
  Capacity <- OneSlot
  MaxFaults = 1
INVARIANTS
  HandlersAreAwaited
PROPERTIES
  ImplementsBoundedCall
  SlotsComeBack
