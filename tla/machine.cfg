SPECIFICATION Spec
CONSTANTS
  no_pair = no_pair
  q1 = q1  q2 = q2  q3 = q3  x = x  y = y
INVARIANTS
  LiveIsKept GarbageFreed HeapPartition SameGraph OneWeakPointerEach
  NeverFatal ArithmeticExact OperandsKept CallsRight SignalsHandled WindsMatch WorldKept
PROPERTIES ImplementsStack ImplementsFifo
\* Some parts come to an end: tables and heaps are full, bounds are reached.
CHECK_DEADLOCK FALSE
