SPECIFICATION Spec
CONSTANTS
  Buffers = {b1, b2, b3, b4, b5, b6}
  Times <- ThreeTimes
SYMMETRY Symmetry
INVARIANTS IndexesPointBack HeapOrdered
PROPERTY ImplementsPurgeQueue
