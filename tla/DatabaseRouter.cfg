SPECIFICATION RouterSpec
CONSTANTS
  Session = {a, b}
  NReaders = 2
  Sticky = TRUE
  MaxChanges = 2
  None = None
SYMMETRY SessionSymmetry
INVARIANTS OneReplica NoLostUpdate ReadOnlyLeavesNoTrace
PROPERTIES SessionMonotonic
