\* One mutator of the mark-sweep build, which follows no weak pointer.
CONSTANTS
  HeapSize = 2
  Mutators = {1}
  StackDepth = 2
  Shallow = {}
  SweepBlock = 1
  WeakLoads = {}
SPECIFICATION Spec
INVARIANT NothingLiveIsFree
