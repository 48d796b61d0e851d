\* A request as big as the space, or one that leaves no word.
CONSTANTS
  RECLAIM_FACTOR = 3
  OriginalSize = 3
  MaxAmount = 4
  MaxWords = 7
SPECIFICATION Spec
INVARIANT NeverExhausted
