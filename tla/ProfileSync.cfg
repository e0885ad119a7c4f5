SPECIFICATION UsualSpec
CONSTANTS
  LastId = 1
  Systems = {A, B}
  Ref = A
  Copies = {1, 2}
  Zero = Zero
  Offsets = {Zero, Cal}
  None = None
  MaxEvents = 3
INVARIANT CacheCoherent
PROPERTIES BlendsOnlyWhatMoves ProfileReaches
