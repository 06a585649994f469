SPECIFICATION PoolSpec
CONSTANTS
  BlockCount = 3
  Holders = {h1, h2}
  Free = Free
  Used = Used
  Acks = Acks
  Messages = Messages
  Null = Null
  Junk = Junk
  Nowhere = Nowhere
  Shifted = Shifted
  Chunk = Chunk
  Wild = Wild
  Stale = Stale
INVARIANT AcknowledgementIsQueued
CHECK_DEADLOCK FALSE
SYMMETRY Sym
