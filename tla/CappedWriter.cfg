CONSTANTS
  Writers = {w1, w2}
  Readers = {r1}
  Nobody = Nobody
  a = a
  b = b
  Byte <- MCByte
  Chunk <- MCChunk
  Max = 2
  Budget = 3
SPECIFICATION FairSpec
INVARIANTS
  TypeOK
  BoundedBuffer
  KeepsPrefix
  FlagExact
PROPERTIES
  FrozenOnceTruncated
  ImplementsSink
  EveryCallReturns
