SPECIFICATION FairSpec
CONSTANTS
  Threads = {t1}
  Pools <- AdjacentPools
  POOL_COUNT = 1
  PoolBytes = 80
  BLOCK_HEADER_SIZE = 24
  KMALLOC_ALIGN = 16
  KMALLOC_MIN_SIZE = 16
  SizeMod = 65536
  Requests = {0, 1, 40, 100}
  Arrays <- SmallArrays
INVARIANTS BlocksDisjoint NoByteLost FreeListSound FreeListComplete
PROPERTIES RequestsCovered ReturnsWhilePoolsLast ImplementsHeap
