SPECIFICATION FairSpec
CONSTANTS
  Threads = {t1}
  Pools <- OnePool
  POOL_COUNT = 1
  PoolBytes = 120
  BLOCK_HEADER_SIZE = 24
  KMALLOC_ALIGN = 16
  KMALLOC_MIN_SIZE = 16
  SizeMod = 65536
  Requests = {1, 96}
  Arrays <- NoArrays
PROPERTY KmallocAnswers
