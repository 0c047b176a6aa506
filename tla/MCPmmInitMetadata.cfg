CONSTANTS
  PMM_PAGE_SIZE = 4
  PMM_BITS_PER_BYTE = 2
  FRAMES_STACK_PAGES = 2
  KernelStart = 12
  KernelEnd = 20
  Maps <- MCMaps
SPECIFICATION Spec
INVARIANT MetadataReserved
