SPECIFICATION Spec
CONSTANTS
  NULL = NULL
  NoDomain = NoDomain
  ULONG_MAX = 15
  HASH_SHIFT = 2
  MAX_ADDR_RANGES = 3
  MAX_BIT_FILTERS = 2
  MAX_VMAS = 3
  PAGEMAP_BATCH = 2
  WORD = 2
  MaxPfn = 4
  MAX_SLABS = 3
  MAX_ALIASES = 3
  ObjsPerSlab = 2
  WIDTH = 10
  MaxChanges = 1
  page_size = 2
  nr_regions = 2
  BUF_SIZE = 4
  UNIT = 3
  Domains = {"a", "b"}
  allowed_vms = {"a"}
  total_ram = 12
  keep_free_kb <- MCKeepFree
  SZ_32MiB = 1
  Uses = {1, 6, 8}
  Sizes = {8, 12}
  MaxRounds = 3
CHECK_DEADLOCK FALSE
INVARIANT SwitchedOff
