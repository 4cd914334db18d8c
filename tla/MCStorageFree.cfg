SPECIFICATION Spec
CONSTANTS
  PER_SECTOR = 5
  FatSectors = 2
  NumFats = 2
  Reserved = 1
  TotalSectors = 11
  SPC = 1
  SECTOR = 2
  ENTRIES = 2
  SizeMod = 8
  EOC = 99
  Names = {"a"}
  Sizes = {0, 3, 7}
  FatReadErrors = TRUE
  MaxCalls = 3
  MaxFaults = 1
  CHARS = 2
  MAX_CHARS = 5
  MAX_ORD = 3
  NAME = 2
  EXT = 1
  Lower = 10
  Wide = 100
  Dot = 5
  Space = 6
  Pad = 999
  MAX_FDS = 2
  CLUSTER = 3
  SCRATCH = 3
  Files = {"a", "b"}
  Missing = "c"
  Counts = {1, 2, 5}
  MAX_FILES = 2
  HEADER = 4
  ENTRY = 8
  WORD = 256
  MaxVisits = 6
  Lba = {1, 2}
  Buffer = {1, 2}
  Value = {0, 1}
  MaxWrites = 1
PROPERTY FreedReported
CHECK_DEADLOCK FALSE
