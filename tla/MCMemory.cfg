SPECIFICATION MemSpec
CONSTANTS
  HeapSize = 224
  HEADER_SIZE = 32
  ALIGN = 16
  SizeMod = 4096
  MaskMod = 1024
  PTR = 8
  Requests <- MCRequests
  Alignments <- MCAlignments
  MaxLive = 3
  MAX_FRAMES = 9
  STATIC_PT_PAGES = 7
  PAGE_SIZE = 2
  CountMod = 64
  LowFrames = {0}
  KernelFrames = {1}
  HeapFrames = {2}
  IDENTITY_MAP_PAGES = 4
  MemoryMaps <- MCMemoryMaps
  MaxOps = 4
  PCI_MAX_BUS = 2
  PCI_MAX_DEVICE = 2
  PCI_MAX_FUNCTION = 4
  PCI_MAX_DEVICES = 7
INVARIANTS BlocksSound RoomForRequest FramesSound TranslatesAsAsked
  MachineFound
CHECK_DEADLOCK FALSE
