SPECIFICATION MCSpec
CONSTANTS
  Games <- MCGames
  ModuleOrder <- MCModuleOrder
  ClientName <- MCClientName
  NameOrder <- MCNameOrder
  BareName <- MCBareName
  StubPatterns <- MCStubPatterns
  CppSize <- MCCppSize
  KindSize <- MCKindSize
  ArrayOf <- MCArrayOf
  ElementSize <- MCCppSize
  Options <- MCOptions
  Unprintable = Unprintable
  MinHits = 2
  MaxMetadata = 64
  Garbage = Garbage
  NoName = NoName
  BadEntry = BadEntry
  MaxBases = 4
  MAX_VTABLE_ENTRIES = 3
  Wildcard = 99
  AnyGame = AnyGame
  UnknownGame = UnknownGame
  MaxEntries = 3
  MaxXrefs = 1
  RvaModulus = 16
  MaxModules = 2
  EntityRoots = {"C_Ent"}
  EntityRoot = "CEnt"
  FieldDepth = 2
  Masked = 99
  Relocating = {8}
  MinLength = 3
  FUNC_BYTES_SIZE = 4
  HwThreads = 2
  Unspeakable = {}
  Strides <- MCStrides
  PrimitiveSize <- MCCppSize
  Requests <- MCRequests
  Threads = {socket, loop}
  Socket = socket
  MaxVisited = 3
  MaxObject = 64
  MaxItems = 4
  MaxCount = 8
  ChunkOffsets = {8, 16, 24}
  FallbackOffset = 16
  ProbeSlots = 4
  MaxChunks = 2
  ChunkSize = 4
  Batch = 2
CHECK_DEADLOCK FALSE
INVARIANT AssertsHold
