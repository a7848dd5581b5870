SPECIFICATION MCSpec
CONSTANTS
  Size = 9
  PieceLen = 2
  MaxSize = 9
  MaxRanges = 5
  NoMeta = NoMeta
  MaxLength = 4
  Blank = Blank
  Nodes = 5
  NodeSizes <- FolderSizes
  maxRelDepth = 2
  maxTreeFiles = 1
  maxZipFiles = 2
  maxZipBytes = 6
  NoFolder = NoFolder
  Max32 = 500
  Max16 = 4
  NameLengths = {1, 3}
  FileSizes = {0, 5, 366, 367, 500}
  MaxEntries = 2
  NoArchive = NoArchive
  zipFiles = 2
  zipBytes = 2
  SpareEntries = 1
  Wide = 4
  DataSizes = {1, 2}
  MaxParts = 3
  NoUpload = NoUpload
  Askers = {p1, p2, p3}
  Names = {n1, n2}
  MaxVersions = 2
  hashCacheMax = 1
  None = None
  Walkers = {w1, w2}
  MaxChanges = 3
  Guests = {g1, g2}
  listMax = 3
  MaxTry = 1
  NoPath = NoPath
CHECK_DEADLOCK FALSE
INVARIANT TypeOK
INVARIANT ArchiveIsWhole
INVARIANT LengthIsExact
 
INVARIANT RangesInv
INVARIANT AnswersInv
INVARIANT ListsInv
INVARIANT ExtractInv
 
PROPERTY EveryoneAnswered
PROPERTY StartKeepsBytes
PROPERTY StartListsAll
