SPECIFICATION FairSpec
CHECK_DEADLOCK FALSE
CONSTANTS
  p1 = p1
  None = None
  Uploads <- MCUploads
  Downloads <- MCDownloads
  Paths <- MCPaths
  Inodes <- MCInodes
  Sizes <- MCSizes
  ChunkSize = 2
  MaxChunks = 1
  MaxTransfers = 2
  Serial = FALSE
INVARIANTS
  FilesTypeOK
  AckedAll
  UploadKept
  NoPartialLeft
  FilesAtRest
  DownloadKept
PROPERTIES
  TransfersSettle
