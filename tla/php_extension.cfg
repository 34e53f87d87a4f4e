CONSTANTS
  Configs <- MCConfigs
  Requests <- MCRequests
  Later <- MCLater
  MaxReads = 3
  MimeTable <- MCMimeTable
  Directories <- MCDirectories
  Files <- MCFiles
SPECIFICATION Spec
INVARIANT
  ExtendsReachGateway
CHECK_DEADLOCK FALSE
