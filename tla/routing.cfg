CONSTANTS
  Configs <- MCConfigs
  Requests <- MCRequests
  Later <- MCLater
  MaxReads = 3
  MimeTable <- MCMimeTable
  Directories <- MCDirectories
  Files <- MCFiles
SPECIFICATION Spec
INVARIANTS
  RoutedAsConfigured
  PagesAllowed
  QuestionsCounted
  AskedForItsRequest
CHECK_DEADLOCK FALSE
