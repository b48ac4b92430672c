SPECIFICATION Spec
CONSTANTS
  Keys = {"a", "b", "b2-h", "odd", "long", "mtime"}
  KeyBytes <- MCKeyBytes
  Reserved = {"b2-h"}
  Unfit = {"odd"}
  MtimeKey = "mtime"
  MtimeBytes = 1
  MaxEntries = 2
  MaxKeyBytes = 3
  MaxBytes = 7
  MaxBytesEncrypted = 4
  FileInfos <- MCFileInfos
  MaxCauseDepth = 2
  MaxRetryAfter = 3
  NetworkDelay = 2
  Afters <- MCAfters
INVARIANTS
  TypeOK
  RetryAdviceIsSound
  OutcomeIsPublished
  SentFileInfoFits
