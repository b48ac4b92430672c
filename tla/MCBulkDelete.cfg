SPECIFICATION FairSpec
CONSTANTS
  Names = 3
  MaxSeq = 3
  Under = {2, 3}
  Beside = {1}
  Old <- MCOld
  New <- MCNew
  Lock <- MCLock
  PageSize = 2
INVARIANTS
  TypeOK
  RemovesOnlyWhatWasAsked
  ReportedDeletedIsGone
  SuccessAccountsForAll
PROPERTIES
  StopsAtSignal
  NoSecondRequest
  Settles
