SPECIFICATION FairSpec
CONSTANTS
  Names = 3
  Longer = {2}
  Shas = {"a", "b"}
  Histories <- MCHistories
  MaxVersions = 3
  MaxRetries = 1
INVARIANTS
  TypeOK
  ActsOnWhatWasNamed
  DoesWhatWasAsked
  VerifiedIsEqual
PROPERTIES
  Settles
