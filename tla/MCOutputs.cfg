SPECIFICATION SummarySpec
CONSTANTS
  MaxItems = 5
  Sizes = {1, 2, 5, 9}
  Cap = 10
  PreviewMax = 2
INVARIANTS
  OutputsFit
  ManifestIsAllOrNothing
