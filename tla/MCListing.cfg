SPECIFICATION Spec
CONSTANTS
  Names = 4
  PageCap = 2
  MaxMax = 5
  Changes = 1
INVARIANTS
  ListingHasNoGaps
  ListingIsExact
