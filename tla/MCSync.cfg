SPECIFICATION Spec
CONSTANTS
  Files = 3
  Concurrency = 2
INVARIANTS
  CountsAreTrue
  SuccessIsComplete
