SPECIFICATION Spec
CONSTANTS
  MaxHeader = 4
  MaxFile = 4
  IntMax = 7
INVARIANTS TypeOK StreamIsResponse
