SPECIFICATION Spec
CONSTANTS
  Names = {phone, default}
  Default = default
  Graces = {0, 1, 2}
  Main = main
  Forever = Forever
  None = None
  Down = Down
  MaxTime = 3
  MaxIssued = 4
  MaxFaults = 2
  MaxCrashes = 1
INVARIANTS ServedWithinPromise LinksAsReported
PROPERTIES PromisesKept
