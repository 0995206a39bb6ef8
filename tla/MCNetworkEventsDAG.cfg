\* Two overlapping runs, a new capture, any failure, two clearances.
CONSTANTS
  r1 = r1
  r2 = r2
  Run <- MCRun
  None = None
  Torn = Torn
  MaxVersion = 2
  MaxClears = 2
SPECIFICATION Spec
SYMMETRY Symmetry
INVARIANTS
  UndisturbedRunIsLoaded
  SummariesOfOneBatch
  InsertionsAreExecutions
