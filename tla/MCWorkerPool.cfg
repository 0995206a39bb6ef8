\* The pool alone, any routing, any item may raise, the client may raise.
CONSTANTS
  worker_count = 2
  MaxItems = 3
SPECIFICATION FairSpec
INVARIANTS
  TypeOK
  UnfinishedIsExact
  NoItemIsLost
  InSubmissionOrder
  ReadsAreFinal
  NothingIsStranded
PROPERTIES
  EveryItemIsHandled
  RunEnds
