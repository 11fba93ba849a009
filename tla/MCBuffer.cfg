CONSTANTS
  BUFSZ = 3
  Values = {v1, v2}
  Blank = blank
SPECIFICATION Spec
INVARIANTS TypeOK TailAgrees PrepMatchesCommit ForLoopVisitsQueue
PROPERTY ImplementsQueue
