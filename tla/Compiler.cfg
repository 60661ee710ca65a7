CONSTANTS
  None = None
  Chart = Chart
  A = A
  B = B
  C = C
  work = work
  e = e
  f = f
  ChartName = Chart
  Names <- CNames
  Actions <- CActions
  Handlers <- CHandlers
  Targets <- CTargets
  TerminateEvents <- CTerminateEvents
  Durings <- CDurings
  MaxItems <- CMaxItems
  MaxOffset = 26
SPECIFICATION Spec
INVARIANT TypeOK
INVARIANT VerdictIsLegal
INVARIANT PatternsFit
INVARIANT PayloadsReachActions
INVARIANT ReadsAsItRuns
INVARIANT TablesDecode
INVARIANT TablesServeTheMachine
PROPERTY CompileEnds
CHECK_DEADLOCK FALSE
