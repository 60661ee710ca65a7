CONSTANTS
  None = None
  State <- RState
  Trigger <- RTrigger
  Event <- REvent
  Action <- RAction
  During <- RDuring
  Root = "Root"
  TerminateEvent = "stop"
  Depth <- RDepth
  TerminatePath <- RTerminatePath
  ExitPath <- RExitPath
  EnterPath <- REnterPath
  DefaultChild <- RDefault
  EventHandler <- REventHandler
  TimerHandler <- RTimerHandler
  OwnedTimers <- ROwnedTimers
  DurationFor <- RDurationFor
  Repeats <- RRepeats
  EntryActions <- REntryActions
  ExitActions <- RExitActions
  MayEmit <- RMayEmit
  Durings <- RDurings
  Yields <- RYields
  QueueCap = 1
  Capacity <- RCapacity
  NsLimit = 8
  Elapsed = {0, 1, 2, 3}
  HasChannel = TRUE
  Biased = TRUE
  IdleSleep = 2
  ActionTime = 0
  Late = 1
  MaxLag = 3
  ChannelCap = 2
SPECIFICATION RunSpec
PROPERTY OkMeansNothingRefused
