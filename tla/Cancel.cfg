CONSTANTS
  None = None
  State <- PState
  Trigger <- PTrigger
  Event <- PEvent
  Action <- PAction
  Root = "Root"
  TerminateEvent = "stop"
  Depth <- PDepth
  TerminatePath <- PTerminatePath
  ExitPath <- PExitPath
  EnterPath <- PEnterPath
  DefaultChild <- PDefault
  EventHandler <- PEventHandler
  TimerHandler <- PTimerHandler
  OwnedTimers <- POwnedTimers
  DurationFor <- PDurationFor
  Repeats <- PRepeats
  EntryActions <- PEntryActions
  ExitActions <- PExitActions
  MayEmit <- PMayEmit
  QueueCap = 2
  Capacity <- PCapacity
  NsLimit = 4
  Elapsed = {1, 2}
SPECIFICATION CancelSpec
INVARIANT NothingOutlivesItsPath
INVARIANT EnteredInOrder
INVARIANT CancelInvariant
