CONSTANTS
  None = None
  State <- TState
  Trigger <- TTrigger
  Event <- TEvent
  Action <- TAction
  During <- TDuring
  Root = "Root"
  TerminateEvent = None
  Depth <- TDepth
  TerminatePath <- TTerminatePath
  ExitPath <- TExitPath
  EnterPath <- TEnterPath
  DefaultChild <- TDefault
  EventHandler <- TEventHandler
  TimerHandler <- TTimerHandler
  OwnedTimers <- TOwnedTimers
  DurationFor <- TDurationFor
  Repeats <- TRepeats
  EntryActions <- TEntryActions
  ExitActions <- TNoActions
  MayEmit <- TMayEmit
  Durings <- TDurings
  Yields <- TYields
  QueueCap = 1
  Capacity <- TCapacity
  NsLimit = 16
  Elapsed = {0, 1, 2, 3, 4, 5, 6, 7}
  HasChannel = FALSE
  Biased = TRUE
  IdleSleep = None
  ActionTime = 1
  Late = 1
  MaxLag = 7
  ChannelCap = 2
SPECIFICATION RunFairSpec
PROPERTY EndsWhenNothingIsLeft
