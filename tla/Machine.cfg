CONSTANTS
  None = None
  State <- PState
  Trigger <- PTrigger
  Event <- PEvent
  Action <- PAction
  Root = "Root"
  TerminateEvent = "stop"
  Depth <- PDepth
  TerminatePath <- PTerminatePath
  ExitPath <- PExitPath
  EnterPath <- PEnterPath
  DefaultChild <- PDefault
  EventHandler <- PEventHandler
  TimerHandler <- PTimerHandler
  OwnedTimers <- POwnedTimers
  DurationFor <- PDurationFor
  Repeats <- PRepeats
  EntryActions <- PEntryActions
  ExitActions <- PExitActions
  MayEmit <- PMayEmit
  QueueCap = 2
  Capacity <- PCapacity
  NsLimit = 4
  Elapsed = {1, 2}
  DuringCount <- PDuringCount
  Settled <- PSettled
SPECIFICATION JournalSpec
INVARIANT TypeOK
INVARIANT ActiveIsPath
INVARIANT ActiveMatchesCurrent
INVARIANT TimersOfActive
INVARIANT OwnedTimersArmed
INVARIANT KeepsCommonAncestors
INVARIANT TerminatedIsClean
INVARIANT MachineInvariant
INVARIANT JournalReads
INVARIANT JournalTells
INVARIANT JournalSettles
PROPERTY TerminatedIsFinal
PROPERTY DispatchSettles
PROPERTY DispatchDrainsTimers
PROPERTY CallReturns
PROPERTY ImplementsStatechart
