SPECIFICATION FairSpec
CONSTANTS
  Task = {t1, t2, t3}
  NoTask = NoTask
  Ops = {"setup", "reload", "disable"}
  SupportsUnload = TRUE
  HooksMayRaise = TRUE
  MaxRetries = 2
INVARIANTS
  IntegrationExclusive
  LoadedIffLive
  RetryIsCancellable
  NoTimerWhileStopping
PROPERTIES
  UnrecoverableIsFinal
  ImplementsService
  EveryCallReturns
  RetriedUntilReady
