CONSTANTS
  NULL = NULL
  E1 = E1
  E2 = E2
  E3 = E3
  Events <- MCEvents
  CreateRequests <- MCAllRequests
  AppCalls <- MCAllAppCalls
  NotifyCalls <- MCAllNotifyCalls
  MaxCalls = 5
  MaxInterrupts = 1
  MaxDepth = 6
SPECIFICATION Spec
INVARIANT TypeOK
INVARIANT QueuesHoldLiveEventsOnce
INVARIANT SignalledEventIsQueued
INVARIANT NoNotificationAboveTpl
INVARIANT EventAssertsHold
PROPERTY QueuedNotifyEventuallyRuns
INVARIANT CheckConsumesEachSignalOnce
