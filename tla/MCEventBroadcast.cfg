CONSTANTS
  NULL = NULL
  E1 = E1
  E2 = E2
  E3 = E3
  Events <- MCEvents
  CreateRequests <- MCCreateRequests
  AppCalls <- MCAppCalls
  NotifyCalls <- MCNotifyCalls
  MaxCalls = 6
  MaxInterrupts = 1
  MaxDepth = 6
SPECIFICATION Spec






INVARIANT OnlyNotifyEventsQueued
