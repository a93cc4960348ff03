---------------------------- MODULE MCEventQueue ----------------------------
(***************************************************************************)
(* Small instances of the Event Queue: three event addresses, the          *)
(* requests the callers make, and what notify functions do.               *)
(***************************************************************************)
EXTENDS EventQueue

CONSTANTS E1, E2, E3

MCEvents == {E1, E2, E3}

Req(flags, sig, tpl, fn) == [type |-> EVT(flags, sig), tpl |-> tpl, fn |-> fn]

\* A periodic timer with a notify function at TPL_CALLBACK, a ReadyToBoot
\* event notified at TPL_NOTIFY, the ReadyToBoot broadcaster (0x603) and a
\* NOTIFY_SIGNAL request without a function, which is refused.
MCCreateRequests ==
  { Req({"Timer", "NotifySignal"}, 0, EFI_TPL_CALLBACK, TRUE),
    Req({"NotifySignal"}, 3, EFI_TPL_NOTIFY, TRUE),
    Req({"NotifySignalAll", "NotifySignal"}, 3, 0, FALSE),
    Req({"NotifySignal"}, 0, EFI_TPL_CALLBACK, FALSE) }

MCAppCalls == [proc : {"Signal", "Close"}, ev : MCEvents]
MCNotifyCalls == [proc : {"Signal"}, ev : MCEvents]

\* A NOTIFY_WAIT event at TPL_NOTIFY, checked and waited on by the
\* application and by notify functions.
MCWaitRequests == { Req({"NotifyWait"}, 0, EFI_TPL_NOTIFY, TRUE) }

\* Both kinds together: the application creates, signals, closes, checks
\* and waits on events; notify functions signal, check and wait (a wait is
\* refused above EFI_TPL_APPLICATION).
MCAllRequests == MCCreateRequests \cup MCWaitRequests
MCAllAppCalls == [proc : {"Signal", "Close", "Wait", "Check"}, ev : MCEvents]
MCAllNotifyCalls == [proc : {"Signal", "Check", "Wait"}, ev : MCEvents]
=============================================================================
