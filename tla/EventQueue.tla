------------------------------ MODULE EventQueue ------------------------------
(***************************************************************************)
(* The DXE core Event Queue (Event/event.c) on its one processor, with the *)
(* task-priority (TPL) machinery it runs under.                            *)
(*                                                                         *)
(* The processor runs one call stack.  A call is a frame [proc, pc, ev,    *)
(* tpl] on it; calls made from a frame, the RestoreTpl that follows every  *)
(* release of gEventQueueLock, the notify functions run by a dispatch and  *)
(* timer interrupts all push frames.  gEventQueueLock raises the TPL to    *)
(* EFI_TPL_HIGH_LEVEL, where no interrupt is taken, and no code calls out  *)
(* while holding it, so every region between CoreAcquireEventLock and      *)
(* CoreReleaseEventLock is one step; the step ends with the RestoreTpl of  *)
(* the release pushed, still at EFI_TPL_HIGH_LEVEL.  Between two such      *)
(* regions a timer interrupt may be taken whenever the TPL is below        *)
(* EFI_TPL_HIGH_LEVEL.                                                     *)
(***************************************************************************)
EXTENDS Integers, Sequences, FiniteSets

LOCAL SX == INSTANCE SequencesExt
LOCAL FS == INSTANCE FiniteSetsExt

CONSTANTS
  NULL,            \* no event (the ev of a frame that has none)
  Events,          \* the addresses an IEVENT can be allocated at
  CreateRequests,  \* [type, tpl, fn] arguments callers pass to CoreCreateEvent
  AppCalls,        \* the calls the application makes: [proc, ev]
  NotifyCalls,     \* the calls a notify function may make: [proc, ev]
  MaxCalls,        \* bound on the calls made, nested ones included
  MaxInterrupts,   \* bound on the timer interrupts taken
  MaxDepth         \* bound on the call stack

\* The TPLs of EfiApi.h.  A timer notification runs at EFI_TPL_HIGH_LEVEL - 1.
EFI_TPL_APPLICATION == 4
EFI_TPL_CALLBACK    == 8
EFI_TPL_NOTIFY      == 16
EFI_TPL_HIGH_LEVEL  == 31
TimerTpl == EFI_TPL_HIGH_LEVEL - 1

(***************************************************************************)
(* An event Type is the set of its flag bits and its EFI signal type      *)
(* (Type & EFI_EVENT_EFI_SIGNAL_MASK, 0 for none).  mEventTable lists the  *)
(* only legal Types, with the values its comments give.                    *)
(***************************************************************************)
EFI_EVENT_EFI_SIGNAL_MAX == 4
EVT(flags, sig) == [flags |-> flags, sig |-> sig]

mEventTable ==
  { EVT({"Timer", "NotifySignal"}, 0),                      \* 0x80000200
    EVT({"Timer"}, 0),                                      \* 0x80000000
    EVT({"NotifyWait"}, 0),                                 \* 0x00000100
    EVT({"NotifySignal"}, 0),                               \* 0x00000200
    EVT({"NotifySignal"}, 1),                               \* 0x00000201 ExitBootServices
    EVT({"NotifySignal"}, 3),                               \* 0x00000203 ReadyToBoot
    EVT({"Runtime", "RuntimeContext", "NotifySignal"}, 2),  \* 0x60000202 VirtualAddressChange
    EVT({"NotifySignal"}, 4),                               \* 0x00000204 LegacyBoot
    EVT({"NotifySignalAll", "NotifySignal"}, 3),            \* 0x00000603
    EVT({"NotifySignalAll", "NotifySignal"}, 4),            \* 0x00000604
    EVT({}, 0),                                             \* 0x00000000
    EVT({"Timer", "NotifyWait"}, 0) }                       \* 0x80000100

\* The notify queues a valid NotifyTpl can name, and queue 0 of the events
\* that have no notify function.
QueueLevels ==
  {0} \cup ({r.tpl : r \in CreateRequests} \cap (EFI_TPL_APPLICATION + 1 .. EFI_TPL_HIGH_LEVEL - 1))
SignalTypes == 1..EFI_EVENT_EFI_SIGNAL_MAX

VARIABLES
  created,            \* events CoreCreateEvent has allocated
  closed,             \* events CoreCloseEvent has freed
  evType,             \* IEVENT.Type
  evTpl,              \* IEVENT.NotifyTpl
  signalCount,        \* IEVENT.SignalCount
  gEventQueue,        \* TPL -> the events on that notify queue (NotifyLink), head first
  gEventPending,      \* the TPLs whose bit is set in gEventPending
  gEventSignalQueue,  \* signal type -> the events on its list (SignalLink)
  mRuntimeEventList,  \* the runtime events (RuntimeLink)
  gEfiCurrentTpl,
  stack,              \* the processor's call stack, top frame first
  calls,              \* calls made so far
  interrupts,         \* timer interrupts taken so far
  signals,            \* event -> times SignalEvent set its SignalCount
  successes,          \* event -> times CheckEvent returned EFI_SUCCESS for it
  asserts             \* every ASSERT reached so far held

vars == <<created, closed, evType, evTpl, signalCount, gEventQueue, gEventPending,
          gEventSignalQueue, mRuntimeEventList, gEfiCurrentTpl, stack,
          calls, interrupts, signals, successes, asserts>>

Live == created \ closed
\* A frame: the routine, where it is, its event (or request) and TPL
\* arguments, and the status it will return or was last returned to it.
Frame(proc, pc, ev, tpl) == [proc |-> proc, pc |-> pc, ev |-> ev, tpl |-> tpl, st |-> "Success"]
Top == Head(stack)

\* The event has a notify function: CoreCreateEvent keeps NotifyFunction
\* only for a notify type that is not NOTIFY_SIGNAL_ALL.
HasNotifyFunction(e) ==
  /\ evType[e].flags \cap {"NotifyWait", "NotifySignal"} # {}
  /\ "NotifySignalAll" \notin evType[e].flags

Queued(e) == \E p \in QueueLevels : SX!Contains(gEventQueue[p], e)

(***************************************************************************)
(* CoreInitializeEventServices: every notify queue and signal list empty.  *)
(* The processor starts at EFI_TPL_APPLICATION with nothing running.       *)
(***************************************************************************)
Init ==
  /\ created = {} /\ closed = {}
  /\ evType = [e \in Events |-> EVT({}, 0)]
  /\ evTpl = [e \in Events |-> 0]
  /\ signalCount = [e \in Events |-> 0]
  /\ gEventQueue = [p \in QueueLevels |-> <<>>]
  /\ gEventPending = {}
  /\ gEventSignalQueue = [s \in SignalTypes |-> <<>>]
  /\ mRuntimeEventList = <<>>
  /\ gEfiCurrentTpl = EFI_TPL_APPLICATION
  /\ stack = <<>>
  /\ calls = 0 /\ interrupts = 0
  /\ signals = [e \in Events |-> 0]
  /\ successes = [e \in Events |-> 0]
  /\ asserts = TRUE

eventVars == <<created, closed, evType, evTpl, mRuntimeEventList>>
queueVars == <<signalCount, gEventQueue, gEventPending, gEventSignalQueue>>
boundVars == <<calls, interrupts>>

(***************************************************************************)
(* The end of a region under gEventQueueLock.  CoreReleaseEventLock calls  *)
(* CoreRestoreTpl(OwnerTpl), OwnerTpl being the TPL CoreAcquireEventLock   *)
(* raised from; the caller goes on as frame f once it returns, or          *)
(* returns itself when the release was its last statement.               *)
(***************************************************************************)
RestoreFrame == Frame("RestoreTpl", "loop", NULL, gEfiCurrentTpl)

ReleaseThen(f) ==
  /\ gEfiCurrentTpl' = EFI_TPL_HIGH_LEVEL
  /\ stack' = <<RestoreFrame, f>> \o Tail(stack)

\* Mutant: the TPL is put back without CoreRestoreTpl's dispatch.
ReleaseReturnNoDispatch ==
  /\ UNCHANGED gEfiCurrentTpl
  /\ stack' = Tail(stack)

ReleaseReturn ==
  /\ gEfiCurrentTpl' = EFI_TPL_HIGH_LEVEL
  /\ stack' = <<RestoreFrame>> \o Tail(stack)

\* Return st to the calling frame, if there is one.
Return(st) ==
  stack' = IF Len(stack) > 1
             THEN <<[stack[2] EXCEPT !.st = st]>> \o SubSeq(stack, 3, Len(stack))
             ELSE <<>>

\* Push a call c = [proc, ev] above the top frame, which goes on as f.
CallThen(c, f) ==
  /\ calls' = calls + 1
  /\ stack' = <<Frame(c.proc, "start", c.ev, 0), f>> \o Tail(stack)

(***************************************************************************)
(* CoreNotifyEvent on the pair <<gEventQueue, gEventPending>>: unlink the  *)
(* event if it is queued, append it to the queue of its NotifyTpl and set *)
(* that TPL's pending bit.                                                 *)
(***************************************************************************)
\* Mutant: the pending bit of the TPL is not set.
CoreNotifyEventNoPending(qp, e) ==
  << [qp[1] EXCEPT ![evTpl[e]] = Append(SX!Remove(@, e), e)], qp[2] >>

CoreNotifyEvent(qp, e) ==
  << [qp[1] EXCEPT ![evTpl[e]] = Append(SX!Remove(@, e), e)],
     qp[2] \cup {evTpl[e]} >>

(***************************************************************************)
(* CoreRestoreTpl (tpl.c): while a pending TPL is above the new TPL, raise *)
(* gEfiCurrentTpl to the highest and dispatch it; then drop to the new     *)
(* TPL.                                                                    *)
(***************************************************************************)
\* Mutant: every pending bit is dispatched, not only those above the new TPL.
CoreRestoreTplAllPending ==
  /\ Top.proc = "RestoreTpl"
  /\ IF gEventPending # {}
       THEN /\ gEfiCurrentTpl' = FS!Max(gEventPending)
            /\ stack' = <<Frame("Dispatch", "lock", NULL, FS!Max(gEventPending))>> \o stack
       ELSE /\ gEfiCurrentTpl' = Top.tpl
            /\ stack' = Tail(stack)
  /\ UNCHANGED <<eventVars, queueVars, boundVars, signals, successes, asserts>>

CoreRestoreTpl ==
  /\ Top.proc = "RestoreTpl"
  /\ LET above == {p \in gEventPending : p > Top.tpl}
     IN  IF above # {}
           THEN /\ gEfiCurrentTpl' = FS!Max(above)
                /\ stack' = <<Frame("Dispatch", "lock", NULL, FS!Max(above))>> \o stack
           ELSE /\ gEfiCurrentTpl' = Top.tpl
                /\ stack' = Tail(stack)
  /\ UNCHANGED <<eventVars, queueVars, boundVars, signals, successes, asserts>>

(***************************************************************************)
(* CoreDispatchEventNotifies(Priority), one turn of its loop under the     *)
(* lock: ASSERT that the lock was taken from Priority; if the queue is     *)
(* empty clear its pending bit and return, else unlink the head event and *)
(* clear its SignalCount if it is a NOTIFY_SIGNAL event, then release the  *)
(* lock and call its notify function.                                      *)
(***************************************************************************)
DispatchDrained ==
  /\ Top.proc = "Dispatch" /\ Top.pc = "lock"
  /\ gEventQueue[Top.tpl] = <<>>
  /\ asserts' = (asserts /\ gEfiCurrentTpl = Top.tpl)
  /\ gEventPending' = gEventPending \ {Top.tpl}
  /\ ReleaseReturn
  /\ UNCHANGED <<eventVars, signalCount, gEventQueue, gEventSignalQueue, boundVars,
                 signals, successes>>

\* Mutant: SignalCount is left set when the event is dispatched.
DispatchNextKeepsCount ==
  /\ Top.proc = "Dispatch" /\ Top.pc = "lock"
  /\ gEventQueue[Top.tpl] # <<>>
  /\ LET e == Head(gEventQueue[Top.tpl])
     IN  /\ asserts' = (asserts /\ gEfiCurrentTpl = Top.tpl /\ HasNotifyFunction(e))
         /\ gEventQueue' = [gEventQueue EXCEPT ![Top.tpl] = Tail(@)]
         /\ ReleaseThen([Top EXCEPT !.pc = "notify", !.ev = e])
  /\ UNCHANGED <<eventVars, signalCount, gEventPending, gEventSignalQueue, boundVars,
                 signals, successes>>

DispatchNext ==
  /\ Top.proc = "Dispatch" /\ Top.pc = "lock"
  /\ gEventQueue[Top.tpl] # <<>>
  /\ LET e == Head(gEventQueue[Top.tpl])
     IN  /\ asserts' = (asserts /\ gEfiCurrentTpl = Top.tpl /\ HasNotifyFunction(e))
         /\ gEventQueue' = [gEventQueue EXCEPT ![Top.tpl] = Tail(@)]
         /\ signalCount' = IF "NotifySignal" \in evType[e].flags
                             THEN [signalCount EXCEPT ![e] = 0] ELSE signalCount
         /\ ReleaseThen([Top EXCEPT !.pc = "notify", !.ev = e])
  /\ UNCHANGED <<eventVars, gEventPending, gEventSignalQueue, boundVars, signals, successes>>

\* Event->NotifyFunction: a notify function makes at most one call of
\* NotifyCalls, at the dispatch's TPL; the dispatch then re-takes the lock.
DispatchNotify ==
  /\ Top.proc = "Dispatch" /\ Top.pc = "notify"
  /\ \/ /\ calls < MaxCalls /\ Len(stack) < MaxDepth
        /\ \E c \in NotifyCalls : c.ev \in Live /\ CallThen(c, [Top EXCEPT !.pc = "lock"])
     \/ /\ stack' = <<[Top EXCEPT !.pc = "lock"]>> \o Tail(stack)
        /\ UNCHANGED calls
  /\ UNCHANGED <<eventVars, queueVars, interrupts, gEfiCurrentTpl, signals, successes, asserts>>

(***************************************************************************)
(* CoreSignalEvent.  Under the lock: an event already signalled is left    *)
(* alone; otherwise SignalCount becomes 1 and a NOTIFY_SIGNAL event is     *)
(* queued, except a NOTIFY_SIGNAL_ALL one, for which the lock is released *)
(* and CoreNotifySignalList fans the signal out, after which the lock is   *)
(* taken and released once more.                                           *)
(***************************************************************************)
SignalRaise(e) ==
  /\ signalCount' = [signalCount EXCEPT ![e] = 1]
  /\ signals' = [signals EXCEPT ![e] = @ + 1]

\* Mutant: the "if (!Event->SignalCount)" test is dropped for a signalled event.
SignalAlreadySignalledIncrements ==
  /\ Top.proc = "Signal" /\ Top.pc = "start"
  /\ signalCount[Top.ev] # 0
  /\ signalCount' = [signalCount EXCEPT ![Top.ev] = @ + 1]
  /\ ReleaseReturn
  /\ UNCHANGED <<eventVars, gEventQueue, gEventPending, gEventSignalQueue, boundVars,
                 signals, successes, asserts>>

SignalAlreadySignalled ==
  /\ Top.proc = "Signal" /\ Top.pc = "start"
  /\ signalCount[Top.ev] # 0
  /\ ReleaseReturn
  /\ UNCHANGED <<eventVars, queueVars, boundVars, signals, successes, asserts>>

SignalNoNotify ==
  /\ Top.proc = "Signal" /\ Top.pc = "start"
  /\ signalCount[Top.ev] = 0
  /\ "NotifySignal" \notin evType[Top.ev].flags
  /\ SignalRaise(Top.ev)
  /\ ReleaseReturn
  /\ UNCHANGED <<eventVars, gEventQueue, gEventPending, gEventSignalQueue, boundVars,
                 successes, asserts>>

SignalNotify ==
  /\ Top.proc = "Signal" /\ Top.pc = "start"
  /\ signalCount[Top.ev] = 0
  /\ "NotifySignal" \in evType[Top.ev].flags
  /\ "NotifySignalAll" \notin evType[Top.ev].flags
  /\ SignalRaise(Top.ev)
  /\ LET qp == CoreNotifyEvent(<<gEventQueue, gEventPending>>, Top.ev)
     IN  gEventQueue' = qp[1] /\ gEventPending' = qp[2]
  /\ ReleaseReturn
  /\ UNCHANGED <<eventVars, gEventSignalQueue, boundVars, successes, asserts>>

SignalAll ==
  /\ Top.proc = "Signal" /\ Top.pc = "start"
  /\ signalCount[Top.ev] = 0
  /\ "NotifySignalAll" \in evType[Top.ev].flags
  /\ SignalRaise(Top.ev)
  /\ ReleaseThen([Top EXCEPT !.pc = "fanout"])
  /\ UNCHANGED <<eventVars, gEventQueue, gEventPending, gEventSignalQueue, boundVars,
                 successes, asserts>>

\* CoreNotifySignalList(Type & ~NOTIFY_SIGNAL_ALL): under the lock,
\* CoreNotifyEvent every event of the signal type's list, in list order.
CoreNotifySignalList ==
  /\ Top.proc = "Signal" /\ Top.pc = "fanout"
  /\ LET qp == SX!FoldLeft(CoreNotifyEvent, <<gEventQueue, gEventPending>>,
                           gEventSignalQueue[evType[Top.ev].sig])
     IN  gEventQueue' = qp[1] /\ gEventPending' = qp[2]
  /\ ReleaseThen([Top EXCEPT !.pc = "relock"])
  /\ UNCHANGED <<eventVars, signalCount, gEventSignalQueue, boundVars, signals,
                 successes, asserts>>

SignalRelock ==
  /\ Top.proc = "Signal" /\ Top.pc = "relock"
  /\ ReleaseReturn
  /\ UNCHANGED <<eventVars, queueVars, boundVars, signals, successes, asserts>>

(***************************************************************************)
(* CoreCheckEvent.  A NOTIFY_SIGNAL event is refused.  SignalCount is     *)
(* read without the lock: when it is 0 and the event is NOTIFY_WAIT, its   *)
(* notify function is queued under the lock if SignalCount is still 0;    *)
(* then, if SignalCount reads non-zero, it is cleared under the lock if   *)
(* it still is, and the call returns EFI_SUCCESS, else EFI_NOT_READY.      *)
(***************************************************************************)
CheckStart ==
  /\ Top.proc = "Check" /\ Top.pc = "start"
  /\ IF "NotifySignal" \in evType[Top.ev].flags
       THEN Return("InvalidParameter")
       ELSE stack' = <<[Top EXCEPT !.pc =
                          IF signalCount[Top.ev] = 0 /\ "NotifyWait" \in evType[Top.ev].flags
                            THEN "queue" ELSE "test"]>> \o Tail(stack)
  /\ UNCHANGED <<eventVars, queueVars, boundVars, gEfiCurrentTpl, signals, successes, asserts>>

CheckQueue ==
  /\ Top.proc = "Check" /\ Top.pc = "queue"
  /\ IF signalCount[Top.ev] = 0
       THEN LET qp == CoreNotifyEvent(<<gEventQueue, gEventPending>>, Top.ev)
            IN  gEventQueue' = qp[1] /\ gEventPending' = qp[2]
       ELSE UNCHANGED <<gEventQueue, gEventPending>>
  /\ ReleaseThen([Top EXCEPT !.pc = "test"])
  /\ UNCHANGED <<eventVars, signalCount, gEventSignalQueue, boundVars, signals,
                 successes, asserts>>

CheckTest ==
  /\ Top.proc = "Check" /\ Top.pc = "test"
  /\ IF signalCount[Top.ev] # 0
       THEN stack' = <<[Top EXCEPT !.pc = "consume"]>> \o Tail(stack)
       ELSE Return("NotReady")
  /\ UNCHANGED <<eventVars, queueVars, boundVars, gEfiCurrentTpl, signals, successes, asserts>>

\* Mutant: SignalCount is not re-read under the lock.
CheckConsumeUnchecked ==
  /\ Top.proc = "Check" /\ Top.pc = "consume"
  /\ signalCount' = [signalCount EXCEPT ![Top.ev] = 0]
  /\ successes' = [successes EXCEPT ![Top.ev] = @ + 1]
  /\ ReleaseThen([Top EXCEPT !.pc = "done", !.st = "Success"])
  /\ UNCHANGED <<eventVars, gEventQueue, gEventPending, gEventSignalQueue, boundVars,
                 signals, asserts>>

CheckConsume ==
  /\ Top.proc = "Check" /\ Top.pc = "consume"
  /\ IF signalCount[Top.ev] # 0
       THEN /\ signalCount' = [signalCount EXCEPT ![Top.ev] = 0]
            /\ successes' = [successes EXCEPT ![Top.ev] = @ + 1]
            /\ ReleaseThen([Top EXCEPT !.pc = "done", !.st = "Success"])
       ELSE /\ ReleaseThen([Top EXCEPT !.pc = "done", !.st = "NotReady"])
            /\ UNCHANGED <<signalCount, successes>>
  /\ UNCHANGED <<eventVars, gEventQueue, gEventPending, gEventSignalQueue, boundVars,
                 signals, asserts>>

\* The return of a routine whose status was decided before its last release.
ReturnDone ==
  /\ Top.pc = "done"
  /\ Return(Top.st)
  /\ UNCHANGED <<eventVars, queueVars, boundVars, gEfiCurrentTpl, signals, successes, asserts>>

(***************************************************************************)
(* CoreWaitForEvent on one event: EFI_UNSUPPORTED unless the TPL is        *)
(* EFI_TPL_APPLICATION, else CoreCheckEvent until it returns anything but  *)
(* EFI_NOT_READY, and return that.                                         *)
(***************************************************************************)
CheckFrame(e) == Frame("Check", "start", e, 0)

WaitStart ==
  /\ Top.proc = "Wait" /\ Top.pc = "start"
  /\ IF gEfiCurrentTpl # EFI_TPL_APPLICATION
       THEN Return("Unsupported")
       ELSE stack' = <<CheckFrame(Top.ev), [Top EXCEPT !.pc = "test"]>> \o Tail(stack)
  /\ UNCHANGED <<eventVars, queueVars, boundVars, gEfiCurrentTpl, signals, successes, asserts>>

WaitTest ==
  /\ Top.proc = "Wait" /\ Top.pc = "test"
  /\ IF Top.st # "NotReady"
       THEN Return(Top.st)
       ELSE stack' = <<CheckFrame(Top.ev)>> \o stack
  /\ UNCHANGED <<eventVars, queueVars, boundVars, gEfiCurrentTpl, signals, successes, asserts>>

(***************************************************************************)
(* CoreCloseEvent: under the lock unlink the event from the runtime list, *)
(* its notify queue and its signal list; after the release (and the        *)
(* dispatch it may run) free it.  Cancelling a timer and removing protocol *)
(* notifies touch no state of this module.                                *)
(***************************************************************************)
\* Mutant: the event is not unlinked from its notify queue.
CloseUnlinkKeepsNotifyLink ==
  /\ Top.proc = "Close" /\ Top.pc = "start"
  /\ LET e == Top.ev
     IN  /\ mRuntimeEventList' = SX!Remove(mRuntimeEventList, e)
         /\ gEventSignalQueue' =
              IF evType[e].sig # 0
                THEN [gEventSignalQueue EXCEPT ![evType[e].sig] = SX!Remove(@, e)]
                ELSE gEventSignalQueue
  /\ ReleaseThen([Top EXCEPT !.pc = "free"])
  /\ UNCHANGED <<created, closed, evType, evTpl, signalCount, gEventQueue, gEventPending,
                 boundVars, signals, successes, asserts>>

CloseUnlink ==
  /\ Top.proc = "Close" /\ Top.pc = "start"
  /\ LET e == Top.ev
     IN  /\ mRuntimeEventList' = SX!Remove(mRuntimeEventList, e)
         /\ gEventQueue' = [gEventQueue EXCEPT ![evTpl[e]] = SX!Remove(@, e)]
         /\ gEventSignalQueue' =
              IF evType[e].sig # 0
                THEN [gEventSignalQueue EXCEPT ![evType[e].sig] = SX!Remove(@, e)]
                ELSE gEventSignalQueue
  /\ ReleaseThen([Top EXCEPT !.pc = "free"])
  /\ UNCHANGED <<created, closed, evType, evTpl, signalCount, gEventPending, boundVars,
                 signals, successes, asserts>>

CloseFree ==
  /\ Top.proc = "Close" /\ Top.pc = "free"
  /\ closed' = closed \cup {Top.ev}
  /\ Return("Success")
  /\ UNCHANGED <<created, evType, evTpl, mRuntimeEventList, queueVars, boundVars,
                 gEfiCurrentTpl, signals, successes, asserts>>

(***************************************************************************)
(* CoreCreateEvent with request r = [type, tpl, fn].  EFI_INVALID_PARAMETER *)
(* for NotifyTpl = EFI_TPL_APPLICATION, a Type outside mEventTable, or a   *)
(* notify type (not NOTIFY_SIGNAL_ALL) without a function or with a        *)
(* NotifyTpl outside [APPLICATION, HIGH_LEVEL); EFI_OUT_OF_RESOURCES when  *)
(* the pool has no room; else a zeroed event with the notify fields kept   *)
(* only for a notify type, put on the runtime list for a RUNTIME type and, *)
(* under the lock, at the head of its signal type's list.                 *)
(***************************************************************************)
IsNotifyType(t) ==
  t.flags \cap {"NotifyWait", "NotifySignal"} # {} /\ "NotifySignalAll" \notin t.flags

CreateRefused(r) ==
  \/ r.tpl = EFI_TPL_APPLICATION
  \/ r.type \notin mEventTable
  \/ IsNotifyType(r.type) /\ (~r.fn \/ r.tpl < EFI_TPL_APPLICATION \/ r.tpl >= EFI_TPL_HIGH_LEVEL)

CreateInvalid ==
  /\ Top.proc = "Create" /\ Top.pc = "start"
  /\ CreateRefused(Top.ev)
  /\ Return("InvalidParameter")
  /\ UNCHANGED <<eventVars, queueVars, boundVars, gEfiCurrentTpl, signals, successes, asserts>>

CreateOutOfResources ==
  /\ Top.proc = "Create" /\ Top.pc = "start"
  /\ ~CreateRefused(Top.ev)
  /\ created = Events
  /\ Return("OutOfResources")
  /\ UNCHANGED <<eventVars, queueVars, boundVars, gEfiCurrentTpl, signals, successes, asserts>>

CreateEvent ==
  /\ Top.proc = "Create" /\ Top.pc = "start"
  /\ ~CreateRefused(Top.ev)
  /\ created # Events
  /\ LET r == Top.ev
         e == CHOOSE x \in Events \ created : TRUE
     IN  /\ created' = created \cup {e}
         /\ evType' = [evType EXCEPT ![e] = r.type]
         /\ evTpl' = [evTpl EXCEPT ![e] = IF IsNotifyType(r.type) THEN r.tpl ELSE 0]
         /\ mRuntimeEventList' = IF "Runtime" \in r.type.flags
                                   THEN Append(mRuntimeEventList, e) ELSE mRuntimeEventList
         /\ gEventSignalQueue' = IF r.type.sig # 0
                                   THEN [gEventSignalQueue EXCEPT ![r.type.sig] = <<e>> \o @]
                                   ELSE gEventSignalQueue
  /\ ReleaseReturn
  /\ UNCHANGED <<closed, signalCount, gEventQueue, gEventPending, boundVars, signals,
                 successes, asserts>>

(***************************************************************************)
(* A timer interrupt, taken below EFI_TPL_HIGH_LEVEL: the timer's check    *)
(* notification (CoreCheckTimers, at EFI_TPL_HIGH_LEVEL - 1) signals an    *)
(* expired timer event and the interrupted TPL is then restored.           *)
(***************************************************************************)
TimerInterrupt ==
  /\ gEfiCurrentTpl < EFI_TPL_HIGH_LEVEL
  /\ interrupts < MaxInterrupts /\ Len(stack) < MaxDepth
  /\ \E t \in Live :
       /\ "Timer" \in evType[t].flags
       /\ stack' = <<Frame("Signal", "start", t, 0), RestoreFrame>> \o stack
  /\ gEfiCurrentTpl' = TimerTpl
  /\ interrupts' = interrupts + 1
  /\ UNCHANGED <<eventVars, queueVars, calls, signals, successes, asserts>>

\* The application, at EFI_TPL_APPLICATION with nothing running, makes a call.
AppCall ==
  /\ stack = <<>> /\ calls < MaxCalls
  /\ \/ \E r \in CreateRequests : stack' = <<Frame("Create", "start", r, 0)>>
     \/ \E c \in AppCalls : c.ev \in Live /\ stack' = <<Frame(c.proc, "start", c.ev, 0)>>
  /\ calls' = calls + 1
  /\ UNCHANGED <<eventVars, queueVars, interrupts, gEfiCurrentTpl, signals, successes, asserts>>

\* The bound on calls is reached and nothing runs.
Terminated == stack = <<>> /\ calls = MaxCalls /\ UNCHANGED vars

\* The processor executes the top frame.
Step ==
  /\ stack # <<>>
  /\ \/ CoreRestoreTpl \/ DispatchDrained \/ DispatchNext \/ DispatchNotify
     \/ SignalAlreadySignalled \/ SignalNoNotify \/ SignalNotify \/ SignalAll
     \/ CoreNotifySignalList \/ SignalRelock
     \/ CheckStart \/ CheckQueue \/ CheckTest \/ CheckConsume \/ ReturnDone
     \/ WaitStart \/ WaitTest \/ CloseUnlink \/ CloseFree
     \/ CreateInvalid \/ CreateOutOfResources \/ CreateEvent

Next == AppCall \/ TimerInterrupt \/ Step \/ Terminated

\* The processor never stops executing the code on its stack; the
\* application's calls and the timer are not required to happen.
Spec == Init /\ [][Next]_vars /\ WF_vars(Step)

-----------------------------------------------------------------------------
(***************************************************************************)
(* Properties                                                              *)
(***************************************************************************)
Type == [flags : SUBSET {"Timer", "NotifyWait", "NotifySignal", "NotifySignalAll",
                         "Runtime", "RuntimeContext"},
         sig : 0..EFI_EVENT_EFI_SIGNAL_MAX]

TypeOK ==
  /\ created \subseteq Events /\ closed \subseteq created
  /\ evType \in [Events -> Type] /\ evTpl \in [Events -> QueueLevels]
  /\ signalCount \in [Events -> {0, 1}]
  /\ gEventQueue \in [QueueLevels -> Seq(Events)]
  /\ gEventPending \subseteq QueueLevels
  /\ gEventSignalQueue \in [SignalTypes -> Seq(Events)]
  /\ mRuntimeEventList \in Seq(Events)
  /\ gEfiCurrentTpl \in {EFI_TPL_APPLICATION, TimerTpl, EFI_TPL_HIGH_LEVEL} \cup QueueLevels
  /\ stack \in Seq([proc : {"RestoreTpl", "Dispatch", "Signal", "Check", "Wait",
                            "Close", "Create"},
                    pc : STRING, ev : Events \cup CreateRequests \cup {NULL},
                    tpl : Nat, st : STRING])

\* The events CoreCloseEvent has unlinked and is about to free.
Closing == {stack[i].ev : i \in {j \in 1..Len(stack) : stack[j].proc = "Close"
                                                       /\ stack[j].pc = "free"}}

(***************************************************************************)
(* Every event on a notify queue or a signal list is allocated, sits on   *)
(* the queue of its own NotifyTpl or the list of its own signal type, and *)
(* only once: CoreNotifyEvent unlinks before it appends, CoreCloseEvent    *)
(* unlinks before it frees, under notify functions that signal and        *)
(* callers that close events while others are queued.                     *)
(***************************************************************************)
QueuesHoldLiveEventsOnce ==
  /\ \A p \in QueueLevels :
       /\ \A i \in 1..Len(gEventQueue[p]) :
            gEventQueue[p][i] \in Live /\ evTpl[gEventQueue[p][i]] = p
       /\ SX!IsInjective(gEventQueue[p])
  /\ \A t \in SignalTypes :
       /\ \A i \in 1..Len(gEventSignalQueue[t]) :
            gEventSignalQueue[t][i] \in Live /\ evType[gEventSignalQueue[t][i]].sig = t
       /\ SX!IsInjective(gEventSignalQueue[t])

(***************************************************************************)
(* No signal is lost: a NOTIFY_SIGNAL event whose SignalCount is set is    *)
(* queued for its notify function, so the later SignalEvent calls it       *)
(* ignores are covered by a notification still to come.  Dispatch clears  *)
(* SignalCount as it unlinks the event, before the function runs with the  *)
(* lock released.                                                          *)
(***************************************************************************)
SignalledEventIsQueued ==
  \A e \in Live \ Closing :
    (HasNotifyFunction(e) /\ "NotifySignal" \in evType[e].flags /\ signalCount[e] = 1)
      => Queued(e)

(***************************************************************************)
(* The TPL discipline the queues rely on: whenever interrupts are enabled *)
(* (the TPL is below EFI_TPL_HIGH_LEVEL) no notification is waiting at a  *)
(* TPL above the current one.  It needs CoreNotifyEvent to set the        *)
(* pending bit, every release of the lock to restore the TPL through       *)
(* CoreRestoreTpl, and each dispatch to drain its queue before clearing    *)
(* the bit.                                                                *)
(***************************************************************************)
NoNotificationAboveTpl ==
  gEfiCurrentTpl < EFI_TPL_HIGH_LEVEL =>
    \A p \in QueueLevels : p > gEfiCurrentTpl => gEventQueue[p] = <<>>

(***************************************************************************)
(* CoreCheckEvent returns EFI_SUCCESS at most once per signal: it reads    *)
(* SignalCount without the lock and must re-read it under the lock, since *)
(* a notify function run by an interrupt in between may have consumed it   *)
(* with a CheckEvent of its own.                                           *)
(***************************************************************************)
CheckConsumesEachSignalOnce == \A e \in Events : successes[e] <= signals[e]

\* The ASSERTs of CoreDispatchEventNotifies (the lock was taken from
\* Priority) hold, and a dispatched event always has a notify function.
EventAssertsHold == asserts

(***************************************************************************)
(* Every notification queued is eventually delivered: an event queued for *)
(* its notify function is eventually off its queue (dispatched or closed), *)
(* by the RestoreTpl of the release that follows the queuing.             *)
(***************************************************************************)
QueuedNotifyEventuallyRuns ==
  \A e \in Events : (Queued(e) /\ HasNotifyFunction(e)) ~> ~Queued(e)

(***************************************************************************)
(* Only an event with a notify function is ever put on a notify queue      *)
(* (the spec, 4.4: an event with a notify function is queued when         *)
(* signalled or checked, one without only toggles SignalCount).            *)
(***************************************************************************)
OnlyNotifyEventsQueued == \A e \in Events : Queued(e) => HasNotifyFunction(e)

=============================================================================
