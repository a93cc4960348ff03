--------------------------- MODULE TerminalDriver ---------------------------
(***************************************************************************)
(* The terminal driver's EFI_DRIVER_BINDING_PROTOCOL on one serial port    *)
(* (Terminal.c): Supported, Start and Stop, with what they do to the      *)
(* handle database (the driver's opens of the controller's protocols, the *)
(* terminal GUID tag, the child handle and its protocols), to the console *)
(* device variables ConInDev, ConOutDev and ErrOutDev, and to the pool    *)
(* and the events the driver allocates.                                   *)
(*                                                                         *)
(* Start runs to its end without interruption, one step per stretch of    *)
(* the handler: the parent opens, the child check, the device and its two *)
(* wait events, its configuration, the install of the child, and the      *)
(* Error path.  The faults are the boot services and serial I/O calls     *)
(* that can fail (a pool allocation, a device error); at most MaxFaults   *)
(* of them happen in a behaviour.  ConnectController calls Start when     *)
(* Supported agrees; DisconnectController calls Stop for one child, or   *)
(* for every child and then for the controller, as the UEFI             *)
(* specification describes.                                                *)
(***************************************************************************)
EXTENDS Naturals, FiniteSets, Sequences

CONSTANTS
  RemainingPaths, \* RemainingDevicePath values: "NULL" or a vendor node's GUID
  Faults,         \* the calls that may fail
  MaxFaults,      \* bound on the failed calls of a behaviour
  MaxStarts       \* bound on the Start calls of a behaviour

\* The terminal types of SetTerminalDevicePath and Supported.
TerminalTypes == {"PcAnsi", "VT100", "VT100Plus", "VTUTF8"}

\* What the driver allocates: pool buffers and events.
Allocations == {"DefaultNode", "TerminalDevice", "DevicePath", "NameTable",
                "WaitForKeyEx", "WaitForKey", "TwoSecondTimeOut"}
\* The protocols Start installs on the child handle.
ChildProtocols == {"DevicePath", "SimpleTextIn", "SimpleTextInEx", "SimpleTextOut"}
ConsoleVars == {"ConInDev", "ConOutDev", "ErrOutDev"}
\* Slots for TERMINAL_DEV structures: one, and one per fault that may add one.
Devs == 1..(MaxFaults + 1)

ASSUME /\ RemainingPaths \subseteq {"NULL", "Other"} \cup TerminalTypes
       /\ MaxFaults \in Nat /\ MaxStarts \in Nat

VARIABLES
  hotPlug,    \* the controller carries gEfiHotPlugDeviceGuid
  opened,     \* protocols of the controller the driver holds BY_DRIVER
  tagged,     \* gTerminalDriverGuid is installed on the controller
  tagCopies,  \* live copies of the parent device path made for the tag
  conDev,     \* how often each console variable lists this port's terminals
  dev,        \* TERMINAL_DEV slots: what each holds, its child's protocols
  live,       \* live allocations of each kind
  pc,         \* where the running Start is, or "idle"
  rdp,        \* the RemainingDevicePath of the running Start
  cur,        \* its TerminalDevice (0 for NULL)
  node,       \* its DefaultNode is allocated
  status,     \* the status the latest Start returned
  starts,     \* Start calls made
  faults      \* failed calls so far

vars == <<hotPlug, opened, tagged, tagCopies, conDev, dev, live, pc, rdp,
          cur, node, status, starts, faults>>

\* A TERMINAL_DEV slot: its allocations (its pool, DevicePath, name table
\* and events), the protocols installed on its child handle, and whether
\* the child holds the serial port's SerialIo BY_CHILD_CONTROLLER.
NoDev == [held |-> {}, protos |-> {}, hotPlug |-> FALSE, byChild |-> FALSE]
Free(d) == "TerminalDevice" \notin dev[d].held

Alloc(l, S) == [a \in Allocations |-> l[a] + (IF a \in S THEN 1 ELSE 0)]
Release(l, S) == [a \in Allocations |-> l[a] - (IF a \in S THEN 1 ELSE 0)]

\* The outcomes of the calls P of one stretch: each call in Faults may
\* fail, within the bound; Fails(c) are the calls that do.
Choices(P) == {c \in [P -> BOOLEAN] :
                 /\ \A p \in P : ~c[p] => p \in Faults
                 /\ Cardinality({p \in P : ~c[p]}) <= MaxFaults - faults}
\* For calls made one after another that each end Start when they fail:
\* the position of the first that fails (0: none), and those made before.
FailAt(P) == {0} \cup {i \in 1..Len(P) : P[i] \in Faults /\ faults < MaxFaults}
Made(P, k) == {P[i] : i \in 1..(IF k = 0 THEN Len(P) ELSE k - 1)}

-----------------------------------------------------------------------------
(***************************************************************************)
(* The console device variables.  TerminalUpdateConsoleDevVariable        *)
(* appends the device paths of the four terminal types on the port to the *)
(* variable; TerminalRemoveConsoleDevVariable rebuilds it without every   *)
(* instance equal to one of them.  A variable is abstracted to the number *)
(* of times it lists this port's four paths; other consoles' instances    *)
(* are kept by both.                                                       *)
(***************************************************************************)
TerminalUpdateConsoleDevVariable(c) == [v \in ConsoleVars |-> c[v] + 1]
TerminalRemoveConsoleDevVariable(c) == [v \in ConsoleVars |-> 0]

\* TerminalDriverBindingSupported: a RemainingDevicePath must be a vendor
\* node of one of the four terminal types.  Both opens succeed or report
\* ALREADY_STARTED, since no other driver consumes the port.
TerminalDriverBindingSupported(r) == r \in {"NULL"} \cup TerminalTypes

\* TerminalDriverBindingStop with NumberOfChildren 0: when the tag is
\* there, the port's paths leave the three variables and the tag and its
\* device path copy are freed; both BY_DRIVER opens are closed.
StopControllerVars(t) ==
  /\ tagged' = FALSE
  /\ tagCopies' = tagCopies - (IF t THEN 1 ELSE 0)
  /\ conDev' = IF t THEN TerminalRemoveConsoleDevVariable(conDev) ELSE conDev
  /\ opened' = {}

\* TerminalDriverBindingStop for the children S: each child's protocols are
\* uninstalled (the consumers release them), its BY_CHILD open closed, its
\* events closed, and its name table, DevicePath and TERMINAL_DEV freed.
StopChildrenLive(S) ==
  [a \in Allocations |-> live[a] - Cardinality({d \in S : a \in dev[d].held})]
StopChildrenDevs(S) == [d \in Devs |-> IF d \in S THEN NoDev ELSE dev[d]]

-----------------------------------------------------------------------------
(***************************************************************************)
(* TerminalDriverBindingStart, one action per stretch of the handler.      *)
(***************************************************************************)

\* The parent opens: DevicePath and SerialIo BY_DRIVER (ALREADY_STARTED
\* when the driver holds them).  On a first start, unless the tag is
\* already there, the tag is installed with a copy of the parent's device
\* path and, unless the port is hot-plug, the three variables are updated.
TerminalDriverBindingStartUpdatesWhenTagged(r) ==
  /\ pc = "idle" /\ starts < MaxStarts /\ TerminalDriverBindingSupported(r)
  /\ opened' = {"DevicePath", "SerialIo"}
  /\ rdp' = r /\ starts' = starts + 1 /\ pc' = "children"
  /\ tagged' = TRUE /\ tagCopies' = tagCopies + (IF tagged THEN 0 ELSE 1)
  /\ conDev' = IF hotPlug THEN conDev ELSE TerminalUpdateConsoleDevVariable(conDev)
  /\ UNCHANGED <<hotPlug, dev, live, cur, node, status, faults>>

TerminalDriverBindingStart(r) ==
  /\ pc = "idle" /\ starts < MaxStarts /\ TerminalDriverBindingSupported(r)
  /\ opened' = {"DevicePath", "SerialIo"}
  /\ rdp' = r /\ starts' = starts + 1
  /\ IF "SerialIo" \in opened \/ tagged
       THEN /\ pc' = "children"
            /\ UNCHANGED <<tagged, tagCopies, conDev, status, faults>>
       ELSE \E c \in Choices({"TagInstall"}) :
              /\ tagCopies' = tagCopies + 1
              /\ faults' = faults + (IF c["TagInstall"] THEN 0 ELSE 1)
              /\ IF c["TagInstall"]
                   THEN /\ tagged' = TRUE /\ pc' = "children"
                        /\ conDev' = IF hotPlug THEN conDev
                                     ELSE TerminalUpdateConsoleDevVariable(conDev)
                        /\ UNCHANGED status
                   ELSE /\ pc' = "error" /\ status' = "Error"
                        /\ UNCHANGED <<tagged, conDev>>
  /\ UNCHANGED <<hotPlug, dev, live, cur, node>>

\* OpenProtocolInformation on SerialIo: when it succeeds and some child
\* holds SerialIo BY_CHILD_CONTROLLER, Start returns ALREADY_STARTED; when
\* it fails, the check is skipped.
StartChildCheck ==
  /\ pc = "children"
  /\ \E c \in Choices({"OpenInfo"}) :
       /\ faults' = faults + (IF c["OpenInfo"] THEN 0 ELSE 1)
       /\ IF c["OpenInfo"] /\ \E d \in Devs : dev[d].byChild
            THEN pc' = "idle" /\ status' = "AlreadyStarted"
            ELSE pc' = "device" /\ UNCHANGED status
  /\ UNCHANGED <<hotPlug, opened, tagged, tagCopies, conDev, dev, live, rdp,
                 cur, node, starts>>

\* The DefaultNode (when RemainingDevicePath is NULL), the TERMINAL_DEV and
\* the WaitForKeyEx and WaitForKey events, each ending Start when it fails.
StartDevice ==
  /\ pc = "device"
  /\ LET P == (IF rdp = "NULL" THEN <<"DefaultNode">> ELSE <<>>)
                \o <<"TerminalDevice", "WaitForKeyEx", "WaitForKey">>
         d == CHOOSE d \in Devs : Free(d)
     IN  \E k \in FailAt(P) :
           LET made == Made(P, k) IN
           /\ live' = Alloc(live, made)
           /\ node' = ("DefaultNode" \in made)
           /\ cur' = IF "TerminalDevice" \in made THEN d ELSE 0
           /\ dev' = IF "TerminalDevice" \in made
                       THEN [dev EXCEPT ![d] = [NoDev EXCEPT !.held = made \ {"DefaultNode"}]]
                       ELSE dev
           /\ faults' = faults + (IF k = 0 THEN 0 ELSE 1)
           /\ pc' = IF k = 0 THEN "configure" ELSE "error"
           /\ status' = IF k = 0 THEN status ELSE "Error"
  /\ UNCHANGED <<hotPlug, opened, tagged, tagCopies, conDev, rdp, starts>>

\* SetTerminalDevicePath (a pool allocation), then the ConIn Reset and the
\* ConOut SetAttribute, Reset, SetMode and EnableCursor, which write to
\* the serial port and may get a device error (ReportError).
StartConfigure ==
  /\ pc = "configure"
  /\ LET P == <<"DevicePath", "ConInReset", "ConOut">> IN
     \E k \in FailAt(P) :
       LET made == Made(P, k) \cap Allocations IN
       /\ live' = Alloc(live, made)
       /\ dev' = [dev EXCEPT ![cur].held = @ \cup made]
       /\ faults' = faults + (IF k = 0 THEN 0 ELSE 1)
       /\ pc' = IF k = 0 THEN "install" ELSE "error"
       /\ status' = IF k = 0 THEN status ELSE "Error"
  /\ UNCHANGED <<hotPlug, opened, tagged, tagCopies, conDev, rdp, cur, node, starts>>

\* The TwoSecondTimeOut timer event and the name table, whose failures
\* Start ignores, then InstallMultipleProtocolInterfaces of the child's
\* four protocols on a new handle (on failure the handle stays NULL).
StartInstall ==
  /\ pc = "install"
  /\ \E c \in Choices({"TwoSecondTimeOut", "NameTable", "Install"}) :
       LET made == {a \in {"TwoSecondTimeOut", "NameTable"} : c[a]} IN
       /\ live' = Alloc(live, made)
       /\ dev' = [dev EXCEPT ![cur].held = @ \cup made,
                             ![cur].protos = IF c["Install"] THEN ChildProtocols ELSE {}]
       /\ faults' = faults + Cardinality({p \in DOMAIN c : ~c[p]})
       /\ pc' = IF c["Install"] THEN "bind" ELSE "error"
       /\ status' = IF c["Install"] THEN status ELSE "Error"
  /\ UNCHANGED <<hotPlug, opened, tagged, tagCopies, conDev, rdp, cur, node, starts>>

\* On a hot-plug port the HotPlug GUID goes on the child too (its failure
\* is ignored); then the child opens SerialIo BY_CHILD_CONTROLLER.  On
\* success the DefaultNode is freed and Start returns EFI_SUCCESS.
StartBind ==
  /\ pc = "bind"
  /\ LET P == (IF hotPlug THEN {"HotPlugInstall"} ELSE {}) \cup {"ByChild"} IN
     \E c \in Choices(P) :
       /\ faults' = faults + Cardinality({p \in P : ~c[p]})
       /\ dev' = [dev EXCEPT ![cur].hotPlug = hotPlug /\ c["HotPlugInstall"],
                             ![cur].byChild = c["ByChild"]]
       /\ IF c["ByChild"]
            THEN /\ live' = Release(live, IF node THEN {"DefaultNode"} ELSE {})
                 /\ pc' = "idle" /\ status' = "Success"
                 /\ cur' = 0 /\ node' = FALSE
            ELSE /\ pc' = "error" /\ status' = "Error"
                 /\ UNCHANGED <<live, cur, node>>
  /\ UNCHANGED <<hotPlug, opened, tagged, tagCopies, conDev, rdp, starts>>

\* Error: a TERMINAL_DEV whose child handle exists is stopped with
\* Stop (1, &Handle); otherwise the fields allocated so far are freed one
\* by one.  Then the DefaultNode is freed and Stop (0) closes the parent.
ErrorPathStopsChildNever(d) == FALSE
ErrorPathStopsChild(d) == dev[d].protos # {}
ErrorPathFreesNoWaitForKeyEx(d) == dev[d].held \ {"WaitForKeyEx"}
ErrorPathFrees(d) == dev[d].held
ErrorPathNodeAlways(n) == {"DefaultNode"}
ErrorPathNode(n) == IF n THEN {"DefaultNode"} ELSE {}

StartError ==
  /\ pc = "error"
  /\ LET stop == cur # 0 /\ ErrorPathStopsChild(cur)
         freed == IF cur # 0 /\ ~stop THEN ErrorPathFrees(cur) ELSE {}
     IN  /\ live' = Release(Release(StopChildrenLive(IF stop THEN {cur} ELSE {}), freed),
                            ErrorPathNode(node))
         /\ dev' = IF cur = 0 THEN dev
                   ELSE IF stop THEN StopChildrenDevs({cur})
                   ELSE [dev EXCEPT ![cur] = [NoDev EXCEPT !.protos = dev[cur].protos]]
  /\ StopControllerVars(tagged)
  /\ pc' = "idle" /\ cur' = 0 /\ node' = FALSE
  /\ UNCHANGED <<hotPlug, rdp, status, starts, faults>>

-----------------------------------------------------------------------------
(***************************************************************************)
(* TerminalDriverBindingStop, as DisconnectController calls it.            *)
(***************************************************************************)

\* DisconnectController with the child handle d: Stop (1, [d]).
DisconnectChild(d) ==
  /\ pc = "idle" /\ dev[d].byChild
  /\ live' = StopChildrenLive({d}) /\ dev' = StopChildrenDevs({d})
  /\ UNCHANGED <<hotPlug, opened, tagged, tagCopies, conDev, pc, rdp, cur, node,
                 status, starts, faults>>

\* DisconnectController with no child handle: Stop for every child that
\* holds SerialIo BY_CHILD_CONTROLLER, then Stop (0).
DisconnectController ==
  /\ pc = "idle" /\ opened # {}
  /\ LET S == {d \in Devs : dev[d].byChild} IN
       live' = StopChildrenLive(S) /\ dev' = StopChildrenDevs(S)
  /\ StopControllerVars(tagged)
  /\ UNCHANGED <<hotPlug, pc, rdp, cur, node, status, starts, faults>>

\* ConnectController is called at most MaxStarts times.
StartsExhausted ==
  /\ pc = "idle" /\ starts = MaxStarts
  /\ UNCHANGED vars

Init ==
  /\ hotPlug \in BOOLEAN
  /\ opened = {} /\ tagged = FALSE /\ tagCopies = 0
  /\ conDev = [v \in ConsoleVars |-> 0]
  /\ dev = [d \in Devs |-> NoDev]
  /\ live = [a \in Allocations |-> 0]
  /\ pc = "idle" /\ rdp = "NULL" /\ cur = 0 /\ node = FALSE
  /\ status = "None" /\ starts = 0 /\ faults = 0

Next ==
  \/ \E r \in RemainingPaths : TerminalDriverBindingStart(r)
  \/ StartChildCheck \/ StartDevice \/ StartConfigure \/ StartInstall
  \/ StartBind \/ StartError
  \/ \E d \in Devs : DisconnectChild(d)
  \/ DisconnectController
  \/ StartsExhausted

Spec == Init /\ [][Next]_vars

-----------------------------------------------------------------------------
(***************************************************************************)
(* Properties.                                                             *)
(***************************************************************************)

Statuses == {"None", "Success", "AlreadyStarted", "Error"}

TypeOK ==
  /\ hotPlug \in BOOLEAN /\ tagged \in BOOLEAN /\ node \in BOOLEAN
  /\ opened \subseteq {"DevicePath", "SerialIo"}
  /\ tagCopies \in Nat /\ conDev \in [ConsoleVars -> Nat]
  /\ dev \in [Devs -> [held : SUBSET Allocations, protos : SUBSET ChildProtocols,
                       hotPlug : BOOLEAN, byChild : BOOLEAN]]
  /\ live \in [Allocations -> Nat]
  /\ pc \in {"idle", "children", "device", "configure", "install", "bind", "error"}
  /\ rdp \in RemainingPaths \cup {"NULL"} /\ cur \in {0} \cup Devs
  /\ status \in Statuses /\ starts \in 0..MaxStarts /\ faults \in 0..MaxFaults

\* Between calls, every child handle with the terminal's protocols on it
\* is a whole child of the port: Start (or its Error path through
\* Stop (1, &Handle)) never leaves protocols on a handle whose TERMINAL_DEV
\* is gone or that does not hold SerialIo BY_CHILD_CONTROLLER.  (That
\* Stop (0) at the end of the Error path may close the parent's opens
\* under a live child is the second-child finding, AtMostOneChild.)
ChildrenBoundToController ==
  pc = "idle" =>
    \A d \in Devs :
      /\ dev[d].byChild => dev[d].protos # {}
      /\ dev[d].protos # {} =>
           /\ dev[d].protos = ChildProtocols /\ dev[d].byChild
           /\ {"TerminalDevice", "DevicePath", "WaitForKeyEx", "WaitForKey"}
                \subseteq dev[d].held

\* Between calls, ConInDev, ConOutDev and ErrOutDev list the port's
\* terminal paths exactly once while the tag is on a port that is not
\* hot-plug, and not at all otherwise: Start updates them only when it
\* installs the tag, and every Stop (0) that removes the tag removes them.
ConsoleVarsMatchTag ==
  pc = "idle" =>
    /\ \A v \in ConsoleVars : conDev[v] = IF tagged /\ ~hotPlug THEN 1 ELSE 0
    /\ tagged => opened # {}

\* Between calls, nothing Start allocated has leaked: every live pool
\* buffer and event belongs to a TERMINAL_DEV that a child handle keeps,
\* whichever call of Start failed and whichever cleanup path ran.
NoLeakWhenIdle ==
  pc = "idle" =>
    \A a \in Allocations : live[a] = Cardinality({d \in Devs : a \in dev[d].held})

\* The port has at most one child: "This driver can only produce one
\* child per serial port" (the comment above OpenProtocolInformation).
AtMostOneChild == Cardinality({d \in Devs : dev[d].protos # {}}) <= 1
=============================================================================
