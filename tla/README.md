# TLA+ models of the EDK DXE core GCD and event services

This directory holds TLA+ models of the parts of the EDK firmware core that
have real state-machine depth: the Global Coherency Domain (GCD) memory and
I/O space manager (`src/branches/Intel/Edk/Foundation/Core/Dxe/Gcd/gcd.c`)
and the event/notification subsystem
(`src/tags/STABLE_20050120/Edk/Foundation/Core/Dxe/Event/event.c`), and
one driver built on the core's handle database: the serial terminal
driver's binding (`src/trunk/Edk/Sample/Universal/Console/Terminal/Dxe/Terminal.c`).
The models are checked with TLC. `PROJECT.json` lists the components, the runs,
the mutants, the map from every modelled definition to the source lines it
translates, the findings and the hazards.

## 1. The system

### 1.1 Components and how they interact

| Component | Source | State | Operations |
|---|---|---|---|
| Interval Map Entry and Range Editor | gcd.c 186-449 | one map: an ordered, gap-free list of `EFI_GCD_MAP_ENTRY` (Base, End, Capabilities, Attributes, GcdMemoryType, GcdIoType, ImageHandle, DeviceHandle), plus two spare entries per call | `CoreSearchGcdMapEntry`, `CoreInsertGcdMapEntry`, `CoreMergeGcdMapEntry`, `CoreCleanupGcdMapEntry`, `AlignValue` |
| Space Manager, memory | gcd.c 483-1321 | `mGcdMemorySpaceMap` under `mGcdMemorySpaceLock` | Add / Allocate / Free / Remove memory space, SetMemorySpaceAttributes, GetMemorySpaceDescriptor / Map (read-only) |
| Space Manager, I/O | gcd.c 1324-1549 | `mGcdIoSpaceMap` under `mGcdIoSpaceLock` | Add / Allocate / Free / Remove I/O space, the two readers |
| Bootstrap Sequencer | gcd.c 1590-2068 | the HOB list (read-only), both maps, the memory services' descriptors | `CoreInitializeMemoryServices`, `CoreInitializeGcdServices` |
| Event Queue | event.c | per-TPL notify FIFOs `gEventQueue`, signal lists `gEventSignalQueue`, `mRuntimeEventList`, each event's Type, NotifyTpl and SignalCount, `gEventPending` | Create, Signal, Check, Wait, Close, NotifySignalList, DispatchEventNotifies |
| TPL and locks | not in `src/` | current TPL, lock owner | Raise/Restore TPL, Acquire/Release lock |
| Terminal driver binding | Terminal.c 85-1182 | the driver's opens of the serial controller, its GUID tag, the console variables ConInDev/ConOutDev/ErrOutDev, each child's TERMINAL_DEV, handle and protocols | Supported, Start, Stop (children, controller), the two console-variable routines |

The Bootstrap Sequencer creates both maps (one NonExistent entry each) and
fills them from the HOBs through the Space Manager. Every Space Manager call
then works in three steps, all under the map's lock. It searches the range
(`CoreSearchGcdMapEntry`) and checks every covered entry against the
operation's precondition. It allocates two spare entries from pool
(`CoreAllocateGcdMapEntry`); for SetAttributes it also asks the CPU arch
protocol to apply the attributes. Finally it splits, updates and merges
(`CoreInsertGcdMapEntry` per entry, then `CoreCleanupGcdMapEntry`).
`CoreAddMemorySpace` of system memory also allocates the new pages to the
DXE core and hands them to the memory services (`CoreAddMemoryDescriptor`).
The event services run under the same TPL discipline. The GCD lock is an
`EFI_LOCK` at `EFI_TPL_NOTIFY`, so no notify function can run inside a GCD
call.

The terminal driver is a bus driver on a serial port. ConnectController
calls its `Start`, which opens the port, tags it and lists it in the console
variables once, then builds one child handle with the text protocols; every
failed call in `Start` jumps to an Error path that undoes the work through
`Stop`. DisconnectController calls `Stop` for the child, or for every child
and then for the controller.

### 1.2 What is hard about it

- **Range Editor:**
  - splitting the bottom and top of a range using two spares shared by the whole loop;
  - merging backward over a list that shrinks under the walk;
  - UINT64 wrap-around of `BaseAddress + Length - 1`;
  - alignment rounding.
- **Space Manager:**
  - the order of early returns (search, per-entry checks, pool, CPU);
  - five allocate types, each with its own search;
  - the restart of a search at an ineligible sub-entry;
  - a MaxAddress ceiling given through the in/out base;
  - the two-step Add (declare, then allocate the pages to the core, falling back to one page at a time).
- **Bootstrap:** a search loop over the HOBs with a shrinking ceiling, and a final sweep over a snapshot of the map.
- **Event Queue:**
  - the lock is released around notify callbacks, which may re-enter;
  - idempotent signalling through `SignalCount`;
  - FIFO order per TPL, with re-queuing at the tail;
  - the NOTIFY_SIGNAL_ALL broadcast;
  - the double-checked read in `CheckEvent`.
- **Terminal driver:** thirteen calls in `Start` that may fail, each with its own state to undo; the Error path chooses between `Stop (1)` and a field-by-field free by whether the child handle exists; a second `Start` on a started port must take the ALREADY_STARTED paths.

### 1.3 Properties that make each component correct

- **Range Editor and Space Manager:**
  - the map is ordered, gap-free and spans exactly `[0, 2^SizeOfMemorySpace - 1]` (spec §3, invariant 1-2);
  - no two adjacent entries are mergeable;
  - `Attributes ⊆ Capabilities` (invariant 3);
  - an error leaves the map unchanged (§7);
  - each call changes only the range it names, under its precondition (§4.2 table);
  - the searches return the lowest (bottom-up) or highest (top-down) feasible aligned base (§4.2 tie-break);
  - the debug ASSERTs hold.
- **Bootstrap:** phase 1 terminates and picks a region of at least the minimum size; after phase 2 every unallocated system-memory range is owned by the core and declared exactly once.
- **Event Queue:**
  - each live event is on at most one notify queue, the one of its own NotifyTpl, at most once, and a closed event is on no list;
  - a signalled NOTIFY_SIGNAL event is queued, so a signal ignored because `SignalCount` is set is covered by a notification still to come;
  - whenever interrupts are enabled, no notification waits at a TPL above the current one;
  - `CheckEvent` returns EFI_SUCCESS at most once per signal;
  - every queued notification is eventually delivered;
  - only an event with a notify function is queued (spec §4.4).
- **Terminal driver:** between calls, every child is whole and holds its parent's SerialIo BY_CHILD_CONTROLLER; the console variables list the port once exactly while it is tagged and not hot-plug; nothing allocated leaks; the port has at most one child (the code's comments at lines 188 and 345).

## 2. Modules

| Module | Models |
|---|---|
| `GcdRangeEditor` | The Range Editor as pure operators over a map held as a sequence of records in list order. `CoreSearchGcdMapEntry`, `InsertEntry` (`CoreInsertGcdMapEntry`), `InsertRange`/`SplitMap` (the Convert/Insert loop), `CoreMergeGcdMapEntry`, `MergeBackward` and `CoreCleanupGcdMapEntry`, `ApplyToRange` (the whole split/update/merge of one call). `InsertAssertsHold` holds when the ASSERTs on the spares would pass. |
| `GcdMemorySpace` | The memory Space Manager. The variables are `memMap` (`mGcdMemorySpaceMap`), `status` (the last call's EFI_STATUS), `memoryMap` (the pages handed to `CoreAddMemoryDescriptor`) and `insertAsserts` (no ASSERT has failed so far). `CoreConvertSpace` and `CoreAllocateSpace` are operators whose IF chains follow the code's early returns in order. `AllocateScan` is the recursive search loop. `AllocateAtPlacement` holds the steps of `CoreAllocateSpace` that follow the search. `CoreAddMemorySpace` includes the page allocation and the per-page fallback (`AddSystemMemoryPages`, `AddPages`). Each of these operators takes the result of the call before it as a parameter, so that result is computed once and each step reads it. The actions are `AddMemorySpace`, `AllocateMemorySpace`, `FreeMemorySpace`, `RemoveMemorySpace` and `SetMemorySpaceAttributes`, one per public call. Each models the whole call atomically, because the map lock is held from the search to the last merge. |
| `GcdSpaceAbstract` | What the Space Manager promises, address by address: each address has a type, capabilities, attributes and an owner. Each call changes one contiguous range under its row of the spec's table. No descriptors, splits or merges. |
| `MCGcdMemorySpace` | TLC instance: constants, input sets and views. |
| `MCGcdRefinement` | The refinement mapping `AbsSpace` (the fields of the descriptor covering each address) and `AbstractSpec == Abs!Spec`. |
| `GcdBootstrap` | Phase 1 of the Bootstrap Sequencer, `CoreInitializeMemoryServices`. `hobs` is the HOB list (the PHIT's fields and the other HOBs in order), chosen in `Init` from `HobLists`. The variables keep the code's locals: `BaseAddress`/`Length` (the PHIT's region), `PhitResourceHob` and `ResourceHob` (indices, 0 for NULL), `MaxMemoryBaseAddress`/`MaxMemoryLength`, `MaxAddress`, plus `memoryMap` (what `CoreAddMemoryDescriptor` was given) and `asserts`. `FindPhitResource` is the first walk with its three fallbacks; `SearchPass` is one pass of the do-while loop; `ChooseRegion` is the final choice, its ASSERT and the declaration. Resource attributes are sets of names; `MaskedAttributes` is the `& MEMORY_ATTRIBUTE_MASK` the code compares with `TESTED_MEMORY_ATTRIBUTES` and the other classes. |
| `MCGcdBootstrap` | TLC instance: a 32-byte address space with 2-byte pages and an 8-byte minimum; two PHIT resource HOBs (one leaving 8 bytes below the HOB list, one 4), and every ordering of the PHIT's resource HOB with any subset of a small tested region, a large tested region and an MMIO window. |
| `GcdServicesInit` | The whole Bootstrap Sequencer and the I/O services after it. It EXTENDS `GcdBootstrap` (phase 1, the action `Phase1`) and takes the Space Manager's operators from `Gcd == INSTANCE GcdMemorySpace WITH ...`, applying them to its own maps. Variables: `mGcdMemorySpaceMap`, `mGcdIoSpaceMap`, `hobIndex` (the walks' `Hob.Raw`), `MemorySpaceMap` (the snapshot) and `Index` (the sweep's position), plus `ioCalls`/`ioOperation` for the driver calls. `InitializeMaps` creates both sentinel entries. `AddResourceHob` is one iteration of the first walk: the switch on the resource type and attribute mask (`GcdMemoryTypeOf`, `GcdIoTypeOf`), `CoreConvertResourceDescriptorHobAttributesToCapabilities`, and the Add calls; its last step is `EndResourceWalk`, the allocation of the phase-1 region to the DXE core. `AllocateHob` is one iteration of the second walk (memory-allocation HOBs with `CoreGetMemorySpaceDescriptor` and `CoreAddMemoryDescriptor`, FV HOBs as MMIO); its last step relocates the HOB list (content unchanged) and takes the `CoreGetMemorySpaceMap` snapshot. `SweepDescriptor` is one iteration of the sweep (`SweptDescriptor`, `SweepLength`). Once `pc = "ready"`, `CoreAddIoSpace`, `CoreAllocateIoSpace`, `CoreFreeIoSpace` and `CoreRemoveIoSpace` are driver calls on the I/O map, each one atomic step under `mGcdIoSpaceLock`. Statuses the code ignores are ignored. |
| `MCGcdServicesInit` | TLC instance: the HOB lists of `MCGcdBootstrap` with the small tested region moved off the page grid to [17, 19), an I/O window [0, 4) and a reserved I/O range [6, 8) ahead of them, and after them the DXE stack allocation at 14 (in the PEI memory), a reserved allocation at 24 (inside the large region) and an FV at 30 (in the MMIO window). An 8-port I/O space and two drivers. |
| `EventQueue` | The event services and the TPL machinery on one processor. The event variables are `created`/`closed` (the pool), `evType`, `evTpl`, `signalCount`, `gEventQueue` (TPL -> sequence of events), `gEventPending` (the set of TPLs whose bit is set), `gEventSignalQueue` and `mRuntimeEventList`. The processor is `gEfiCurrentTpl` and `stack`, a call stack of frames `[proc, pc, ev, tpl, st]`. Each region between `CoreAcquireEventLock` and `CoreReleaseEventLock` is one action (`SignalNotify`, `DispatchNext`, `CheckQueue`, `CloseUnlink`, `CreateEvent`, ...). The release pushes a `RestoreTpl` frame, and `CoreRestoreTpl` pushes a `Dispatch` frame for each pending TPL above the one being restored. `DispatchNotify` is the notify function: it may make one call from `NotifyCalls` (Signal, Check or Wait), which runs nested on the stack. `TimerInterrupt` pushes a Signal of a timer event at `EFI_TPL_HIGH_LEVEL - 1` whenever the TPL is below `EFI_TPL_HIGH_LEVEL`. `AppCall` is the application making a call with nothing on the stack. |
| `MCEventQueue` | TLC instance: three event addresses and the request and call sets of each run. |
| `TerminalDriver` | The terminal driver on one serial port. Variables: `opened` (the BY_DRIVER opens), `tagged` and `tagCopies` (the tag and its device-path copies), `conDev` (how often each console variable lists the port), `dev` (TERMINAL_DEV slots: `held` allocations, the child's `protos`, its HotPlug GUID, its BY_CHILD open), `live` (live pool buffers and events per kind), and `pc`, `rdp`, `cur`, `node` for the running Start. `TerminalDriverBindingStart` (opens, tag, variables), `StartChildCheck` (OpenProtocolInformation), `StartDevice`, `StartConfigure`, `StartInstall`, `StartBind` and `StartError` are the stretches of `Start` in order; Start runs without interruption (TPL_APPLICATION code that calls no one else), so the interleaving is only between calls. `DisconnectChild` and `DisconnectController` are Stop as DisconnectController calls it. A failing call is chosen from `Faults` within `MaxFaults`. |
| `MCTerminal` | TLC instance: RemainingDevicePath NULL, a VT-100 node or an unsupported GUID; the two fault sets. |

Data is abstracted so that TLC can check the model; all the control is kept.
- **Addresses** are scaled down. `SizeOfMemorySpace = 2` gives the four addresses 0..3, and pages are 2 addresses (`EFI_PAGE_SHIFT = 1`).
- **UINT64 arithmetic** is arithmetic modulo `2^WordBits` with `WordBits = 3`, so `BaseAddress + Length - 1` can wrap just as it does in the code.
- **Attribute bitmasks** are sets of names (`UC`, `WB`, `RUNTIME`, `PORT_IO`): `&` is ∩ and `|` is ∪.
- **The pool allocator** and the CPU arch protocol are modelled only by their outcomes: a pool call may fail (`PoolCanFail`), and `SetMemoryAttributes` may fail, or the protocol may be absent (`CpuCanFail`).

## 3. Runs

| Run | Config | Expect | What it shows |
|---|---|---|---|
| gcd_memory_map | MCGcdMemorySpace.cfg | pass | Every sequence of Add, Allocate (all 5 types), Free, Remove and SetAttributes calls keeps the map well-formed (`TypeOK`), covering the space exactly (`MapCoversAddressSpace`) and coalesced (`MapCoalesced`). In every reachable map, a successful SetMemorySpaceAttributes repeated with the same arguments leaves the map unchanged (`SetAttributesIdempotent`, spec property 2). 4,096 distinct maps. |
| gcd_refinement | MCGcdRefinement.cfg | pass | With page-aligned bases for every call, `GcdMemorySpace` implements `GcdSpaceAbstract` (`AbstractSpec`). In every reachable map and for every request, the two bottom-up searches return the lowest feasible aligned base, or NotFound exactly when none exists (`BottomUpFindsLowest`). The reference enumerates addresses and does not use the code's search. In the same maps, a successful AddMemorySpace of memory-mapped I/O followed by RemoveMemorySpace of the same range restores the map exactly (`AddRemoveRoundTrip`, spec property 3). For system memory the round trip cannot hold as the spec states it: CoreAddMemorySpace gives the range's pages to the DXE core, so a Remove right after it is refused (AccessDenied). About 7,600 states. |
| gcd_remove_keeps_attributes | MCGcdAttrs.cfg | violation | SetAttributes(UC) then Remove leaves Attributes {UC} with Capabilities {}. |
| gcd_add_error_changes_map | MCGcdAddError.cfg | violation | A sub-page AddMemorySpace of system memory returns InvalidParameter after declaring the range. |
| gcd_top_down_search | MCGcdTopDown.cfg | violation | A MaxAddress top-down search misses a placement that ends exactly at the ceiling. |
| gcd_insert_asserts | MCGcdAsserts.cfg | violation | A convert that splits its first entry and spans a second trips `ASSERT (BottomEntry->Signature == 0)`. |
| gcd_bootstrap_hang | MCGcdBootstrap.cfg | violation | `CoreInitializeMemoryServices` never returns (`MemoryServicesInitTerminates`) on the list [PHIT resource, small tested region, MMIO window]. |
| gcd_services_init | MCGcdServicesInit.cfg | pass | On every ordering of the resource HOBs, the descriptors handed to the memory services by phase 1, the allocation HOBs and the sweep never overlap (`DeclaredRangesDisjoint`). When `CoreInitializeGcdServices` returns, they cover exactly the system memory the GCD map gives the DXE core, and none reaches past the top of the memory space (`MemoryServicesMatchGcd`). After it, no sequence of up to three driver I/O calls changes the type of an owned port, or its owner except by FreeIoSpace (`IoOwnershipStable`). Each of those calls may find the pool unable to give it its two spare map entries; every call that fails, for that or any other reason, leaves the I/O map as it was (`IoErrorLeavesMapUnchanged`, spec section 7). About 43,000 states. |
| event_queues | MCEventQueue.cfg | pass | Creates of a timer, a ReadyToBoot event, the ReadyToBoot broadcaster and a NOTIFY_WAIT event (and one refused request); Signal, Close, Check and Wait from the application; notify functions that signal, check and wait (refused above EFI_TPL_APPLICATION); one timer interrupt. The queues and lists hold live events once at their own level (`QueuesHoldLiveEventsOnce`), a signalled NOTIFY_SIGNAL event is queued (`SignalledEventIsQueued`), nothing waits above the TPL (`NoNotificationAboveTpl`), the dispatch ASSERTs hold (`EventAssertsHold`), and `CheckEvent` never returns EFI_SUCCESS twice for one signal though its first read of `SignalCount` is made without the lock (`CheckConsumesEachSignalOnce`). Under weak fairness of the processor, every event queued for its notify function eventually leaves its queue (`QueuedNotifyEventuallyRuns`). About 300,000 states. |
| event_broadcast_queued | MCEventBroadcast.cfg | violation | Signalling the NOTIFY_SIGNAL_ALL broadcaster puts the broadcaster itself on notify queue 0 (`OnlyNotifyEventsQueued`). |
| terminal_binding | MCTerminal.cfg | pass | Up to four ConnectController calls and any DisconnectController calls on a hot-plug or fixed port, with up to three failing calls anywhere in Start except OpenProtocolInformation, whose failure is the `terminal_second_child` finding. Every child left between calls has all four protocols, holds SerialIo BY_CHILD_CONTROLLER, and keeps its TERMINAL_DEV, DevicePath and events (`ChildrenBoundToController`); the console variables list the port exactly once while it is tagged and not hot-plug (`ConsoleVarsMatchTag`); every live buffer and event belongs to a child (`NoLeakWhenIdle`). About 3,600 states. |
| terminal_second_child | MCTerminalSecondChild.cfg | violation | When OpenProtocolInformation fails, a second ConnectController of a started port builds a second child (`AtMostOneChild`). |

Each violation run is a finding in `PROJECT.json`. The model does what the
code does, and the property states what the spec (§3 invariant 3, §7, §4.2
tie-break, §3 invariant 1, §4.2 table, §4.4) or the code's own ASSERT says.

**The bootstrap hang.** The do-while search of `CoreInitializeMemoryServices`
ends each pass with `MaxAddress = ResourceHob->PhysicalStart`. `ResourceHob`
is not the region just found (`MaxResourceHob`) but the last resource HOB
other than the PHIT's that the walk visited, of any type. From the second pass
on, the ceiling is the same every time. If the highest tested region below it
is smaller than `MINIMUM_INITIAL_MEMORY_SIZE`, the pass finds that region again
and the loop never ends. The loop runs at least once even when the PHIT's own
region is large enough, so a platform whose HOB list has a small tested region
and an MMIO resource HOB after it hangs at DXE entry. The run uses weak
fairness of the whole `Next`: the boot processor runs nothing but this code.

**The broadcaster finding.** `CoreCreateEvent` puts every event with a signal
type on that type's signal list, the NOTIFY_SIGNAL_ALL broadcaster (0x603,
0x604) included. Its NotifyTpl is left 0 because it is not a notify type. When
it is signalled, `CoreNotifySignalList` calls `CoreNotifyEvent` on every event
of the list, so the broadcaster is appended to `gEventQueue[0]` and bit 0 of
`gEventPending` is set. `CoreRestoreTpl` never restores below
EFI_TPL_APPLICATION, so queue 0 is never dispatched. The broadcaster stays
there with `SignalCount = 1`, and every later `SignalEvent` of it is ignored:
a second broadcast of the same event never happens. Were queue 0 ever
dispatched, the code would call a NULL notify function.

**The second terminal child.** `Start` looks for an existing child with
`OpenProtocolInformation` and returns ALREADY_STARTED if one holds SerialIo
BY_CHILD_CONTROLLER. When that call fails (it allocates its buffer from
pool), the check is skipped and `Start` goes on to build and install a
second child on the same port, against the comments "This driver can only
produce one child per serial port" and "a bus driver with at most 1 child
device". A later failure in such a Start also runs `Stop (0)` under the
first child, closing the parent's opens and removing the tag.

**Retired runs.** Two earlier violation runs made room for the terminal
driver's. The length overflow (gcd.c 265) is kept as a hazard: with a length
of `2^WordBits - 1` in `Lengths`, `MCGcdMemorySpace.cfg` reaches an inverted
descriptor and `MapCoversAddressSpace` fails. The page base of an unaligned
Add being rounded down (gcd.c 1086) also breaks `AbstractSpec` when
`MCGcdRefinement.cfg` uses all of `MCBases`.

**Bounds.**
- **Four addresses and two pages** are enough for every split shape. A range can start inside an entry, end inside an entry, span two or three entries, and lie on or across a page boundary.
- **`Lengths = {1, 2, 3}`** gives sub-page, page and odd spans; `2^WordBits - 1` would add the wrap (see Retired runs).
- **`Bases = 0..3`** covers both the MaxAddress ceiling and its wrap-around at base 0 (`MaxAddress = *BaseAddress - 1`).
- **Alignments {0, 1}** exercise rounding up and down in the violation runs of the memory map; `gcd_memory_map` and `gcd_refinement` use alignment 0 only, to keep their state spaces within reach.
- **Images and devices:** one image besides the core (`H1`) and only the NULL device, since merges compare handles by identity and one non-core owner is enough to tell owned from unowned.
- **Capability and attribute sets:** one of each. This keeps the state space at 10^4 maps.
- **Phase 2:** a 32-byte memory space and the HOB lists of the phase-1 run, so that the phase-1 region is in turn the PHIT's region or the large region and the allocation HOBs fall inside it, next to it, or in MMIO; the off-grid tested region makes the sweep round inwards: [17, 19) holds no whole page, so the sweep declares it with zero pages and its allocation of zero bytes fails. Three driver I/O calls (`MaxIoCalls`) allow an allocate, a free or a remove by one driver and an allocate by the other; `IoNonExistent` among the types takes `CoreAddIoSpace`'s type check and lets a driver allocate non-existent ports, which the code allows.
- **Refinement run:** it uses a smaller request set (page-aligned bases 0 and 2, alignment 0, lengths 1 and 2, AllocateAddress only) because every step is also checked against the abstract ranges. Placement by the search types is checked by the search runs; the refinement run is about what a successful call does to its range. Unaligned bases are left to the other runs: with them every step's check against the abstract ranges takes more than twice as long, and an unaligned Add already breaks the refinement (see Retired runs). The abstract Next reads the new space once and keeps only the ranges that contain every changed address.

**Per-run inputs.** The runs about the map's shape declare only system memory and allocate at alignment 0: ownership, not type, is what splits and merges descriptors there. The refinement run declares both system memory and memory-mapped I/O, allocates by AllocateAddress at alignment 0 (the searches themselves are quantified in the property) and sets attributes, so that the round trip meets neighbours that differ in type, owner and attributes. The round trip is checked for memory-mapped I/O, for which AddMemorySpace allocates no pages. Idempotence and the round trip are invariants that quantify over the call's arguments in every reachable map. They apply the modelled call twice to the current map.

**Views.** `status`, `memoryMap` and `insertAsserts` are written but never read by a call. Each run's VIEW therefore keeps only the variables its properties read: `memMap`, plus `insertAsserts` for the ASSERT run and `memoryMap` for the refinement.

**Event bounds.** `MaxCalls` (5) counts every call, nested
ones included; it allows two creates, a signal, a nested call from a notify
function and a close or check in one behaviour. One timer interrupt (`MaxInterrupts`)
is enough to interrupt any point where the TPL is below HIGH_LEVEL, including
the unlocked read of `CheckEvent` and a running notify function. `MaxDepth = 6`
bounds the stack; a notify function or interrupt that would exceed it does
not call. Three event addresses let two events be queued while a third is
created or closed, and let the pool run out (`CreateOutOfResources`). The
request sets include one refused request, so the early returns of
`CoreCreateEvent` are taken.

**Terminal bounds.** `MaxStarts = 4` allows a Start, a Disconnect of the
child, a second Start through the ALREADY_STARTED opens, and one more
Start on a started port; `MaxFaults = 3` lets a failure happen in any
stretch of any of those Starts, two in one Start where some are ignored,
and leaves room for a failing Start after a successful one. `Devs` has
`MaxFaults + 1` slots: a second child needs a failed OpenProtocolInformation.
Hot-plug and fixed ports are both initial states. The environment holds
no other driver of the port, so the opens only return SUCCESS or
ALREADY_STARTED, and the consumers of a child release it when asked, so the
uninstall in `Stop` succeeds; an InstallMultipleProtocolInterfaces that
fails leaves the handle NULL, as the UEFI specification requires.

**Fairness.** The Space Manager calls come from arbitrary callers, and
nothing in the code obliges anyone to make a call, so the Space Manager runs
have no fairness. The Bootstrap Sequencer runs alone on the boot processor,
so its steps are weakly fair in the phase-1 run (`gcd_bootstrap_hang`), where the do-while loop's exit is what is in question. The phase-2 run checks safety only and assumes no fairness: its three loops are bounded for-loops over the HOB list and the descriptor count, each step advancing `hobIndex` or `Index`, so their termination follows from the definitions and a liveness property of it would say nothing about the code. The event model assumes weak fairness of `Step` only: a processor
that has code on its stack keeps executing it. Application calls and timer
interrupts are not required to happen. `CoreRestoreTpl`'s loop and
`CoreDispatchEventNotifies`' loop are plain loops with no waiting, and the
bounds on calls and depth make every notify function return, so nothing else
is needed for the liveness run. The terminal model has no liveness
property and no fairness: ConnectController and DisconnectController are
calls no one is obliged to make, and the run stops by `StartsExhausted`.

**Mutants.** Each property of a passing run is shown to be sensitive to the
code by a plausible bug in a mapped definition, listed in `PROJECT.json`:
- a bottom copy made without its guard breaks `TypeOK`;
- a top copy that starts one address low breaks `MapCoversAddressSpace`;
- a cleanup without the forward merge breaks `MapCoalesced`;
- a backward-merge walk that skips the link after a merge breaks `SetAttributesIdempotent`;
- a Remove that keeps the capabilities breaks `AddRemoveRoundTrip`;
- an inclusive MaxAddress ceiling breaks `BottomUpFindsLowest`;
- a Remove that does not check the owner breaks `AbstractSpec`;
- an I/O sentinel ending one port too high breaks `TypeOK` (the phase-2 model's);
- a sweep that also declares owned system memory breaks `DeclaredRangesDisjoint`;
- a sweep length not reduced by the rounding of the base breaks `MemoryServicesMatchGcd`;
- an allocate that does not check the entry's owner breaks `IoOwnershipStable`;
- an allocate that updates the range before it takes its spare entries from the pool breaks `IoErrorLeavesMapUnchanged`;
- counting a signal of an already signalled event breaks `TypeOK` (the event model's);
- a Close that leaves the event on its notify queue breaks `QueuesHoldLiveEventsOnce`;
- a dispatch that does not clear `SignalCount` breaks `SignalledEventIsQueued`;
- a `CoreNotifyEvent` that does not set the pending bit breaks `NoNotificationAboveTpl`;
- a `CoreRestoreTpl` that dispatches every pending TPL, not only those above the new one, breaks `EventAssertsHold`;
- a lock release that does not go through `CoreRestoreTpl` breaks `QueuedNotifyEventuallyRuns`;
- a `CheckEvent` that does not re-read `SignalCount` under the lock breaks `CheckConsumesEachSignalOnce`;
- a terminal Error path that frees the DefaultNode whether or not it was allocated breaks `TypeOK` (the terminal model's);
- an Error path that never calls `Stop (1)` for an installed child breaks `ChildrenBoundToController`;
- a Start that updates the console variables even when the port is already tagged breaks `ConsoleVarsMatchTag`;
- an Error path that does not close WaitForKeyEx breaks `NoLeakWhenIdle`.

## 4. Not modelled, and the plan

- **I/O space readers and search types:** `CoreGetIoSpaceDescriptor` and `CoreGetIoSpaceMap` only read the map. The MaxAddress and top-down allocate types are checked on the memory map, through the same `AllocateScan`, and not repeated on the I/O map.
- **Pool failure of the memory services:** it is in the model (`PoolCanFail`) but off in every memory-space run; it is checked on the I/O services, which run the same `CoreConvertSpace` and `CoreAllocateSpace` (`IoErrorLeavesMapUnchanged`). On the memory map the outcome that OutOfResources leaves the map unchanged is stated by `ErrorLeavesMapUnchanged`, which is already violated without pool failure; that a successful `CoreAddMemorySpace` gave every page to the core is broken by its per-page fallback returning the last page's status, and would need a violation run of its own. The spare entries leaked when the CPU refuses attributes (gcd.c 647) are pool, not map, state.
- **Phase 2 failures:** the pool allocations of `CoreInitializeGcdServices` are assumed to succeed, as its ASSERTs require. `CoreGetMemorySpaceMap` failing would leave `MemorySpaceMap` NULL with `NumberOfDescriptors` set, a NULL dereference the model cannot continue from. The UINT64 wrap of the sweep's length for a sub-page descriptor needs pages of 4 bytes or more; `MemoryServicesMatchGcd` would catch it, but no run is left for a second page size. `GetCpuHobInfo` is replaced by the constants `SizeOfMemorySpace` and `SizeOfIoSpace`.
- **Bootstrap Sequencer:** phase 1's other failure, stopping with nothing found while a large enough region lies below the ceiling, is described in the hazards but not checked.
- **Event Queue, not yet modelled:** the timer list and `CoreSetTimer` (a timer interrupt here signals any live timer event), protocol notifies removed by `CoreCloseEvent`, `CoreShutdownEventServices` and the virtual-address change of runtime events, `WaitForEvent` on several events, reuse of a freed event's address, and Close called from a notify function. `CoreRaiseTpl` is only modelled as the lock's raise to EFI_TPL_HIGH_LEVEL.
- **Terminal driver, not modelled:** the ConIn/ConOut protocol functions (TerminalConIn.c and TerminalConOut.c are not in the repository; `Start` only sees their status), the `SerialInTimeOut` computation and `SetAttributes` (its failure only changes a timeout), the FIFOs, `TerminalFreeNotifyList` (no key notify can be registered before `Start` ends), and pool failures inside the console-variable routines and `TerminalGetVariableAndSize` (a variable is abstracted to the count of this port's paths, so the other consoles' paths such a failure drops are not represented). The tag's device-path copy leaked when the tag install fails is counted (`tagCopies`) but no run states a property of it.
- **Out of scope:** device drivers (SCSI, VGA, PCI, ARP, iSCSI, Cirrus Logic), protocol and GUID headers, HII forms and IFR op-codes, SMBIOS/data-hub records, SEC and platform glue, and the build tools (ProcessDsc, VfrCompile). These are declarations, ABI glue or offline tooling outside the spec's scope. They have no state machine worth checking.
