-------------------------- MODULE GcdSpaceAbstract --------------------------
(***************************************************************************)
(* What the GCD memory Space Manager promises, address by address, with   *)
(* no descriptors, splits or merges: every address of the memory space     *)
(* has a memory type, capabilities, attributes and an owner, and each      *)
(* successful call changes them on one contiguous range only, under the   *)
(* precondition the spec's table (section 4.2) gives.  A call that fails   *)
(* is a stuttering step.  GcdMemorySpace implements this specification     *)
(* under the mapping in MCGcdRefinement.                                   *)
(***************************************************************************)
EXTENDS Integers

CONSTANTS
  MaxAddress,   \* 2^SizeOfMemorySpace - 1
  PageSize,     \* EFI_PAGE_SIZE
  Core,         \* the DXE core's image handle
  NULL

VARIABLES
  space,        \* address -> [type, caps, attrs, image, device]
  memoryMap     \* pages declared to the memory services

vars == <<space, memoryMap>>

Addresses == 0..MaxAddress

\* The contiguous ranges a call can name.
Ranges == {lo..hi : lo \in Addresses, hi \in Addresses} \ {{}}

\* Fields of address a other than those named are the same in new.
Keeps(new, a, fields) == \A f \in fields : new[a][f] = space[a][f]

\* The whole pages that lie inside R.
PagesIn(R) == {p \in R : p % PageSize = 0 /\ p + PageSize - 1 \in R}
PageOf(p) == p..(p + PageSize - 1)

\* The lowest address of R.
lo(R) == CHOOSE a \in R : \A b \in R : a <= b

Init ==
  /\ space = [a \in Addresses |->
                [type |-> "NonExistent", caps |-> {}, attrs |-> {},
                 image |-> NULL, device |-> NULL]]
  /\ memoryMap = {}

(***************************************************************************)
(* Each action below takes the range R the call names and new, the value *)
(* of space after the step.                                               *)
(*                                                                         *)
(* AddMemorySpace: declares non-existent, unowned space; capabilities      *)
(* always include RUNTIME.  For system memory some of the whole pages of  *)
(* the range become the DXE core's and are declared to the memory         *)
(* services (those whose allocation succeeded), and nothing else does.     *)
(***************************************************************************)
Add(R, new) ==
  /\ \A a \in R : space[a].type = "NonExistent" /\ space[a].image = NULL
  /\ \E t \in {"Reserved", "SystemMemory", "MemoryMappedIo"} :
     \E P \in SUBSET PagesIn(R) :
       /\ \A a \in R :
            /\ new[a].type = t
            /\ "RUNTIME" \in new[a].caps
            /\ new[a].caps = new[lo(R)].caps
            /\ Keeps(new, a, {"attrs", "device"})
            /\ new[a].image = IF \E p \in P : a \in PageOf(p)
                                THEN Core ELSE NULL
       /\ t # "SystemMemory" => P = {}
       /\ memoryMap' = memoryMap \cup P

(***************************************************************************)
(* AllocateMemorySpace (every allocate type): the range is unowned space   *)
(* of one type and becomes one owner's.                                    *)
(***************************************************************************)
Allocate(R, new) ==
  /\ \A a \in R : space[a].image = NULL /\ space[a].type = space[lo(R)].type
  /\ new[lo(R)].image # NULL
  /\ \A a \in R : /\ new[a].image = new[lo(R)].image
                  /\ new[a].device = new[lo(R)].device
                  /\ Keeps(new, a, {"type", "caps", "attrs"})
  /\ UNCHANGED memoryMap

\* FreeMemorySpace: owned space becomes unowned.
Free(R, new) ==
  /\ \A a \in R : space[a].image # NULL
  /\ \A a \in R : /\ new[a].image = NULL /\ new[a].device = NULL
                  /\ Keeps(new, a, {"type", "caps", "attrs"})
  /\ UNCHANGED memoryMap

\* RemoveMemorySpace: declared, unowned space becomes non-existent and
\* loses its capabilities.
Remove(R, new) ==
  /\ \A a \in R : space[a].type # "NonExistent" /\ space[a].image = NULL
  /\ \A a \in R : /\ new[a].type = "NonExistent" /\ new[a].caps = {}
                  /\ Keeps(new, a, {"attrs", "image", "device"})
  /\ UNCHANGED memoryMap

\* SetMemorySpaceAttributes: the new attributes are capabilities of every
\* address, and RUNTIME only on whole pages.
SetAttributes(R, new) ==
  LET attrs == new[lo(R)].attrs
  IN  /\ "RUNTIME" \in attrs => R = UNION {PageOf(p) : p \in PagesIn(R)}
      /\ \A a \in R : /\ attrs \subseteq space[a].caps
                      /\ new[a].attrs = attrs
                      /\ Keeps(new, a, {"type", "caps", "image", "device"})
      /\ UNCHANGED memoryMap

\* A step changes the addresses of one range R only; which call it is, is
\* a disjunct.  A call that changes nothing is a stutter step of Spec, so
\* Next is only asked of steps that change something.
Next ==
  LET new     == space'
      Changed == {a \in Addresses : new[a] # space[a]}
  IN  /\ vars' # vars
      /\ \E R \in Ranges :
           /\ Changed \subseteq R
           /\ \/ Add(R, new) \/ Allocate(R, new) \/ Free(R, new) \/ Remove(R, new)
              \/ SetAttributes(R, new)

Spec == Init /\ [][Next]_vars

=============================================================================
