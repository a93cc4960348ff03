--------------------------- MODULE GcdRangeEditor ---------------------------
(***************************************************************************)
(* The Range Editor of the DXE core GCD (gcd.c): the operators that search, *)
(* split, update and merge the descriptors of one GCD map.                  *)
(*                                                                         *)
(* A map (mGcdMemorySpaceMap, mGcdIoSpaceMap) is the doubly linked list of *)
(* EFI_GCD_MAP_ENTRY, modelled as a sequence of records in list order.     *)
(* Addresses are scaled down; UINT64 arithmetic is arithmetic modulo       *)
(* 2^WordBits, so that a BaseAddress + Length that overflows wraps as it   *)
(* does in the code.  All operators here are pure: the callers in          *)
(* GcdMemorySpace hold the map lock while they use them.                   *)
(***************************************************************************)
EXTENDS Integers, Sequences

LOCAL FS == INSTANCE FiniteSetsExt

CONSTANTS
  WordBits,         \* width of UINT64 / EFI_PHYSICAL_ADDRESS arithmetic
  EFI_PAGE_SHIFT,   \* log2 of the page size
  NULL              \* the NULL EFI_HANDLE

ASSUME WordBits \in Nat \ {0} /\ EFI_PAGE_SHIFT \in Nat /\ EFI_PAGE_SHIFT < WordBits

Word == 2^WordBits
EFI_PAGE_SIZE == 2^EFI_PAGE_SHIFT

\* UINT64 wrap-around of a result.
U64(x) == x % Word

\* AlignValue: round Value up or down to a 2^Alignment boundary (UINT64).
AlignValue(Value, Alignment, RoundUp) ==
  LET v == IF RoundUp THEN U64(Value + 2^Alignment - 1) ELSE Value
  IN  v - (v % 2^Alignment)

PageAlignAddress(Value) == AlignValue(Value, EFI_PAGE_SHIFT, TRUE)
PageAlignLength(Value)  == AlignValue(Value, EFI_PAGE_SHIFT, FALSE)

\* An entry covers an address when BaseAddress <= a <= EndAddress.
Covers(e, a) == e.BaseAddress <= a /\ a <= e.EndAddress

(***************************************************************************)
(* CoreSearchGcdMapEntry: walk the list; StartLink is the last entry seen   *)
(* that covers BaseAddress, EndLink the first entry at or after it that    *)
(* covers BaseAddress + Length - 1 (computed in UINT64).                    *)
(***************************************************************************)
NotFoundRange == [found |-> FALSE, start |-> 0, end |-> 0]

CoreSearchGcdMapEntry(m, BaseAddress, Length) ==
  LET last == U64(BaseAddress + Length - 1)
      ends == {j \in 1..Len(m) : Covers(m[j], last)
                                 /\ \E i \in 1..j : Covers(m[i], BaseAddress)}
  IN  IF ends = {} THEN NotFoundRange
      ELSE LET e == FS!Min(ends)
           IN  [found |-> TRUE,
                start |-> FS!Max({i \in 1..e : Covers(m[i], BaseAddress)}),
                end   |-> e]

(***************************************************************************)
(* CoreInsertGcdMapEntry, called by CoreConvertSpace and CoreAllocateSpace  *)
(* for every entry from StartLink to EndLink, followed by the update the   *)
(* operation makes to that entry.  An entry that starts below BaseAddress  *)
(* is split off a bottom copy (InsertTailList), one that ends above        *)
(* BaseAddress + Length - 1 a top copy (InsertHeadList); upd is the        *)
(* operation's change to the entry itself: a record of the fields the      *)
(* operation's switch case assigns.                                        *)
(***************************************************************************)
Update(e, upd) == [f \in DOMAIN e |-> IF f \in DOMAIN upd THEN upd[f] ELSE e[f]]

\* Mutant: the top copy starts at BaseAddress + Length - 1.
InsertEntryTopOverlap(e, BaseAddress, Length, upd) ==
  LET last   == U64(BaseAddress + Length - 1)
      bottom == IF BaseAddress > e.BaseAddress
                  THEN <<[e EXCEPT !.EndAddress = BaseAddress - 1]>> ELSE <<>>
      mid1   == IF BaseAddress > e.BaseAddress
                  THEN [e EXCEPT !.BaseAddress = BaseAddress] ELSE e
      top    == IF last < e.EndAddress
                  THEN <<[mid1 EXCEPT !.BaseAddress = last]>> ELSE <<>>
      mid    == IF last < e.EndAddress
                  THEN [mid1 EXCEPT !.EndAddress = last] ELSE mid1
  IN  bottom \o <<Update(mid, upd)>> \o top

\* Mutant: the bottom copy is made without the BaseAddress > e.BaseAddress test.
InsertEntryAlwaysBottom(e, BaseAddress, Length, upd) ==
  LET last   == U64(BaseAddress + Length - 1)
      mid1   == [e EXCEPT !.BaseAddress = BaseAddress]
      top    == IF last < e.EndAddress
                  THEN <<[mid1 EXCEPT !.BaseAddress = U64(BaseAddress + Length)]>>
                  ELSE <<>>
      mid    == IF last < e.EndAddress
                  THEN [mid1 EXCEPT !.EndAddress = last] ELSE mid1
  IN  <<[e EXCEPT !.EndAddress = BaseAddress - 1]>> \o <<Update(mid, upd)>> \o top

InsertEntry(e, BaseAddress, Length, upd) ==
  LET last   == U64(BaseAddress + Length - 1)
      bottom == IF BaseAddress > e.BaseAddress
                  THEN <<[e EXCEPT !.EndAddress = BaseAddress - 1]>> ELSE <<>>
      mid1   == IF BaseAddress > e.BaseAddress
                  THEN [e EXCEPT !.BaseAddress = BaseAddress] ELSE e
      top    == IF last < e.EndAddress
                  THEN <<[mid1 EXCEPT !.BaseAddress = U64(BaseAddress + Length)]>>
                  ELSE <<>>
      mid    == IF last < e.EndAddress
                  THEN [mid1 EXCEPT !.EndAddress = last] ELSE mid1
  IN  bottom \o <<Update(mid, upd)>> \o top

RECURSIVE InsertRange(_, _, _, _, _, _)
\* The entries s..e of m after the Convert/Insert loop.
InsertRange(m, s, e, BaseAddress, Length, upd) ==
  IF s > e THEN <<>>
  ELSE InsertEntry(m[s], BaseAddress, Length, upd)
         \o InsertRange(m, s + 1, e, BaseAddress, Length, upd)

\* The map after the Convert/Insert loop over entries s..e, before merging.
SplitMap(m, s, e, BaseAddress, Length, upd) ==
  SubSeq(m, 1, s - 1) \o InsertRange(m, s, e, BaseAddress, Length, upd)
                      \o SubSeq(m, e + 1, Len(m))

(***************************************************************************)
(* The ASSERTs at the top of CoreInsertGcdMapEntry: TopEntry and           *)
(* BottomEntry are still unused (Signature == 0) at every call.  A spare  *)
(* copied from an entry carries that entry's signature, and the loop      *)
(* passes the same two spares to the call for every entry of the range.   *)
(***************************************************************************)
SparesUsedBy(e, BaseAddress, Length) ==
  BaseAddress > e.BaseAddress \/ U64(BaseAddress + Length - 1) < e.EndAddress

InsertAssertsHold(m, s, e, BaseAddress, Length) ==
  \A j \in s..(e - 1) : ~SparesUsedBy(m[j], BaseAddress, Length)

(***************************************************************************)
(* CoreMergeGcdMapEntry: merge the entry at index i with its neighbour in *)
(* direction Forward when all six descriptor fields are equal.             *)
(***************************************************************************)
Mergeable(a, b) ==
  /\ a.Capabilities  = b.Capabilities
  /\ a.Attributes    = b.Attributes
  /\ a.GcdMemoryType = b.GcdMemoryType
  /\ a.GcdIoType     = b.GcdIoType
  /\ a.ImageHandle   = b.ImageHandle
  /\ a.DeviceHandle  = b.DeviceHandle

CoreMergeGcdMapEntry(m, i, Forward) ==
  LET j == IF Forward THEN i + 1 ELSE i - 1
  IN  IF j \notin 1..Len(m) \/ ~Mergeable(m[i], m[j]) THEN m
      ELSE LET merged == IF Forward
                           THEN [m[i] EXCEPT !.EndAddress = m[j].EndAddress]
                           ELSE [m[i] EXCEPT !.BaseAddress = m[j].BaseAddress]
               lo == IF Forward THEN i ELSE j
           IN  SubSeq(m, 1, lo - 1) \o <<merged>> \o SubSeq(m, lo + 2, Len(m))

(***************************************************************************)
(* CoreCleanupGcdMapEntry: merge every link from StartLink to EndLink     *)
(* backward, in list order, then EndLink forward.  p is the index of      *)
(* StartLink and n the number of links up to EndLink.  (Freeing the       *)
(* unused spares changes no list state.)                                  *)
(***************************************************************************)
\* Mutant: after a merge the walk still steps one link forward, skipping
\* the link that followed the merged one.
RECURSIVE MergeBackwardNoShift(_, _, _)
MergeBackwardNoShift(m, p, n) ==
  IF n = 0 THEN <<m, p - 1>>
  ELSE MergeBackwardNoShift(CoreMergeGcdMapEntry(m, p, FALSE), p + 1, n - 1)

RECURSIVE MergeBackward(_, _, _)
MergeBackward(m, p, n) ==
  IF n = 0 THEN <<m, p - 1>>
  ELSE LET r == CoreMergeGcdMapEntry(m, p, FALSE)
           q == IF Len(r) < Len(m) THEN p - 1 ELSE p
       IN  MergeBackward(r, q + 1, n - 1)

\* Mutant: EndLink is not merged forward.
CoreCleanupGcdMapEntryNoForward(m, p, n) == MergeBackward(m, p, n)[1]

CoreCleanupGcdMapEntry(m, p, n) ==
  LET r == MergeBackward(m, p, n)
  IN  CoreMergeGcdMapEntry(r[1], r[2], TRUE)

(***************************************************************************)
(* The whole split / update / merge of a range [BaseAddress, +Length)     *)
(* found by CoreSearchGcdMapEntry at entries s..e.  StartLink and EndLink *)
(* are the original entries; a bottom split inserts one entry before      *)
(* StartLink.                                                              *)
(***************************************************************************)
ApplyToRange(m, s, e, BaseAddress, Length, upd) ==
  LET m1     == SplitMap(m, s, e, BaseAddress, Length, upd)
      nSpan  == Len(InsertRange(m, s, e, BaseAddress, Length, upd))
      hasBot == BaseAddress > m[s].BaseAddress
      hasTop == U64(BaseAddress + Length - 1) < m[e].EndAddress
      first  == IF hasBot THEN s + 1 ELSE s
      links  == nSpan - (IF hasBot THEN 1 ELSE 0) - (IF hasTop THEN 1 ELSE 0)
  IN  CoreCleanupGcdMapEntry(m1, first, links)

=============================================================================
