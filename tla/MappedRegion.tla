----------------------------- MODULE MappedRegion -----------------------------
(***************************************************************************)
(* The mappings of skid_memory: map_skid_mem() and map_skid_struct(), and  *)
(* what undoes them.  An address space is pages of PageLen cells; mmap()   *)
(* and munmap() work on whole pages.                                       *)
(*                                                                         *)
(* A struct is a header followed by the memory that its addr points to.    *)
(* map_skid_struct() asks for sizeof(total_len) bytes, the size of the     *)
(* variable and not its value: whatever the length, it maps one page.      *)
(***************************************************************************)
EXTENDS Integers

CONSTANTS
    Proc,       \* the processes
    Region,     \* the names of their skidMemMapRegions
    NumPages,
    PageLen,
    HeaderLen,  \* sizeof(skidMemMapRegion)
    SizeLen     \* sizeof(size_t)

ASSUME SizesFitAPage ==
    /\ NumPages \in Nat
    /\ {PageLen, HeaderLen, SizeLen} \subseteq Nat \ {0}
    /\ HeaderLen + SizeLen <= PageLen

VARIABLES
    mapped,     \* mapped[p]: the pages that p has
    region      \* region[p][r]: p's idea of r

mappings == <<mapped, region>>

NULL == -1
NumCells == NumPages * PageLen
Page == 0 .. NumPages - 1

\* own is what mmap() mapped for the region; the code has no such record.
NoRegion == [addr |-> NULL, length |-> 0, own |-> {}]

PagesOf(addr, length) ==
    {k \in Page : k * PageLen < addr + length /\ addr < (k + 1) * PageLen}

Covers(pages, addr, length) == \A a \in addr .. addr + length - 1 : a \div PageLen \in pages

NothingMapped ==
    /\ mapped = [p \in Proc |-> {}]
    /\ region = [p \in Proc |-> [r \in Region |-> NoRegion]]

\* validate_sm_struct() before a mapping, of which mmap() wants a length, and
\* before it is undone.
Mappable(length) == length > 0
Unmappable(m) == (m.addr = NULL) <=> (m.length = 0)

\* mmap(): the kernel chooses from what is free.
Mmap(p, first, length) ==
    /\ first * PageLen + length <= NumCells
    /\ PagesOf(first * PageLen, length) \cap mapped[p] = {}
    /\ mapped' = [mapped EXCEPT ![p] = @ \cup PagesOf(first * PageLen, length)]

Gets(p, r, addr, length, first, size) ==
    /\ Mmap(p, first, size)
    /\ region' = [region EXCEPT ![p][r] =
                     [addr |-> addr, length |-> length, own |-> PagesOf(first * PageLen, size)]]

\* map_skid_mem(), when it succeeds.
MapMem(p, r, length) ==
    /\ Mappable(length)
    /\ \E first \in Page : Gets(p, r, first * PageLen, length, first, length)

\* map_skid_struct(), when it succeeds.
StructSize(length) == SizeLen

MapStruct(p, r, length) ==
    /\ Mappable(length)
    /\ \E first \in Page :
          Gets(p, r, first * PageLen + HeaderLen, length, first, StructSize(length))

Munmap(p, r, addr, length) ==
    /\ mapped' = [mapped EXCEPT ![p] = @ \ PagesOf(addr, length)]
    /\ region' = [region EXCEPT ![p][r] = NoRegion]

UnmapMem(p, r) ==
    /\ Unmappable(region[p][r])
    /\ Munmap(p, r, region[p][r].addr, region[p][r].length)

TotalTwice(m) == m.length + 2 * HeaderLen
TotalLen(m) == m.length + HeaderLen

UnmapStruct(p, r) ==
    /\ Unmappable(region[p][r])
    /\ Munmap(p, r, region[p][r].addr - HeaderLen, TotalLen(region[p][r]))

\* fork(): all mappings are MAP_SHARED, at the same addresses.
Inherits(p, q) ==
    /\ mapped' = [mapped EXCEPT ![q] = mapped[p]]
    /\ region' = [region EXCEPT ![q] = region[p]]

\* map_skid_struct()'s header: "The struct's addr pointer will be of length
\* bytes".  All the memory that a region claims was mapped for it.
RegionIsMapped ==
    \A p \in Proc, r \in Region :
        Covers(region[p][r].own, region[p][r].addr, region[p][r].length)
================================================================================
