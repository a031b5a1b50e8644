------------------------------- MODULE Iommu -------------------------------
(***************************************************************************)
(* The IOMMU of the service processor (drivers/iommu): the table of 2 MiB  *)
(* slots, and the cache of translations, which may pick up an entry at any *)
(* time while translation is on.  An address is the number of its 2 MiB    *)
(* block; the blocks of the slots are those with the numbers of the slots. *)
(***************************************************************************)
EXTENDS Integers, FiniteSetsExt

CONSTANT Slots  \* PLAT_IOMMU_VIRT_SLOT_COUNT; PLAT_IOMMU_VIRT_BASE_START is that of a table

VARIABLES
  xlat,   \* translation is on
  table,  \* 2 MiB table: USER_DEF and the block of each entry
  cache   \* cached translations, a function from some of the slots

iommuVars == <<xlat, table, cache>>

Slot == 0..(Slots - 1)
Entry(user, to) == [user |-> user, to |-> to]
Empty == <<>>

\* iommu_gen_default_tables
DefaultTables == [s \in Slot |-> Entry(FALSE, s)]

\* Where an access to a slot ends up.
Translate(s) == IF ~xlat THEN s ELSE IF s \in DOMAIN cache THEN cache[s] ELSE table[s].to

\* The IOMMU reads an entry of the table.
Fill(s) ==
  /\ xlat /\ s \notin DOMAIN cache
  /\ cache' = [t \in DOMAIN cache \cup {s} |-> IF t = s THEN table[s].to ELSE cache[t]]
  /\ UNCHANGED <<xlat, table>>

IommuCacheInvalidate == cache' = Empty /\ UNCHANGED <<xlat, table>>

\* Mutant: the cache is left as it is.
IommuResetKeeps == xlat' = FALSE /\ UNCHANGED <<cache, table>>

IommuReset == xlat' = FALSE /\ cache' = Empty /\ UNCHANGED table

\* The cache is not invalidated here.
IommuInit == table' = DefaultTables /\ xlat' = TRUE /\ UNCHANGED cache

\* iommu_find_free_slot; Slots stands for none
FreeSlot ==
  LET free == {s \in Slot : ~table[s].user} IN IF free = {} THEN Slots ELSE Min(free)

\* __iommu_map_64 and __iommu_map_slot write an entry; the cache comes after.
SetEntry(s, user, to) ==
  /\ table' = [table EXCEPT ![s] = Entry(user, to)]
  /\ UNCHANGED <<xlat, cache>>

IommuMapSlot(s, to) == ~table[s].user /\ SetEntry(s, TRUE, to)

IommuMap(s, to) == s = FreeSlot /\ s \in Slot /\ SetEntry(s, TRUE, to)

IommuUnmap(s) == SetEntry(s, FALSE, s)
=============================================================================
