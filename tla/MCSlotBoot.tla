----------------------------- MODULE MCSlotBoot -----------------------------
EXTENDS SlotBootRefinement

\* 64 KiB sectors: every environment has a sector of its own.
Sectors64K == [r \in Region |-> r]

=============================================================================
