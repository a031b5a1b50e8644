------------------------------ MODULE MCSpiNor ------------------------------
(***************************************************************************)
(* Two-byte pages.  Chips of sixteen bytes, one with small sectors and one *)
(* whose sectors are larger than an environment, one of thirty-two bytes,  *)
(* which needs a fourth byte of address, and one that is not in the table. *)
(***************************************************************************)
EXTENDS SpiNor

Chip(id, ext, size, sector) == [id |-> id, ext |-> ext, size |-> size, sector |-> sector, page |-> 2]

TableMC == << Chip("S25", 80, 16, 8), Chip("S25", 180, 16, 4), Chip("W25", 0, 32, 4) >>
FittedMC == {Chip("S25", 80, 16, 8), Chip("S25", 180, 16, 4), Chip("W25", 7, 32, 4), Chip("M25", 0, 16, 4)}

\* One begins inside a page, one ends inside a page and is placed from the end of the
\* chip, and one is past the end of the small chips: they erase the second sector of
\* four bytes for it, which no other environment is in, or the first of eight.
RegionsMC == {[off |-> 1, size |-> 3], [off |-> -4, size |-> 3], [off |-> 20, size |-> 4]}

PatternsMC == {<<0, 1, 1, 0>>, <<1, 0, 0, 0>>}
=============================================================================
