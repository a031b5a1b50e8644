------------------------------ MODULE MCTimer ------------------------------
(***************************************************************************)
(* A counter of six values, delays of up to three ticks.                   *)
(***************************************************************************)
EXTENDS Timer

DelaysMC == 1..3
Interrupt == {"irq"}
=============================================================================
