----------------------------- MODULE MCStartup -----------------------------
(***************************************************************************)
(* Three slots, of which the first is mapped before and one more for DDR,  *)
(* two FIFOs, two requests.                                                *)
(***************************************************************************)
EXTENDS Startup

BuffersMC == {20, 21}
=============================================================================
