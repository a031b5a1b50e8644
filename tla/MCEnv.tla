------------------------------- MODULE MCEnv -------------------------------
(***************************************************************************)
(* Two names, a short and a long value, one attribute.  Two long values    *)
(* and a flag fill the data to the last byte; two flags leave the last     *)
(* variable without room.                                                  *)
(***************************************************************************)
EXTENDS Env

KeysMC == <<"a", "b">>
ValsMC == {"u", "w"}
WidthMC == [u |-> 2, w |-> 3]
AttrMC == {"so"}
UsesMC == {"iterate", "store"}

\* Stored by an earlier boot, or by U-Boot.
ContentsMC ==
  {Bad, Stored(<<[key |-> "a", value |-> Plain("w")]>>),
   Stored(<<[key |-> Flags, value |-> <<[key |-> "a", value |-> "so"], [key |-> "b", value |-> "so"]>>],
            [key |-> "b", value |-> Plain("u")]>>)}
=============================================================================
