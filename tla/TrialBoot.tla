----------------------------- MODULE TrialBoot ------------------------------
(***************************************************************************)
(* What the A/B volume selection of SBL-S2 promises: a requested volume is *)
(* started once, after which it is either confirmed or abandoned for the   *)
(* safe volume.  Flash, environments and power cuts inside a boot are not  *)
(* visible here; module SlotBootRefinement shows that SlotBoot implements  *)
(* this specification.                                                     *)
(***************************************************************************)
CONSTANT Volumes, Default

VARIABLES vol,      \* volume to start
          safe,     \* volume known to work
          tried,    \* the volume on trial has been marked as tried
          armed,    \* it was marked in this boot and may be started
          run,      \* what is running: a volume, "R", or "off"
          trusted   \* no flash operation has failed so far

tvars == <<vol, safe, tried, armed, run, trusted>>

TInit ==
  /\ vol \in Volumes /\ safe = vol /\ tried \in BOOLEAN /\ armed = FALSE
  /\ run = "off" /\ trusted = TRUE

\* The safe volume is started.
StartSafe ==
  /\ run = "off" /\ vol = safe /\ run' = vol
  /\ UNCHANGED <<vol, safe, tried, armed, trusted>>

StartRecovery ==
  /\ run = "off" /\ run' = "R" /\ armed' = FALSE
  /\ UNCHANGED <<vol, safe, tried, trusted>>

MarkTrial ==
  /\ run = "off" /\ vol # safe /\ ~tried
  /\ tried' = TRUE /\ armed' = TRUE
  /\ UNCHANGED <<vol, safe, run, trusted>>

StartTrial ==
  /\ run = "off" /\ armed
  /\ run' = vol /\ armed' = FALSE
  /\ UNCHANGED <<vol, safe, tried, trusted>>

\* A second boot finds the mark: back to the safe volume.
Abandon ==
  /\ run = "off" /\ vol # safe /\ tried /\ ~armed
  /\ vol' = safe /\ tried' = FALSE
  /\ UNCHANGED <<safe, armed, run, trusted>>

\* A reset, from running firmware or from within the boot.
Stop ==
  /\ run' = "off" /\ armed' = FALSE
  /\ UNCHANGED <<vol, safe, tried, trusted>>

\* A reset after the stored environment was erased and not written back.
Forget ==
  /\ run' = "off" /\ armed' = FALSE
  /\ vol' = Default /\ safe' = Default /\ tried' = FALSE
  /\ UNCHANGED trusted

Request ==
  /\ run \in Volumes /\ vol = safe
  /\ vol' \in Volumes \ {safe} /\ tried' = FALSE
  /\ UNCHANGED <<safe, armed, run, trusted>>

Confirm ==
  /\ run = vol /\ vol # safe /\ tried
  /\ safe' = vol /\ tried' = FALSE
  /\ UNCHANGED <<vol, armed, run, trusted>>

\* Once a flash operation has failed nothing is promised any more.
Distrust ==
  /\ trusted' = FALSE
  /\ vol' \in Volumes /\ safe' \in Volumes /\ tried' \in BOOLEAN
  /\ armed' \in BOOLEAN /\ run' \in Volumes \cup {"R", "off"}

TNext == StartSafe \/ StartRecovery \/ MarkTrial \/ StartTrial \/ Abandon
           \/ Stop \/ Forget \/ Request \/ Confirm \/ Distrust

TSpec == TInit /\ [][TNext]_tvars
=============================================================================
