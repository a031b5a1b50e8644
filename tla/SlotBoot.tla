------------------------------ MODULE SlotBoot ------------------------------
(***************************************************************************)
(* One boot of SBL-S2 from reset to the start of a firmware volume, as far *)
(* as the environments in flash are concerned: prepare_env, select_slot    *)
(* and prepare_recovery of sbl-s2/main.c.  Each erase and each write of a  *)
(* region is a step, so a power cut can fall between any two of them.      *)
(* The firmware that runs afterwards is not in this repository; it is      *)
(* modelled by what select_slot expects of it: it asks for a volume to be  *)
(* tried, confirms it, and saves the U-Boot environment.                   *)
(***************************************************************************)
EXTENDS EnvFlash

CONSTANTS RecoveryEnable,  \* the RECOVERY_ENABLE build option
          Broken,          \* volumes whose firmware hangs after it is started
          BlankUboot,      \* U-Boot may have never saved its environment
          MaxCuts,         \* bound on power cuts during SBL-S2
          MaxFaults,       \* bound on failing flash operations
          MaxRequests      \* bound on requests to try the other volume

ASSUME SlotAssumption ==
  /\ RecoveryEnable \in BOOLEAN /\ BlankUboot \in BOOLEAN
  /\ Broken \subseteq Volume
  /\ MaxCuts \in Nat /\ MaxFaults \in Nat /\ MaxRequests \in Nat

VARIABLES
  valid,     \* regions of the flash whose CRC matches
  sblEnv,    \* contents of the SBL environment in flash
  ubEnv,     \* contents of the U-Boot environment and of its reserved copy
  pc,        \* where SBL-S2 is; "off" after reset, "run" once firmware runs
  ctx,       \* env_ctx_t sbl in RAM
  move,      \* the env_move in progress: destination, data, invalidate
  recovery,  \* recovery_mode
  booted,    \* what was started: a volume, "R", or Unset
  (* bounds *)
  cuts, faults, requests,
  (* history *)
  trial,       \* volume that was requested and not confirmed, or Unset
  starts,      \* starts of that volume since it was requested
  good,        \* U-Boot environment the safe volume is entitled to
  goodValid,   \* whether U-Boot had saved that environment
  interrupted  \* the backup or an update of the SBL environment was cut short
               \* or failed

flashVars == <<valid, sblEnv, ubEnv>>
ramVars == <<ctx, move, recovery, booted>>
boundVars == <<cuts, faults, requests>>
histVars == <<trial, starts, good, goodValid, interrupted>>
vars == <<flashVars, pc, ramVars, boundVars, histVars>>

PC == {"off", "prep_clear", "prep_write", "select", "move_clear", "move_write",
       "invalidate", "commit_clear", "commit_write", "rec_uboot", "rec_saved",
       "load", "run"}

NoMove == [dst |-> "saved", data |-> EmptyEnv, invalidate |-> FALSE]
Moves == [dst : {"uboot", "saved"}, data : UbootEnv, invalidate : BOOLEAN]

UbImport(r) == Imported(valid, r, ubEnv[r], EmptyEnv)
SblImport == Imported(valid, "sbl", sblEnv, NoSblEnv)

\* What may be in the context when env_import fails: the read may fail, or the
\* memory end after any of the variables.
Parts(e) ==
  [bootvol : {e.bootvol, Unset}, safe_bootvol : {e.safe_bootvol, Unset},
   tried_to_boot : {e.tried_to_boot, FALSE}, keep_uboot_env : {e.keep_uboot_env, FALSE},
   s2_ver : {e.s2_ver, FALSE}]

\* A volume is on trial while bootvol and safe_bootvol differ.
OnTrial(e) == e.bootvol # e.safe_bootvol
-----------------------------------------------------------------------------
(***************************************************************************)
(* prepare_env                                                             *)
(***************************************************************************)

\* Both volumes are set to "a" unless both are present.
Defaulted(e) == IF e.bootvol = Unset \/ e.safe_bootvol = Unset
                THEN [e EXCEPT !.bootvol = "a", !.safe_bootvol = "a"]
                ELSE e

\* The environment after prepare_env, which is exported iff it changed.
Prepared(e) == [Defaulted(e) EXCEPT !.s2_ver = TRUE]

\* After reset: the recovery button is sampled, then the SBL environment is
\* imported (as e) and completed.
PrepareEnv(e) ==
  /\ pc = "off"
  /\ recovery' \in {FALSE, RecoveryEnable}
  /\ ctx' = Prepared(e)
  /\ pc' = IF Prepared(e) = e THEN "select" ELSE "prep_clear"
  /\ UNCHANGED <<flashVars, move, booted>>

(***************************************************************************)
(* env_export: env_io_clear, then env_io_write.  `next' is where the       *)
(* caller goes on.                                                         *)
(***************************************************************************)

EnvIoClear(r, next) ==
  /\ valid' = Erased(valid, r)
  /\ pc' = next
  /\ UNCHANGED <<sblEnv, ubEnv, ramVars>>

EnvIoWriteSbl(next) ==
  /\ valid' = Programmed(valid, "sbl")
  /\ sblEnv' = ctx
  /\ pc' = next
  /\ UNCHANGED <<ubEnv, ramVars>>

EnvIoWriteMove(next) ==
  /\ valid' = Programmed(valid, move.dst)
  /\ ubEnv' = [ubEnv EXCEPT ![move.dst] = move.data]
  /\ pc' = next
  /\ UNCHANGED <<sblEnv, ramVars>>

\* A failing erase may or may not have erased the sector, a failing write
\* leaves a region with a wrong CRC; the caller goes on at `next'.
EnvIoFails(r, next) ==
  /\ valid' \in {valid, Erased(valid, r)}
  /\ pc' = next
  /\ UNCHANGED <<sblEnv, ubEnv, ramVars>>
-----------------------------------------------------------------------------
(***************************************************************************)
(* select_slot                                                             *)
(***************************************************************************)

\* (mutation) tried_to_boot is not recorded before the trial.
SelectSlotUntried(ok) ==
  /\ pc = "select" /\ ~recovery
  /\ pc' = IF OnTrial(ctx) THEN "commit_clear" ELSE "load"
  /\ UNCHANGED <<ctx, move, flashVars, recovery, booted>>

\* (mutation) The fallback restores from the region it writes to.
SelectSlotNoRestore(ok) ==
  /\ pc = "select" /\ ~recovery
  /\ IF ~OnTrial(ctx)
     THEN pc' = "load" /\ UNCHANGED <<ctx, move>>
     ELSE /\ pc' = IF ctx.keep_uboot_env THEN "commit_clear" ELSE "move_clear"
          /\ IF ctx.tried_to_boot
             THEN /\ ctx' = [ctx EXCEPT !.bootvol = ctx.safe_bootvol,
                                        !.tried_to_boot = FALSE]
                  /\ move' = [NoMove EXCEPT !.dst = "uboot", !.data = UbImport("uboot")]
             ELSE /\ ctx' = [ctx EXCEPT !.tried_to_boot = TRUE]
                  /\ move' = [dst |-> "saved", data |-> UbImport("uboot"),
                              invalidate |-> TRUE]
  /\ UNCHANGED <<flashVars, recovery, booted>>

\* `ok' is FALSE if the env_import of the environment to be moved fails; what
\* is moved then is taken to have no variables.
SelectSlot(ok) ==
  /\ pc = "select" /\ ~recovery
  /\ ok \/ (OnTrial(ctx) /\ ~ctx.keep_uboot_env)
  /\ IF ~OnTrial(ctx)
     THEN /\ pc' = "load"
          /\ UNCHANGED <<ctx, move>>
     ELSE /\ pc' = IF ctx.keep_uboot_env THEN "commit_clear" ELSE "move_clear"
          /\ IF ctx.tried_to_boot
             THEN /\ ctx' = [ctx EXCEPT !.bootvol = ctx.safe_bootvol,
                                        !.tried_to_boot = FALSE]
                  /\ move' = [dst |-> "uboot",
                              data |-> IF ok THEN UbImport("saved") ELSE EmptyEnv,
                              invalidate |-> FALSE]
             ELSE /\ ctx' = [ctx EXCEPT !.tried_to_boot = TRUE]
                  /\ move' = [dst |-> "saved",
                              data |-> IF ok THEN UbImport("uboot") ELSE EmptyEnv,
                              invalidate |-> TRUE]
  /\ UNCHANGED <<flashVars, recovery, booted>>

PrepareRecovery ==
  /\ pc = "select" /\ recovery
  /\ pc' = "rec_uboot"
  /\ UNCHANGED <<flashVars, ramVars>>

\* The offset of the volume is chosen and its images are loaded and started.
Load ==
  /\ pc = "load"
  /\ booted' = IF recovery THEN "R" ELSE IF ctx.bootvol = "b" THEN "b" ELSE "a"
  /\ pc' = "run"
  /\ UNCHANGED <<flashVars, ctx, move, recovery>>

\* (mutation) The choice of select_slot is not exported.
FlashStepNoCommit ==
  \/ pc = "prep_clear" /\ EnvIoClear("sbl", "prep_write")
  \/ pc = "prep_write" /\ EnvIoWriteSbl("select")
  \/ pc = "move_clear" /\ EnvIoClear(move.dst, "move_write")
  \/ pc = "move_write" /\ EnvIoWriteMove("load")
  \/ pc = "commit_clear" /\ EnvIoClear("saved", "load")
  \/ pc = "rec_uboot" /\ EnvIoClear("uboot", "rec_saved")
  \/ pc = "rec_saved" /\ EnvIoClear("saved", "load")

\* The flash operations of the exports, of env_move and of the invalidations,
\* in the order main() reaches them.
FlashStep ==
  \/ pc = "prep_clear" /\ EnvIoClear("sbl", "prep_write")
  \/ pc = "prep_write" /\ EnvIoWriteSbl("select")
  \/ pc = "move_clear" /\ EnvIoClear(move.dst, "move_write")
  \/ pc = "move_write"
     /\ EnvIoWriteMove(IF move.invalidate THEN "invalidate" ELSE "commit_clear")
  \/ pc = "invalidate" /\ EnvIoClear("uboot", "commit_clear")
  \/ pc = "commit_clear" /\ EnvIoClear("sbl", "commit_write")
  \/ pc = "commit_write" /\ EnvIoWriteSbl("load")
  \/ pc = "rec_uboot" /\ EnvIoClear("uboot", "rec_saved")
  \/ pc = "rec_saved" /\ EnvIoClear("saved", "load")

\* An error ends env_export, and with it env_move, early; main() ignores it.
FlashFails ==
  \/ pc \in {"prep_clear", "prep_write"} /\ EnvIoFails("sbl", "select")
  \/ pc \in {"move_clear", "move_write"} /\ EnvIoFails(move.dst, "commit_clear")
  \/ pc = "invalidate" /\ EnvIoFails("uboot", "commit_clear")
  \/ pc \in {"commit_clear", "commit_write"} /\ EnvIoFails("sbl", "load")
  \/ pc = "rec_uboot" /\ EnvIoFails("uboot", "rec_saved")
  \/ pc = "rec_saved" /\ EnvIoFails("saved", "load")
-----------------------------------------------------------------------------
(***************************************************************************)
(* The steps above with what they do to the bounds and to the history.     *)
(***************************************************************************)

BootStep ==
  /\ PrepareEnv(SblImport) \/ SelectSlot(TRUE) \/ PrepareRecovery \/ FlashStep
  /\ IF pc = "rec_uboot" THEN good' = EmptyEnv /\ goodValid' = FALSE
                         ELSE UNCHANGED <<good, goodValid>>
  /\ UNCHANGED <<boundVars, trial, starts, interrupted>>

BootFault ==
  /\ faults < MaxFaults
  /\ (\E e \in Parts(SblImport) : PrepareEnv(e)) \/ SelectSlot(FALSE) \/ FlashFails
  /\ faults' = faults + 1
  /\ interrupted' = TRUE
  /\ UNCHANGED <<cuts, requests, trial, starts, good, goodValid>>

\* Every start of the requested volume counts, whatever SBL-S2 takes it for.
\* The count stops at a number that no claim about it allows.
Start ==
  /\ Load
  /\ starts' = IF booted' = trial /\ starts < MaxFaults + 2 THEN starts + 1 ELSE starts
  /\ UNCHANGED <<boundVars, trial, good, goodValid, interrupted>>

\* RAM contents after a reset.
ResetRam ==
  /\ pc' = "off"
  /\ ctx' = NoSblEnv /\ move' = NoMove /\ recovery' = FALSE /\ booted' = Unset

\* An SBL environment that was erased and not written back is gone.
ForgetLost == sblEnv' = SblImport

\* The U-Boot environment has left its region and is known only to the reserved
\* copy, but the SBL environment in flash does not say so yet.
BackupUncommitted == pc = "commit_clear" /\ move.invalidate /\ ~ctx.keep_uboot_env

PowerCut ==
  /\ pc \notin {"off", "run"}
  /\ cuts < MaxCuts
  /\ cuts' = cuts + 1
  /\ ResetRam /\ ForgetLost
  /\ interrupted' = (interrupted \/ "sbl" \notin valid \/ BackupUncommitted
                       \/ pc = "rec_saved")
  /\ UNCHANGED <<valid, ubEnv, faults, requests, trial, starts, good, goodValid>>
-----------------------------------------------------------------------------
(***************************************************************************)
(* The running firmware (external).                                        *)
(***************************************************************************)

Running == pc = "run" /\ booted \in Volume /\ "sbl" \in valid

\* The watchdog or the operating system restarts the board.
Reboot ==
  /\ pc = "run"
  /\ ResetRam /\ ForgetLost
  /\ interrupted' = (interrupted \/ "sbl" \notin valid)
  /\ UNCHANGED <<valid, ubEnv, boundVars, trial, starts, good, goodValid>>

\* The operating system asks for the other volume to be tried.
RequestTrial(keep) ==
  /\ Running /\ ~OnTrial(sblEnv)
  /\ requests < MaxRequests
  /\ requests' = requests + 1
  /\ trial' \in Volume \ {sblEnv.safe_bootvol} /\ starts' = 0
  /\ sblEnv' = [sblEnv EXCEPT !.bootvol = trial', !.tried_to_boot = FALSE,
                              !.keep_uboot_env = keep]
  /\ UNCHANGED <<valid, ubEnv, pc, ramVars, cuts, faults, good, goodValid, interrupted>>

\* The operating system on the volume under trial makes it the safe one.
ConfirmTrial ==
  /\ Running /\ OnTrial(sblEnv) /\ sblEnv.tried_to_boot
  /\ booted = sblEnv.bootvol /\ booted \notin Broken
  /\ sblEnv' = [sblEnv EXCEPT !.safe_bootvol = booted, !.tried_to_boot = FALSE]
  /\ trial' = Unset /\ starts' = 0
  /\ good' = UbImport("uboot") /\ goodValid' = ("uboot" \in valid)
  /\ UNCHANGED <<valid, ubEnv, pc, ramVars, boundVars, interrupted>>

\* U-Boot saves its environment.  A volume on trial does so for itself only,
\* unless keep_uboot_env makes both volumes share the environment.
SaveUbootEnv(e) ==
  /\ Running
  /\ valid' = Programmed(valid, "uboot")
  /\ ubEnv' = [ubEnv EXCEPT !["uboot"] = e]
  /\ IF booted = sblEnv.safe_bootvol \/ sblEnv.keep_uboot_env
     THEN good' = e /\ goodValid' = TRUE
     ELSE UNCHANGED <<good, goodValid>>
  /\ UNCHANGED <<sblEnv, pc, ramVars, boundVars, trial, starts, interrupted>>
-----------------------------------------------------------------------------
\* A board as it leaves the factory or an earlier boot: no trial is pending,
\* and any region may still be blank.
Init ==
  /\ valid \in {s \in SUBSET Region : BlankUboot \/ "uboot" \in s}
  /\ sblEnv \in {e \in SblEnv : ~OnTrial(e) /\ ~e.keep_uboot_env}
  /\ "sbl" \notin valid => sblEnv = NoSblEnv
  /\ ubEnv \in [{"uboot", "saved"} -> UbootEnv]
  /\ pc = "off"
  /\ ctx = NoSblEnv /\ move = NoMove /\ recovery = FALSE /\ booted = Unset
  /\ cuts = 0 /\ faults = 0 /\ requests = 0
  /\ trial = Unset /\ starts = 0 /\ interrupted = FALSE
  /\ good = UbImport("uboot") /\ goodValid = ("uboot" \in valid)

Firmware == Reboot \/ ConfirmTrial \/ (\E k \in BOOLEAN : RequestTrial(k))
              \/ (\E e \in UEnv : SaveUbootEnv(e))

Next == BootStep \/ BootFault \/ Start \/ PowerCut \/ Firmware

Spec == Init /\ [][Next]_vars

\* SBL-S2 is a sequential program that never waits for anything here, and the
\* watchdog resets a board whose firmware hangs.
Fairness == /\ WF_vars(BootStep \/ Start)
            /\ WF_vars(booted \in Broken /\ Reboot)

FairSpec == Spec /\ Fairness
-----------------------------------------------------------------------------
\* From prepare_env on both volumes are set, as the strcmp in select_slot needs.
TypeOK ==
  /\ valid \subseteq Region
  /\ sblEnv \in SblEnv
  /\ ubEnv \in [{"uboot", "saved"} -> UbootEnv]
  /\ pc \in PC
  /\ ctx \in SblEnv /\ move \in Moves
  /\ recovery \in BOOLEAN /\ booted \in Volume \cup {"R", Unset}
  /\ cuts \in 0..MaxCuts /\ faults \in 0..MaxFaults /\ requests \in 0..MaxRequests
  /\ trial \in Volume \cup {Unset} /\ starts \in 0..(MaxFaults + 2)
  /\ good \in UbootEnv /\ goodValid \in BOOLEAN
  /\ interrupted \in BOOLEAN
  /\ pc \notin {"off", "run"} => ctx.bootvol \in Volume /\ ctx.safe_bootvol \in Volume
  /\ pc = "run" => booted # Unset

\* The volume that was requested and not confirmed has become the safe one: an
\* update of the SBL environment was cut short or failed while volume "b" was the
\* safe one, and prepare_env has put its default "a" in place of what was lost.
TrialTakenForSafe ==
  interrupted /\ trial = "a" /\ Defaulted(sblEnv).safe_bootvol = "a"

\* A volume that nobody confirmed is started at most once per request, and once
\* more for each flash operation or import that fails: the boot after the one
\* that recorded tried_to_boot goes back to safe_bootvol, whatever power cuts
\* fall between the flash operations (sbl-s2/main.c, select_slot, which drops
\* the results of env_move and env_export).  The only exception is a volume "a"
\* on trial whose safe volume "b" was forgotten.
TrialStartsOnce == starts <= 1 + faults \/ TrialTakenForSafe

\* When the firmware of the safe volume runs, its U-Boot environment is the one
\* it saved last, also after the other volume was tried and rejected in between
\* (env_move in both branches of select_slot), unless the boot that made the
\* reserved copy was cut short.
SafeVolumeKeepsItsEnv ==
  (Running /\ booted = sblEnv.safe_bootvol /\ ~interrupted) => UbImport("uboot") = good

\* A volume under trial that hangs is eventually left for the safe volume.
BrokenTrialIsLeft ==
  (Running /\ OnTrial(sblEnv) /\ booted \in Broken /\ sblEnv.safe_bootvol \notin Broken)
    ~> ((pc = "run" /\ booted \notin Broken) \/ interrupted)

\* "Restore reserved copy of U-Boot environment" (sbl-s2/main.c): the safe
\* volume finds exactly the U-Boot environment region it left.
ReservedCopyRestored ==
  (Running /\ booted = sblEnv.safe_bootvol)
    => /\ ("uboot" \in valid) = goodValid
       /\ UbImport("uboot") = good
=============================================================================
