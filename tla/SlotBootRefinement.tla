------------------------- MODULE SlotBootRefinement -------------------------
(***************************************************************************)
(* SlotBoot implements TrialBoot.  The abstract volumes are those of the   *)
(* SBL environment in flash as prepare_env would read them; a volume is    *)
(* armed between the write of tried_to_boot and its start.                 *)
(***************************************************************************)
EXTENDS SlotBoot

Trial == INSTANCE TrialBoot WITH
  Volumes <- Volume, Default <- "a",
  vol <- Defaulted(sblEnv).bootvol,
  safe <- Defaulted(sblEnv).safe_bootvol,
  tried <- sblEnv.tried_to_boot,
  armed <- (pc = "load" /\ ~recovery /\ OnTrial(ctx)),
  run <- IF pc = "run" THEN booted ELSE "off",
  trusted <- (faults = 0)

\* The volume selection of SBL-S2 keeps the promise of TrialBoot.
TrialSpec == Trial!TSpec
-----------------------------------------------------------------------------
\* What select_slot writes for an environment with a volume on trial.
Chosen(e) == IF e.tried_to_boot
             THEN [e EXCEPT !.bootvol = e.safe_bootvol, !.tried_to_boot = FALSE]
             ELSE [e EXCEPT !.tried_to_boot = TRUE]

HasVolumes(e) == e.bootvol \in Volume /\ e.safe_bootvol \in Volume

\* Between the choice of select_slot and the end of its export.
Choosing == {"move_clear", "move_write", "invalidate", "commit_clear", "commit_write"}

\* How the copy in RAM relates to the stored SBL environment at each step.
CtxFollowsFlash ==
  /\ pc = "off" /\ "sbl" \notin valid => sblEnv = NoSblEnv
  /\ pc \in {"prep_clear", "prep_write"} => ctx = Prepared(sblEnv)
  /\ pc \in {"select", "rec_uboot", "rec_saved", "load"} => ctx = sblEnv
  /\ pc \in Choosing
       => ~recovery /\ HasVolumes(sblEnv) /\ OnTrial(sblEnv) /\ ctx = Chosen(sblEnv)
  /\ pc \in {"rec_uboot", "rec_saved"} => recovery
  /\ pc = "run" => HasVolumes(sblEnv)

\* The volumes the next boot will find.
Vol == Defaulted(sblEnv).bootvol
Safe == Defaulted(sblEnv).safe_bootvol

Booting == pc \notin {"off", "run"}

\* A failure in this boot has paid for one more start of the volume on trial.
Paid ==
  /\ starts <= faults
  /\ Vol # Safe /\ ~sblEnv.tried_to_boot => starts < faults

\* Where the count of starts stands against the mark in the environment.
StartsFollowMark ==
  /\ starts <= 1 + faults
  /\ Vol # Safe /\ ~sblEnv.tried_to_boot => starts <= faults
  /\ Booting => CtxFollowsFlash \/ Paid
  /\ pc = "load" /\ ~recovery /\ ctx.bootvol = trial => Paid

\* The volume on trial is the one that was requested, in RAM as in flash, and
\* only a failure puts the default volume in place of the stored safe one.
TrialIsRequested ==
  /\ Vol # Safe => Vol = trial
  /\ Safe = trial => TrialTakenForSafe
  /\ Booting /\ OnTrial(ctx) => ctx.bootvol = trial
  /\ Booting => ctx.safe_bootvol = Safe \/ (ctx.safe_bootvol = "a" /\ interrupted)
  /\ pc \in Choosing \/ (pc = "load" /\ ~recovery) => (OnTrial(ctx) => ctx.tried_to_boot)
  /\ pc \in {"rec_uboot", "rec_saved"} => recovery
  /\ pc = "off" /\ "sbl" \notin valid => sblEnv = NoSblEnv
  /\ faults > 0 => interrupted

\* What SBL-S2 holds in RAM (ctx in sbl-s2/main.c) and the mark tried_to_boot in
\* flash agree with the progress of the boot at every point a power cut can hit,
\* as long as no flash operation has failed; and at each such point what is in
\* flash leaves room for the starts that can still follow, whatever has failed:
\* the inductive invariant behind TrialStartsOnce and the refinement.
MarkPrecedesStart ==
  /\ faults = 0 => CtxFollowsFlash
  /\ TrialIsRequested
  /\ StartsFollowMark \/ TrialTakenForSafe
=============================================================================
