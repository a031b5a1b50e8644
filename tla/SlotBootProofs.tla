--------------------------- MODULE SlotBootProofs ---------------------------
(***************************************************************************)
(* Proofs about SlotBoot for every layout of the erase sectors (the last   *)
(* theorem: for those that keep the environments apart), every set of      *)
(* U-Boot environments and every bound on cuts, faults and requests.       *)
(***************************************************************************)
EXTENDS SlotBootRefinement, TLAPS

-----------------------------------------------------------------------------
(***************************************************************************)
(* The helpers keep the types.                                             *)
(***************************************************************************)

LEMMA DefaultedType ==
  ASSUME NEW e \in SblEnv
  PROVE  Defaulted(e) \in SblEnv /\ HasVolumes(Defaulted(e))
BY Zenon DEF Defaulted, SblEnv, HasVolumes, Volume, Unset

LEMMA PreparedType ==
  ASSUME NEW e \in SblEnv
  PROVE  Prepared(e) \in SblEnv /\ HasVolumes(Prepared(e))
BY DefaultedType, Zenon DEF Prepared, SblEnv, HasVolumes

LEMMA NoSblEnvType == NoSblEnv \in SblEnv /\ NoMove \in Moves
BY DEF NoSblEnv, SblEnv, NoMove, Moves, UbootEnv

LEMMA MovesType ==
  ASSUME NEW r \in {"uboot", "saved"}, NEW d \in UbootEnv, NEW b \in BOOLEAN
  PROVE  [dst |-> r, data |-> d, invalidate |-> b] \in Moves
BY DEF Moves

LEMMA UbImportType ==
  ASSUME TypeOK, NEW r \in {"uboot", "saved"}
  PROVE  UbImport(r) \in UbootEnv
BY DEF TypeOK, UbImport, Imported, UbootEnv

LEMMA SblImportType == TypeOK => SblImport \in SblEnv
BY NoSblEnvType DEF TypeOK, SblImport, Imported

\* An import that fails leaves the stored volumes or, after prepare_env, "a" twice.
LEMMA PartsVolumes ==
  ASSUME NEW f \in SblEnv, NEW e \in Parts(f)
  PROVE  /\ e \in SblEnv
         /\ \/ /\ Prepared(e).bootvol = Defaulted(f).bootvol
               /\ Prepared(e).safe_bootvol = Defaulted(f).safe_bootvol
            \/ Prepared(e).bootvol = "a" /\ Prepared(e).safe_bootvol = "a"
<1>1. e \in SblEnv
  BY Zenon DEF Parts, SblEnv
<1>2. /\ e.bootvol \in {f.bootvol, Unset} /\ e.safe_bootvol \in {f.safe_bootvol, Unset}
  BY DEF Parts
<1>3. /\ Prepared(e).bootvol = Defaulted(e).bootvol
      /\ Prepared(e).safe_bootvol = Defaulted(e).safe_bootvol
  BY <1>1, DefaultedType DEF Prepared, SblEnv
<1>4. CASE e.bootvol = Unset \/ e.safe_bootvol = Unset
  <2>1. Defaulted(e).bootvol = "a" /\ Defaulted(e).safe_bootvol = "a"
    BY <1>1, <1>4 DEF Defaulted, SblEnv
  <2> QED
    BY <1>1, <1>3, <2>1
<1>5. CASE ~(e.bootvol = Unset \/ e.safe_bootvol = Unset)
  <2>1. Defaulted(e) = e /\ Defaulted(f) = f
    BY <1>2, <1>5 DEF Defaulted
  <2> QED
    BY <1>1, <1>2, <1>3, <1>5, <2>1
<1> QED
  BY <1>4, <1>5

LEMMA ErasedType ==
  ASSUME NEW v \in SUBSET Region, NEW r \in Region
  PROVE  Erased(v, r) \in SUBSET Region /\ Programmed(v, r) \in SUBSET Region
BY DEF Erased, Programmed
-----------------------------------------------------------------------------
(***************************************************************************)
(* Type correctness.                                                       *)
(***************************************************************************)

LEMMA InitType == Init => TypeOK
<1> SUFFICES ASSUME Init PROVE TypeOK
  OBVIOUS
<1>1. sblEnv \in SblEnv /\ valid \in SUBSET Region
  BY DEF Init
<1>2. UbImport("uboot") \in UbootEnv
  BY DEF Init, UbImport, Imported, UbootEnv
<1>3. good \in UbootEnv
  BY <1>2 DEF Init
<1>4. goodValid \in BOOLEAN
  <2>1. goodValid = ("uboot" \in valid)
    BY DEF Init
  <2> QED
    BY <2>1
<1>5. interrupted \in BOOLEAN /\ recovery \in BOOLEAN /\ trial = Unset
  BY Zenon DEF Init
<1> QED
  BY <1>1, <1>3, <1>4, <1>5, NoSblEnvType, SlotAssumption DEF Init, TypeOK, PC, Unset

LEMMA BootStepType == TypeOK /\ BootStep => TypeOK'
<1> SUFFICES ASSUME TypeOK, BootStep PROVE TypeOK'
  OBVIOUS
<1>0. good' \in UbootEnv /\ goodValid' \in BOOLEAN
  BY Zenon DEF TypeOK, BootStep, histVars, UbootEnv
<1>1. CASE PrepareEnv(SblImport)
  <2>1. PICK e \in SblEnv : ctx' = Prepared(e)
            /\ pc' = IF Prepared(e) = e THEN "select" ELSE "prep_clear"
    BY <1>1, SblImportType DEF PrepareEnv
  <2>2. ctx' \in SblEnv /\ ctx'.bootvol \in Volume /\ ctx'.safe_bootvol \in Volume
    BY <2>1, PreparedType DEF HasVolumes
  <2>3. recovery' \in BOOLEAN
    BY <1>1, SlotAssumption, Zenon DEF PrepareEnv
  <2> QED
    BY <1>0, <1>1, <2>1, <2>2, <2>3
    DEF PrepareEnv, TypeOK, BootStep, flashVars, boundVars, PC
<1>2. CASE SelectSlot(TRUE)
  <2>1. ctx' \in SblEnv /\ ctx'.bootvol \in Volume /\ ctx'.safe_bootvol \in Volume
    BY <1>2, Zenon DEF SelectSlot, TypeOK, SblEnv
  <2>2. move' \in Moves
    <3>1. UbImport("saved") \in UbootEnv /\ UbImport("uboot") \in UbootEnv
      BY UbImportType
    <3>2. \/ move' = move
          \/ move' = [dst |-> "uboot", data |-> UbImport("saved"), invalidate |-> FALSE]
          \/ move' = [dst |-> "saved", data |-> UbImport("uboot"), invalidate |-> TRUE]
      BY <1>2, Zenon DEF SelectSlot
    <3> QED
      BY <3>1, <3>2, MovesType, Zenon DEF TypeOK
  <2>3. pc' \in {"load", "commit_clear", "move_clear"} /\ UNCHANGED <<flashVars, recovery, booted>>
    BY <1>2, Zenon DEF SelectSlot
  <2> QED
    BY <1>0, <2>1, <2>2, <2>3 DEF TypeOK, BootStep, flashVars, boundVars, PC
<1>3. CASE PrepareRecovery
  BY <1>0, <1>3 DEF PrepareRecovery, TypeOK, BootStep, flashVars, ramVars, boundVars, PC
<1>4. CASE FlashStep
  <2>1. move.dst \in Region /\ move.data \in UbootEnv /\ "sbl" \in Region
           /\ "uboot" \in Region /\ "saved" \in Region /\ valid \in SUBSET Region
    BY DEF TypeOK, Moves, Region
  <2>2. valid' \in SUBSET Region
    BY <1>4, <2>1, ErasedType, Zenon
    DEF FlashStep, EnvIoClear, EnvIoWriteSbl, EnvIoWriteMove
  <2>3. pc' \in PC \ {"run", "off"} /\ pc \notin {"off", "run"}
    BY <1>4 DEF FlashStep, EnvIoClear, EnvIoWriteSbl, EnvIoWriteMove, PC
  <2>4. sblEnv' \in SblEnv
    BY <1>4 DEF FlashStep, EnvIoClear, EnvIoWriteSbl, EnvIoWriteMove, TypeOK
  <2>5. ubEnv' \in [{"uboot", "saved"} -> UbootEnv]
    BY <1>4, <2>1 DEF FlashStep, EnvIoClear, EnvIoWriteSbl, EnvIoWriteMove, TypeOK
  <2>6. UNCHANGED ramVars
    BY <1>4 DEF FlashStep, EnvIoClear, EnvIoWriteSbl, EnvIoWriteMove
  <2> QED
    BY <1>0, <2>2, <2>3, <2>4, <2>5, <2>6 DEF TypeOK, BootStep, ramVars, boundVars
<1> QED
  BY <1>1, <1>2, <1>3, <1>4, Zenon DEF BootStep

LEMMA BootFaultType == TypeOK /\ BootFault => TypeOK'
<1> SUFFICES ASSUME TypeOK, BootFault PROVE TypeOK'
  OBVIOUS
<1>0. faults' \in 0..MaxFaults
  BY SlotAssumption DEF TypeOK, BootFault
<1>1. ASSUME NEW e \in Parts(SblImport), PrepareEnv(e) PROVE TypeOK'
  <2>1. ctx' \in SblEnv /\ ctx'.bootvol \in Volume /\ ctx'.safe_bootvol \in Volume
    BY <1>1, PreparedType, PartsVolumes, SblImportType DEF PrepareEnv, HasVolumes
  <2>2. recovery' \in BOOLEAN /\ interrupted' \in BOOLEAN
    BY <1>1, SlotAssumption, Zenon DEF PrepareEnv, BootFault
  <2> QED
    BY <1>0, <1>1, <2>1, <2>2
    DEF PrepareEnv, TypeOK, BootFault, flashVars, PC
<1>2. CASE FlashFails
  <2>1. move.dst \in Region /\ "sbl" \in Region /\ "uboot" \in Region /\ "saved" \in Region
          /\ valid \in SUBSET Region
    BY DEF TypeOK, Moves, Region
  <2>2. valid' \in SUBSET Region
    BY <1>2, <2>1, ErasedType DEF FlashFails, EnvIoFails
  <2>3. pc' \in PC \ {"run", "off"} /\ pc \notin {"off", "run"}
    BY <1>2 DEF FlashFails, EnvIoFails, PC
  <2>4. UNCHANGED <<sblEnv, ubEnv, ramVars>>
    BY <1>2 DEF FlashFails, EnvIoFails
  <2> QED
    BY <1>0, <2>2, <2>3, <2>4 DEF TypeOK, BootFault, ramVars
<1>3. CASE SelectSlot(FALSE)
  <2>1. ctx' \in SblEnv /\ ctx'.bootvol \in Volume /\ ctx'.safe_bootvol \in Volume
    BY <1>3, Zenon DEF SelectSlot, TypeOK, SblEnv
  <2>2. move' \in Moves
    <3>1. \/ move' = [dst |-> "uboot", data |-> EmptyEnv, invalidate |-> FALSE]
          \/ move' = [dst |-> "saved", data |-> EmptyEnv, invalidate |-> TRUE]
      BY <1>3, Zenon DEF SelectSlot
    <3>2. EmptyEnv \in UbootEnv
      BY DEF UbootEnv
    <3> QED
      BY <3>1, <3>2, MovesType, Zenon
  <2>3. pc' = "move_clear" /\ UNCHANGED <<flashVars, recovery, booted>>
    BY <1>3, Zenon DEF SelectSlot
  <2> QED
    BY <1>0, <2>1, <2>2, <2>3 DEF TypeOK, BootFault, flashVars, PC
<1> QED
  BY <1>1, <1>2, <1>3, Zenon DEF BootFault

LEMMA StartType == TypeOK /\ Start => TypeOK'
<1> SUFFICES ASSUME TypeOK, Start PROVE TypeOK'
  OBVIOUS
<1>1. starts' \in 0..(MaxFaults + 2)
  BY SlotAssumption DEF TypeOK, Start
<1> QED
  BY <1>1 DEF TypeOK, Start, Load, flashVars, boundVars, PC, Volume, Unset

LEMMA ResetType == TypeOK /\ (PowerCut \/ Reboot) => TypeOK'
<1> SUFFICES ASSUME TypeOK, PowerCut \/ Reboot PROVE TypeOK'
  OBVIOUS
<1>1. /\ pc' = "off" /\ ctx' \in SblEnv /\ move' \in Moves
      /\ recovery' = FALSE /\ booted' = Unset
  BY NoSblEnvType DEF PowerCut, Reboot, ResetRam
<1>2. sblEnv' \in SblEnv
  BY SblImportType DEF PowerCut, Reboot, ForgetLost
<1>3. cuts' \in 0..MaxCuts /\ faults' = faults /\ requests' = requests
  BY SlotAssumption DEF PowerCut, Reboot, boundVars, TypeOK
<1>4. interrupted' \in BOOLEAN
  BY Zenon DEF PowerCut, Reboot, TypeOK
<1>5. UNCHANGED <<valid, ubEnv, trial, starts, good, goodValid>>
  BY DEF PowerCut, Reboot
<1> QED
  BY <1>1, <1>2, <1>3, <1>4, <1>5, Zenon DEF TypeOK, PC, Unset

LEMMA FirmwareType == TypeOK /\ Firmware => TypeOK'
<1> SUFFICES ASSUME TypeOK, Firmware PROVE TypeOK'
  OBVIOUS
<1>1. CASE Reboot
  BY <1>1, ResetType
<1>2. CASE ConfirmTrial
  <2>1. sblEnv' \in SblEnv
    BY <1>2, Zenon DEF ConfirmTrial, Running, TypeOK, SblEnv
  <2>2. good' \in UbootEnv /\ goodValid' \in BOOLEAN
    BY <1>2, UbImportType DEF ConfirmTrial
  <2>3. trial' = Unset /\ starts' \in 0..(MaxFaults + 2)
    BY <1>2, SlotAssumption DEF ConfirmTrial
  <2> QED
    BY <1>2, <2>1, <2>2, <2>3 DEF ConfirmTrial, TypeOK, ramVars, boundVars
<1>3. ASSUME NEW k \in BOOLEAN, RequestTrial(k) PROVE TypeOK'
  <2>1. sblEnv' \in SblEnv
    BY <1>3, Zenon DEF RequestTrial, Running, TypeOK, SblEnv
  <2>2. requests' \in 0..MaxRequests
    BY <1>3, SlotAssumption DEF RequestTrial, TypeOK
  <2>3. trial' \in Volume /\ starts' \in 0..(MaxFaults + 2)
    BY <1>3, SlotAssumption DEF RequestTrial
  <2> QED
    BY <1>3, <2>1, <2>2, <2>3 DEF RequestTrial, TypeOK, ramVars
<1>4. ASSUME NEW e \in UEnv, SaveUbootEnv(e) PROVE TypeOK'
  <2>1. e \in UbootEnv
    BY DEF UbootEnv
  <2>2. valid' \in SUBSET Region
    BY <1>4, ErasedType DEF SaveUbootEnv, Region, TypeOK
  <2> QED
    BY <1>4, <2>1, <2>2, Zenon DEF SaveUbootEnv, TypeOK, ramVars, boundVars
<1> QED
  BY <1>1, <1>2, <1>3, <1>4 DEF Firmware

\* SBL-S2 never compares an unset volume name, and every variable stays in its
\* type, for all sector layouts and bounds.
THEOREM TypeCorrect == Spec => []TypeOK
<1>1. TypeOK /\ [Next]_vars => TypeOK'
  <2> SUFFICES ASSUME TypeOK, [Next]_vars PROVE TypeOK'
    OBVIOUS
  <2>1. CASE UNCHANGED vars
    BY <2>1 DEF vars, flashVars, ramVars, boundVars, histVars, TypeOK
  <2> QED
    BY <2>1, BootStepType, BootFaultType, StartType, ResetType, FirmwareType DEF Next
<1> QED
  BY <1>1, InitType, PTL DEF Spec
-----------------------------------------------------------------------------
(***************************************************************************)
(* RAM follows flash as long as nothing fails.                             *)
(***************************************************************************)

LEMMA FollowsPrepare ==
  ASSUME TypeOK, CtxFollowsFlash, BootStep, PrepareEnv(SblImport)
  PROVE  CtxFollowsFlash'
<1>1. /\ pc = "off" /\ UNCHANGED <<valid, sblEnv>>
      /\ ctx' = Prepared(sblEnv)
      /\ pc' = IF Prepared(sblEnv) = sblEnv THEN "select" ELSE "prep_clear"
  BY DEF PrepareEnv, SblImport, Imported, CtxFollowsFlash, flashVars
<1> QED
  BY <1>1 DEF CtxFollowsFlash, Choosing

LEMMA FollowsSelect ==
  ASSUME TypeOK, CtxFollowsFlash, BootStep, SelectSlot(TRUE)
  PROVE  CtxFollowsFlash'
<1>1. pc = "select" /\ ctx = sblEnv /\ HasVolumes(sblEnv) /\ ~recovery
  BY DEF SelectSlot, CtxFollowsFlash, TypeOK, HasVolumes
<1>2. UNCHANGED <<valid, sblEnv, recovery>>
  BY DEF SelectSlot, flashVars
<1>3. CASE ~OnTrial(ctx)
  <2>1. pc' = "load" /\ ctx' = ctx
    BY <1>3 DEF SelectSlot
  <2> QED
    BY <1>1, <1>2, <1>3, <2>1 DEF CtxFollowsFlash, Choosing
<1>4. CASE OnTrial(ctx)
  <2>1. pc' \in {"commit_clear", "move_clear"} /\ ctx' = Chosen(sblEnv)
    BY <1>1, <1>4, Zenon DEF SelectSlot, Chosen
  <2> QED
    BY <1>1, <1>2, <1>4, <2>1 DEF CtxFollowsFlash, HasVolumes, OnTrial, Choosing
<1> QED
  BY <1>3, <1>4

LEMMA FollowsFlash ==
  ASSUME TypeOK, CtxFollowsFlash, BootStep, FlashStep
  PROVE  CtxFollowsFlash'
<1> USE DEF FlashStep, EnvIoClear, EnvIoWriteSbl, EnvIoWriteMove
<1>0. UNCHANGED <<ctx, recovery>>
  BY Zenon DEF ramVars
<1>1. CASE pc \in {"prep_clear", "move_clear", "move_write", "invalidate",
                   "commit_clear", "rec_uboot", "rec_saved"}
  <2>1. UNCHANGED sblEnv
    BY <1>1
  <2>2. \/ pc = "prep_clear" /\ pc' = "prep_write"
        \/ /\ pc \in {"move_clear", "move_write", "invalidate", "commit_clear"}
           /\ pc' \in {"move_write", "invalidate", "commit_clear", "commit_write"}
        \/ pc = "rec_uboot" /\ pc' = "rec_saved"
        \/ pc = "rec_saved" /\ pc' = "load"
    BY <1>1
  <2> QED
    BY <1>0, <2>1, <2>2, Zenon DEF CtxFollowsFlash, HasVolumes, OnTrial, Choosing
<1>2. CASE pc \in {"prep_write", "commit_write"}
  <2>1. pc' \in {"select", "load"} /\ sblEnv' = ctx
    BY <1>2
  <2> QED
    BY <1>0, <2>1 DEF CtxFollowsFlash, Choosing
<1> QED
  BY <1>1, <1>2

LEMMA FollowsBootStep == TypeOK /\ CtxFollowsFlash /\ BootStep => CtxFollowsFlash'
<1> SUFFICES ASSUME TypeOK, CtxFollowsFlash, BootStep PROVE CtxFollowsFlash'
  OBVIOUS
<1>1. CASE PrepareRecovery
  <2>1. /\ pc = "select" /\ pc' = "rec_uboot" /\ recovery
        /\ UNCHANGED <<valid, sblEnv, ctx, recovery>>
    BY <1>1 DEF PrepareRecovery, flashVars, ramVars
  <2> QED
    BY <2>1, Zenon DEF CtxFollowsFlash, Choosing
<1> QED
  BY <1>1, FollowsPrepare, FollowsSelect, FollowsFlash, Zenon DEF BootStep

LEMMA FollowsStart == TypeOK /\ CtxFollowsFlash /\ Start => CtxFollowsFlash'
<1> SUFFICES ASSUME TypeOK, CtxFollowsFlash, Start PROVE CtxFollowsFlash'
  OBVIOUS
<1>1. /\ pc = "load" /\ pc' = "run" /\ UNCHANGED sblEnv
      /\ ctx = sblEnv /\ HasVolumes(sblEnv)
  BY DEF Start, Load, CtxFollowsFlash, flashVars, TypeOK, HasVolumes
<1> QED
  BY <1>1 DEF CtxFollowsFlash, HasVolumes, Choosing

LEMMA FollowsReset == PowerCut \/ Reboot => CtxFollowsFlash'
<1> SUFFICES ASSUME PowerCut \/ Reboot PROVE CtxFollowsFlash'
  OBVIOUS
<1>1. pc' = "off" /\ valid' = valid /\ sblEnv' = SblImport
  BY DEF PowerCut, Reboot, ResetRam, ForgetLost
<1> QED
  BY <1>1 DEF SblImport, Imported, CtxFollowsFlash, Choosing

LEMMA FollowsFirmware == TypeOK /\ CtxFollowsFlash /\ Firmware => CtxFollowsFlash'
<1> SUFFICES ASSUME TypeOK, CtxFollowsFlash, Firmware PROVE CtxFollowsFlash'
  OBVIOUS
<1>0. ASSUME pc = "run", pc' = "run", HasVolumes(sblEnv') PROVE CtxFollowsFlash'
  BY <1>0 DEF CtxFollowsFlash, HasVolumes, Choosing
<1>1. CASE Reboot
  BY <1>1, FollowsReset
<1>2. CASE ConfirmTrial
  <2>1. pc = "run" /\ pc' = "run"
    BY <1>2 DEF ConfirmTrial, Running
  <2>2. HasVolumes(sblEnv')
    BY <1>2 DEF ConfirmTrial, Running, CtxFollowsFlash, HasVolumes, TypeOK, SblEnv
  <2> QED
    BY <1>0, <2>1, <2>2
<1>3. ASSUME NEW k \in BOOLEAN, RequestTrial(k) PROVE CtxFollowsFlash'
  <2>1. pc = "run" /\ pc' = "run"
    BY <1>3 DEF RequestTrial, Running
  <2>2. HasVolumes(sblEnv')
    BY <1>3 DEF RequestTrial, Running, CtxFollowsFlash, HasVolumes, TypeOK, SblEnv
  <2> QED
    BY <1>0, <2>1, <2>2
<1>4. ASSUME NEW e \in UEnv, SaveUbootEnv(e) PROVE CtxFollowsFlash'
  <2>1. pc = "run" /\ UNCHANGED <<pc, sblEnv>>
    BY <1>4 DEF SaveUbootEnv, Running
  <2> QED
    BY <1>0, <2>1 DEF CtxFollowsFlash
<1> QED
  BY <1>1, <1>2, <1>3, <1>4 DEF Firmware

\* Only failures are counted as failures.
LEMMA FaultsCounted ==
  ASSUME TypeOK, [Next]_vars
  PROVE  /\ faults \in Nat /\ starts \in Nat
         /\ IF BootFault THEN faults' = faults + 1 ELSE faults' = faults
<1>1. faults \in Nat /\ starts \in Nat
  BY SlotAssumption DEF TypeOK
<1>2. faults' = faults \/ BootFault
  BY Zenon DEF Next, BootStep, Start, PowerCut, Firmware, Reboot, ConfirmTrial, RequestTrial,
         SaveUbootEnv, vars, boundVars
<1> QED
  BY <1>1, <1>2, Zenon DEF BootFault
-----------------------------------------------------------------------------
(***************************************************************************)
(* The volume on trial is the requested one, failures or not.              *)
(***************************************************************************)

LEMMA DefaultedKeeps ==
  ASSUME NEW e \in SblEnv, HasVolumes(e)
  PROVE  Defaulted(e) = e
BY DEF Defaulted, HasVolumes, Volume, Unset

LEMMA PreparedVolumes ==
  ASSUME NEW e \in SblEnv
  PROVE  /\ Prepared(e).bootvol = Defaulted(e).bootvol
         /\ Prepared(e).safe_bootvol = Defaulted(e).safe_bootvol
         /\ Prepared(e).tried_to_boot = e.tried_to_boot
BY DefaultedType, Zenon DEF Prepared, Defaulted, SblEnv

LEMMA SafeType == TypeOK => Vol \in Volume /\ Safe \in Volume
BY DefaultedType DEF TypeOK, Vol, Safe, HasVolumes

\* A step of a boot that leaves the stored environment, the copy in RAM and the
\* choice of recovery alone.
LEMMA RequestedAside ==
  ASSUME TrialIsRequested, UNCHANGED <<sblEnv, ctx, recovery, trial>>,
         interrupted => interrupted', faults' > 0 => interrupted',
         Booting, Booting', pc' \in Choosing => pc \in Choosing,
         pc' = "load" => pc = "rec_saved" \/ pc \in Choosing,
         pc' \in {"rec_uboot", "rec_saved"} => recovery
  PROVE  TrialIsRequested'
<1>1. Vol' = Vol /\ Safe' = Safe /\ (OnTrial(ctx))' = OnTrial(ctx)
  BY DEF Vol, Safe, Defaulted, OnTrial
<1>2. TrialTakenForSafe => TrialTakenForSafe'
  BY <1>1 DEF TrialTakenForSafe, Safe, Defaulted
<1>3. pc' # "off"
  BY DEF Booting
<1>4. pc \in {"rec_uboot", "rec_saved"} => recovery
  BY DEF TrialIsRequested
<1>5. (pc' \in Choosing \/ (pc' = "load" /\ ~recovery)) => pc \in Choosing
  BY <1>4
<1>6. /\ Vol' # Safe' => Vol' = trial'
      /\ Safe' = trial' => TrialTakenForSafe'
      /\ (OnTrial(ctx))' => ctx'.bootvol = trial'
      /\ ctx'.safe_bootvol = Safe' \/ (ctx'.safe_bootvol = "a" /\ interrupted')
  BY <1>1, <1>2, Zenon DEF TrialIsRequested
<1>7. pc' \in Choosing \/ (pc' = "load" /\ ~recovery')
        => ((OnTrial(ctx))' => ctx'.tried_to_boot)
  BY <1>1, <1>5, Zenon DEF TrialIsRequested
<1> QED
  BY <1>3, <1>4, <1>6, <1>7, Zenon DEF TrialIsRequested

LEMMA RequestedPrepare ==
  ASSUME TypeOK, TrialIsRequested, NEW e \in Parts(SblImport), PrepareEnv(e),
         UNCHANGED trial, e = SblImport \/ interrupted',
         interrupted => interrupted', faults' > 0 => interrupted'
  PROVE  TrialIsRequested'
<1>1. pc = "off" /\ SblImport = sblEnv /\ sblEnv \in SblEnv
  BY DEF PrepareEnv, TrialIsRequested, SblImport, Imported, TypeOK
<1>2. /\ UNCHANGED sblEnv /\ ctx' = Prepared(e) /\ pc' \in {"select", "prep_clear"}
  BY DEF PrepareEnv, flashVars
<1>3. Vol' = Vol /\ Safe' = Safe
  BY <1>2 DEF Vol, Safe, Defaulted
<1>4. \/ ctx'.bootvol = Vol /\ ctx'.safe_bootvol = Safe
      \/ ctx'.bootvol = "a" /\ ctx'.safe_bootvol = "a" /\ interrupted'
  BY <1>1, <1>2, PartsVolumes, PreparedVolumes DEF Vol, Safe
<1>5. TrialTakenForSafe => TrialTakenForSafe'
  BY <1>2 DEF TrialTakenForSafe, Defaulted
<1>6. /\ Vol' # Safe' => Vol' = trial'
      /\ Safe' = trial' => TrialTakenForSafe'
  BY <1>3, <1>5 DEF TrialIsRequested
<1>7. (OnTrial(ctx))' => ctx'.bootvol = trial'
  BY <1>3, <1>4, <1>6, Zenon DEF OnTrial
<1> QED
  BY <1>2, <1>3, <1>4, <1>6, <1>7 DEF TrialIsRequested, Choosing

LEMMA RequestedSelect ==
  ASSUME TypeOK, TrialIsRequested, NEW ok \in BOOLEAN, SelectSlot(ok), UNCHANGED trial,
         interrupted => interrupted', faults' > 0 => interrupted'
  PROVE  TrialIsRequested'
<1>1. /\ pc = "select" /\ ~recovery /\ UNCHANGED <<sblEnv, recovery>>
      /\ pc' \in {"load", "commit_clear", "move_clear"} /\ Booting
  BY DEF SelectSlot, flashVars, Booting
<1>2. Vol' = Vol /\ Safe' = Safe
  BY <1>1 DEF Vol, Safe, Defaulted
<1>3. TrialTakenForSafe => TrialTakenForSafe'
  BY <1>1 DEF TrialTakenForSafe, Defaulted
<1>4. /\ Vol' # Safe' => Vol' = trial'
      /\ Safe' = trial' => TrialTakenForSafe'
  BY <1>2, <1>3 DEF TrialIsRequested
<1>5. /\ ctx'.safe_bootvol = ctx.safe_bootvol
      /\ (OnTrial(ctx))' => OnTrial(ctx) /\ ctx'.bootvol = ctx.bootvol /\ ctx'.tried_to_boot
  BY Zenon DEF SelectSlot, TypeOK, SblEnv, OnTrial
<1>6. /\ (OnTrial(ctx))' => ctx'.bootvol = trial'
      /\ ctx'.safe_bootvol = Safe' \/ (ctx'.safe_bootvol = "a" /\ interrupted')
  BY <1>1, <1>2, <1>5 DEF TrialIsRequested
<1> QED
  BY <1>1, <1>4, <1>5, <1>6 DEF TrialIsRequested

\* The environment in RAM is written to flash.
LEMMA RequestedWrite ==
  ASSUME TypeOK, TrialIsRequested, Booting, sblEnv' = ctx,
         UNCHANGED <<ctx, recovery, trial, interrupted>>, faults' > 0 => interrupted',
         \/ pc = "prep_write" /\ pc' = "select"
         \/ pc = "commit_write" /\ pc' = "load"
  PROVE  TrialIsRequested'
<1>1. ctx \in SblEnv /\ HasVolumes(ctx)
  BY DEF TypeOK, HasVolumes, Booting
<1>2. Vol' = ctx.bootvol /\ Safe' = ctx.safe_bootvol
  BY <1>1, DefaultedKeeps DEF Vol, Safe
<1>3. Vol' # Safe' => Vol' = trial'
  BY <1>2 DEF TrialIsRequested, OnTrial
<1>4. Safe' = trial' => TrialTakenForSafe'
  <2> SUFFICES ASSUME Safe' = trial PROVE interrupted /\ trial = "a"
    BY DEF TrialTakenForSafe, Safe
  <2>1. CASE Safe = trial
    BY <2>1 DEF TrialIsRequested, TrialTakenForSafe
  <2>2. CASE Safe # trial
    BY <1>2, <2>2 DEF TrialIsRequested
  <2> QED
    BY <2>1, <2>2
<1>5. (OnTrial(ctx))' = OnTrial(ctx)
  BY DEF OnTrial
<1>6. pc' = "load" => (OnTrial(ctx) => ctx.tried_to_boot)
  BY DEF TrialIsRequested, Choosing
<1> QED
  BY <1>2, <1>3, <1>4, <1>5, <1>6 DEF TrialIsRequested, Choosing

LEMMA RequestedBootStep == TypeOK /\ TrialIsRequested /\ BootStep => TrialIsRequested'
<1> SUFFICES ASSUME TypeOK, TrialIsRequested, BootStep PROVE TrialIsRequested'
  OBVIOUS
<1>0. UNCHANGED <<trial, faults, interrupted>> /\ (faults' > 0 => interrupted')
  BY DEF BootStep, boundVars, TrialIsRequested
<1>1. CASE PrepareEnv(SblImport)
  <2>1. SblImport \in Parts(SblImport)
    BY SblImportType DEF Parts, SblEnv
  <2> QED
    BY <1>0, <1>1, <2>1, RequestedPrepare
<1>2. CASE SelectSlot(TRUE)
  BY <1>0, <1>2, RequestedSelect, Zenon
<1>3. CASE PrepareRecovery
  <2>1. /\ pc = "select" /\ pc' = "rec_uboot" /\ recovery /\ UNCHANGED <<sblEnv, ctx, recovery>>
    BY <1>3 DEF PrepareRecovery, flashVars, ramVars
  <2> QED
    BY <1>0, <2>1, RequestedAside, Zenon DEF Booting, Choosing
<1>4. CASE FlashStep
  <2>1. UNCHANGED <<ctx, recovery>> /\ Booting
    BY <1>4 DEF FlashStep, EnvIoClear, EnvIoWriteSbl, EnvIoWriteMove, ramVars, Booting
  <2>2. CASE pc \in {"prep_write", "commit_write"}
    <3>1. /\ sblEnv' = ctx
          /\ \/ pc = "prep_write" /\ pc' = "select"
             \/ pc = "commit_write" /\ pc' = "load"
      BY <1>4, <2>2 DEF FlashStep, EnvIoWriteSbl
    <3> QED
      BY <1>0, <2>1, <3>1, RequestedWrite
  <2>3. CASE pc \notin {"prep_write", "commit_write"}
    <3>1. /\ UNCHANGED sblEnv
          /\ \/ pc = "prep_clear" /\ pc' = "prep_write"
             \/ pc \in Choosing /\ pc' \in Choosing
             \/ pc = "rec_uboot" /\ pc' = "rec_saved"
             \/ pc = "rec_saved" /\ pc' = "load"
      BY <1>4, <2>3 DEF FlashStep, EnvIoClear, EnvIoWriteMove, Choosing
    <3>2. Booting' /\ (pc' \in Choosing => pc \in Choosing)
            /\ (pc' = "load" => pc = "rec_saved" \/ pc \in Choosing)
            /\ (pc' \in {"rec_uboot", "rec_saved"} => recovery)
      BY <3>1 DEF Booting, Choosing, TrialIsRequested
    <3> QED
      BY <1>0, <2>1, <3>1, <3>2, RequestedAside
  <2> QED
    BY <2>2, <2>3
<1> QED
  BY <1>1, <1>2, <1>3, <1>4 DEF BootStep

LEMMA RequestedBootFault == TypeOK /\ TrialIsRequested /\ BootFault => TrialIsRequested'
<1> SUFFICES ASSUME TypeOK, TrialIsRequested, BootFault PROVE TrialIsRequested'
  OBVIOUS
<1>0. UNCHANGED trial /\ interrupted'
  BY DEF BootFault
<1>1. ASSUME NEW e \in Parts(SblImport), PrepareEnv(e) PROVE TrialIsRequested'
  BY <1>0, <1>1, RequestedPrepare
<1>2. CASE SelectSlot(FALSE)
  BY <1>0, <1>2, RequestedSelect, Zenon
<1>3. CASE FlashFails
  <2>1. /\ UNCHANGED <<sblEnv, ctx, recovery>>
        /\ \/ pc \in {"prep_clear", "prep_write"} /\ pc' = "select"
           \/ pc \in Choosing /\ pc' \in {"commit_clear", "load"}
           \/ pc = "rec_uboot" /\ pc' = "rec_saved"
           \/ pc = "rec_saved" /\ pc' = "load"
    BY <1>3 DEF FlashFails, EnvIoFails, ramVars, Choosing
  <2>2. /\ Booting /\ Booting' /\ (pc' \in Choosing => pc \in Choosing)
        /\ (pc' = "load" => pc = "rec_saved" \/ pc \in Choosing)
        /\ (pc' \in {"rec_uboot", "rec_saved"} => recovery)
    BY <2>1 DEF Booting, Choosing, TrialIsRequested
  <2> QED
    BY <1>0, <2>1, <2>2, RequestedAside
<1> QED
  BY <1>1, <1>2, <1>3, Zenon DEF BootFault

\* A step outside of a boot only has to keep what flash says.
LEMMA RequestedOutside ==
  ASSUME pc' \in {"off", "run"}, faults' > 0 => interrupted',
         Vol' # Safe' => Vol' = trial', Safe' = trial' => TrialTakenForSafe',
         pc' = "off" /\ "sbl" \notin valid' => sblEnv' = NoSblEnv
  PROVE  TrialIsRequested'
BY DEF TrialIsRequested, Booting, Choosing

LEMMA RequestedStart == TrialIsRequested /\ Start => TrialIsRequested'
<1> SUFFICES ASSUME TrialIsRequested, Start PROVE TrialIsRequested'
  OBVIOUS
<1>1. pc' = "run" /\ UNCHANGED <<sblEnv, trial, faults, interrupted>>
  BY DEF Start, Load, flashVars, boundVars
<1>2. Vol' = Vol /\ Safe' = Safe /\ (TrialTakenForSafe => TrialTakenForSafe')
  BY <1>1 DEF Vol, Safe, Defaulted, TrialTakenForSafe
<1> QED
  BY <1>1, <1>2, RequestedOutside DEF TrialIsRequested

\* What a reset leaves: the stored volumes or, if they are lost, "a" twice.
LEMMA ResetVolumes ==
  ASSUME TypeOK, PowerCut \/ Reboot
  PROVE  /\ pc' = "off" /\ UNCHANGED <<trial, starts, faults>>
         /\ interrupted => interrupted'
         /\ \/ UNCHANGED sblEnv
            \/ sblEnv' = NoSblEnv /\ Vol' = "a" /\ Safe' = "a" /\ interrupted'
<1>1. /\ pc' = "off" /\ UNCHANGED <<trial, starts, faults>> /\ sblEnv' = SblImport
      /\ (interrupted => interrupted') /\ ("sbl" \notin valid => interrupted')
  BY Zenon DEF PowerCut, Reboot, ResetRam, ForgetLost, boundVars
<1>2. sblEnv' = NoSblEnv => Vol' = "a" /\ Safe' = "a"
  BY DEF Vol, Safe, Defaulted, NoSblEnv
<1> QED
  BY <1>1, <1>2 DEF SblImport, Imported

LEMMA RequestedReset == TypeOK /\ TrialIsRequested /\ (PowerCut \/ Reboot) => TrialIsRequested'
<1> SUFFICES ASSUME TypeOK, TrialIsRequested, PowerCut \/ Reboot PROVE TrialIsRequested'
  OBVIOUS
<1>1. /\ pc' = "off" /\ UNCHANGED <<trial, faults>>
      /\ interrupted => interrupted'
      /\ \/ UNCHANGED sblEnv
         \/ sblEnv' = NoSblEnv /\ Vol' = "a" /\ Safe' = "a" /\ interrupted'
  BY ResetVolumes
<1>2. (faults' > 0 => interrupted') /\ ("sbl" \notin valid' => sblEnv' = NoSblEnv)
  <2>1. CtxFollowsFlash'
    BY FollowsReset
  <2> QED
    BY <1>1, <2>1 DEF CtxFollowsFlash, TrialIsRequested
<1>3. CASE UNCHANGED sblEnv
  <2>1. Vol' = Vol /\ Safe' = Safe /\ (TrialTakenForSafe => TrialTakenForSafe')
    BY <1>1, <1>3 DEF Vol, Safe, Defaulted, TrialTakenForSafe
  <2> QED
    BY <1>1, <1>2, <2>1, RequestedOutside DEF TrialIsRequested
<1>4. CASE Vol' = "a" /\ Safe' = "a" /\ interrupted'
  <2>1. Safe' = trial' => TrialTakenForSafe'
    BY <1>4 DEF TrialTakenForSafe, Safe
  <2> QED
    BY <1>1, <1>2, <1>4, <2>1, RequestedOutside
<1> QED
  BY <1>1, <1>3, <1>4

LEMMA RequestedFirmware ==
  ASSUME TypeOK, TrialIsRequested, faults = 0 => CtxFollowsFlash, Firmware
  PROVE  TrialIsRequested'
<1>1. CASE Reboot
  BY <1>1, RequestedReset
<1>2. CASE ConfirmTrial
  <2>1. /\ pc' = "run" /\ trial' = Unset /\ UNCHANGED <<faults, interrupted>>
        /\ booted \in Volume /\ sblEnv \in SblEnv /\ booted = sblEnv.bootvol
    BY <1>2 DEF ConfirmTrial, Running, boundVars, TypeOK
  <2>2. sblEnv' \in SblEnv /\ sblEnv'.bootvol = booted /\ sblEnv'.safe_bootvol = booted
    BY <1>2, <2>1, Zenon DEF ConfirmTrial, SblEnv
  <2>3. Vol' = booted /\ Safe' = booted
    BY <2>1, <2>2, DefaultedKeeps DEF Vol, Safe, HasVolumes
  <2>4. booted # Unset
    BY <2>1 DEF Volume, Unset
  <2> QED
    BY <2>1, <2>3, <2>4, RequestedOutside, Zenon DEF TrialIsRequested
<1>3. ASSUME NEW k \in BOOLEAN, RequestTrial(k) PROVE TrialIsRequested'
  <2>1. /\ pc = "run" /\ pc' = "run" /\ UNCHANGED <<faults, interrupted>> /\ sblEnv \in SblEnv
        /\ trial' \in Volume \ {sblEnv.safe_bootvol}
    BY <1>3 DEF RequestTrial, Running, TypeOK
  <2>2. /\ sblEnv' \in SblEnv /\ sblEnv'.bootvol = trial'
        /\ sblEnv'.safe_bootvol = sblEnv.safe_bootvol
    BY <1>3, <2>1, Zenon DEF RequestTrial, SblEnv
  <2>3. CASE sblEnv.safe_bootvol \in Volume
    <3>1. Vol' = trial' /\ Safe' = sblEnv.safe_bootvol
      BY <2>1, <2>2, <2>3, DefaultedKeeps DEF Vol, Safe, HasVolumes
    <3> QED
      BY <2>1, <3>1, RequestedOutside, Zenon DEF TrialIsRequested
  <2>4. CASE sblEnv.safe_bootvol \notin Volume
    <3>1. sblEnv'.safe_bootvol = Unset
      BY <2>1, <2>2, <2>4 DEF SblEnv
    <3>2. Vol' = "a" /\ Safe' = "a"
      BY <2>2, <3>1 DEF Vol, Safe, Defaulted, SblEnv
    <3>3. faults # 0
      BY <2>1, <2>4 DEF CtxFollowsFlash, HasVolumes
    <3>4. faults > 0
      BY <3>3, SlotAssumption DEF TypeOK
    <3>5. interrupted'
      BY <2>1, <3>4 DEF TrialIsRequested
    <3>6. Safe' = trial' => TrialTakenForSafe'
      BY <3>2, <3>5 DEF TrialTakenForSafe, Safe
    <3> QED
      BY <2>1, <3>2, <3>5, <3>6, RequestedOutside
  <2> QED
    BY <2>3, <2>4
<1>4. ASSUME NEW e \in UEnv, SaveUbootEnv(e) PROVE TrialIsRequested'
  <2>1. pc' = "run" /\ UNCHANGED <<sblEnv, trial, faults, interrupted>>
    BY <1>4 DEF SaveUbootEnv, Running, boundVars
  <2>2. Vol' = Vol /\ Safe' = Safe /\ (TrialTakenForSafe => TrialTakenForSafe')
    BY <2>1 DEF Vol, Safe, Defaulted, TrialTakenForSafe
  <2> QED
    BY <2>1, <2>2, RequestedOutside DEF TrialIsRequested
<1> QED
  BY <1>1, <1>2, <1>3, <1>4 DEF Firmware
-----------------------------------------------------------------------------
(***************************************************************************)
(* The mark tried_to_boot is in flash before the volume on trial starts.   *)
(***************************************************************************)

\* A volume that is taken for the safe one stays so.
LEMMA TakenStays ==
  ASSUME TypeOK, TrialIsRequested, TrialIsRequested', TrialTakenForSafe,
         BootStep \/ BootFault \/ Start \/ PowerCut \/ Reboot
  PROVE  TrialTakenForSafe'
<1>1. Safe = "a" /\ trial = "a"
  BY DEF TrialTakenForSafe, Safe
<1>2. Safe' = "a" /\ trial' = trial
  <2>1. CASE UNCHANGED <<sblEnv, trial>>
    BY <1>1, <2>1 DEF Safe, Defaulted
  <2>2. CASE PowerCut \/ Reboot
    BY <1>1, <2>1, <2>2, ResetVolumes
  <2>3. CASE BootFault
    BY <2>1, <2>3, Zenon DEF BootFault, PrepareEnv, SelectSlot, FlashFails, EnvIoFails, flashVars
  <2>4. CASE Start
    BY <2>1, <2>4 DEF Start, Load, flashVars
  <2>5. CASE BootStep
    <3>1. CASE sblEnv' = ctx /\ pc \in {"prep_write", "commit_write"} /\ trial' = trial
      <4>1. ctx \in SblEnv /\ HasVolumes(ctx) /\ Booting
        BY <3>1 DEF TypeOK, HasVolumes, Booting
      <4>2. ctx.safe_bootvol = "a"
        BY <1>1, <4>1 DEF TrialIsRequested
      <4> QED
        BY <3>1, <4>1, <4>2, DefaultedKeeps DEF Safe
    <3>2. trial' = trial
      BY <2>5 DEF BootStep
    <3>3. UNCHANGED sblEnv \/ (sblEnv' = ctx /\ pc \in {"prep_write", "commit_write"})
      BY <2>5, Zenon DEF BootStep, PrepareEnv, SelectSlot, PrepareRecovery, FlashStep, EnvIoClear,
             EnvIoWriteSbl, EnvIoWriteMove, flashVars
    <3> QED
      BY <2>1, <3>1, <3>2, <3>3
  <2> QED
    BY <2>2, <2>3, <2>4, <2>5
<1> QED
  BY <1>1, <1>2 DEF TrialIsRequested

\* What fails is paid for at once.
LEMMA StartsBootFault ==
  ASSUME TypeOK, TrialIsRequested, StartsFollowMark, BootFault
  PROVE  StartsFollowMark'
<1>1. UNCHANGED <<sblEnv, starts>> /\ faults' = faults + 1
  BY Zenon DEF BootFault, PrepareEnv, SelectSlot, FlashFails, EnvIoFails, flashVars
<1>2. Vol' = Vol /\ Safe' = Safe
  BY <1>1 DEF Vol, Safe, Defaulted
<1>3. starts \in Nat /\ faults \in Nat
  BY SlotAssumption DEF TypeOK
<1>4. /\ starts <= 1 + faults
      /\ Vol # Safe /\ ~sblEnv.tried_to_boot => starts <= faults
  BY DEF StartsFollowMark
<1>5. /\ starts' <= faults'
      /\ Vol' # Safe' /\ ~sblEnv'.tried_to_boot => starts' < faults'
      /\ starts' <= 1 + faults'
      /\ Vol' # Safe' /\ ~sblEnv'.tried_to_boot => starts' <= faults'
  BY <1>1, <1>2, <1>3, <1>4
<1> QED
  BY <1>5, Zenon DEF StartsFollowMark, Paid

\* A step that leaves the stored environment and the counts alone.
LEMMA StartsAside ==
  ASSUME StartsFollowMark, UNCHANGED <<sblEnv, starts, faults>>,
         Booting' => CtxFollowsFlash' \/ Paid,
         pc' = "load" /\ ~recovery' /\ ctx'.bootvol = trial' => Paid
  PROVE  StartsFollowMark'
<1>1. Vol' = Vol /\ Safe' = Safe
  BY DEF Vol, Safe, Defaulted
<1>2. Paid' = Paid
  BY <1>1 DEF Paid
<1> QED
  BY <1>1, <1>2, Zenon DEF StartsFollowMark

LEMMA StartsWrite ==
  ASSUME TypeOK, TrialIsRequested, StartsFollowMark, ~TrialTakenForSafe, BootStep, FlashStep,
         pc \in {"prep_write", "commit_write"}
  PROVE  StartsFollowMark'
<1>1. /\ sblEnv' = ctx /\ UNCHANGED <<ctx, recovery, starts, faults, trial>> /\ Booting
      /\ \/ pc = "prep_write" /\ pc' = "select"
         \/ pc = "commit_write" /\ pc' = "load"
  BY Zenon DEF FlashStep, EnvIoWriteSbl, BootStep, boundVars, ramVars, Booting
<1>2. ctx \in SblEnv /\ HasVolumes(ctx) /\ sblEnv \in SblEnv
  BY <1>1 DEF TypeOK, HasVolumes, Booting
<1>3. Vol' = ctx.bootvol /\ Safe' = ctx.safe_bootvol
  BY <1>1, <1>2, DefaultedKeeps DEF Vol, Safe
<1>4. CtxFollowsFlash'
  BY <1>1 DEF CtxFollowsFlash, Choosing
<1>5. /\ starts <= 1 + faults
      /\ Vol # Safe /\ ~sblEnv.tried_to_boot => starts <= faults
      /\ CtxFollowsFlash \/ starts <= faults
  BY <1>1, Zenon DEF StartsFollowMark, Paid
<1>6. CASE pc = "prep_write"
  <2>1. ctx.bootvol # ctx.safe_bootvol /\ ~ctx.tried_to_boot => starts <= faults
    <3>1. CASE CtxFollowsFlash
      <4>1. ctx = Prepared(sblEnv)
        BY <1>6, <3>1 DEF CtxFollowsFlash
      <4>2. ctx.bootvol = Vol /\ ctx.safe_bootvol = Safe /\ ctx.tried_to_boot = sblEnv.tried_to_boot
        BY <1>2, <4>1, PreparedVolumes DEF Vol, Safe
      <4> QED
        BY <1>5, <4>2
    <3> QED
      BY <1>5, <3>1
  <2> QED
    BY <1>1, <1>3, <1>4, <1>5, <1>6, <2>1, Zenon DEF StartsFollowMark
<1>7. CASE pc = "commit_write"
  <2>1. ctx.bootvol # ctx.safe_bootvol => ctx.tried_to_boot
    BY <1>7 DEF TrialIsRequested, Choosing, OnTrial
  <2>2. ctx.bootvol = trial => starts <= faults
    <3>1. CASE CtxFollowsFlash
      <4>1. OnTrial(sblEnv) /\ HasVolumes(sblEnv) /\ ctx = Chosen(sblEnv)
        BY <1>7, <3>1 DEF CtxFollowsFlash, Choosing
      <4>2. Vol = sblEnv.bootvol /\ Safe = sblEnv.safe_bootvol
        BY <1>2, <4>1, DefaultedKeeps DEF Vol, Safe
      <4>3. CASE sblEnv.tried_to_boot
        <5>1. ctx.bootvol = Safe
          BY <1>2, <4>1, <4>2, <4>3 DEF Chosen, SblEnv
        <5> QED
          BY <5>1 DEF TrialIsRequested
      <4>4. CASE ~sblEnv.tried_to_boot
        BY <1>5, <4>1, <4>2, <4>4 DEF OnTrial
      <4> QED
        BY <4>3, <4>4
    <3> QED
      BY <1>5, <3>1
  <2>3. ctx.bootvol = trial => Paid'
    BY <1>1, <1>3, <2>1, <2>2, Zenon DEF Paid
  <2> QED
    BY <1>1, <1>3, <1>4, <1>5, <2>1, <2>3, Zenon DEF StartsFollowMark
<1> QED
  BY <1>6, <1>7

LEMMA StartsBootStep ==
  ASSUME TypeOK, TrialIsRequested, StartsFollowMark, ~TrialTakenForSafe, BootStep
  PROVE  StartsFollowMark'
<1>0. UNCHANGED <<starts, faults, trial>>
  BY DEF BootStep, boundVars
<1>1. Booting => CtxFollowsFlash \/ Paid
  BY DEF StartsFollowMark
<1>2. CtxFollowsFlash => CtxFollowsFlash'
  BY FollowsBootStep
<1>3. CASE PrepareEnv(SblImport)
  <2>1. pc = "off" /\ pc' \in {"select", "prep_clear"} /\ UNCHANGED sblEnv
    BY <1>3 DEF PrepareEnv, flashVars
  <2>2. CtxFollowsFlash
    BY <2>1 DEF CtxFollowsFlash, TrialIsRequested, Choosing
  <2> QED
    BY <1>0, <1>2, <2>1, <2>2, StartsAside
<1>4. CASE SelectSlot(TRUE)
  <2>1. /\ pc = "select" /\ Booting /\ UNCHANGED sblEnv
        /\ pc' = "load" => ~OnTrial(ctx) /\ ctx' = ctx
    BY <1>4 DEF SelectSlot, flashVars, Booting
  <2>2. ASSUME pc' = "load", ctx'.bootvol = trial', CtxFollowsFlash PROVE FALSE
    <3>1. ctx = sblEnv /\ ctx \in SblEnv /\ HasVolumes(ctx) /\ ctx.bootvol = ctx.safe_bootvol
      BY <2>1, <2>2 DEF CtxFollowsFlash, TypeOK, HasVolumes, OnTrial
    <3>2. Safe = trial
      BY <1>0, <2>1, <2>2, <3>1, DefaultedKeeps DEF Safe
    <3> QED
      BY <3>2 DEF TrialIsRequested
  <2> QED
    BY <1>0, <1>1, <1>2, <2>1, <2>2, StartsAside
<1>5. CASE PrepareRecovery
  <2>1. pc = "select" /\ Booting /\ pc' = "rec_uboot" /\ UNCHANGED sblEnv
    BY <1>5 DEF PrepareRecovery, flashVars, Booting
  <2> QED
    BY <1>0, <1>1, <1>2, <2>1, StartsAside
<1>6. CASE FlashStep /\ pc \notin {"prep_write", "commit_write"}
  <2>1. /\ Booting /\ UNCHANGED <<sblEnv, recovery>>
        /\ pc' = "load" => pc = "rec_saved"
    BY <1>6 DEF FlashStep, EnvIoClear, EnvIoWriteMove, ramVars, Booting
  <2>2. pc' = "load" => recovery'
    BY <2>1 DEF TrialIsRequested
  <2> QED
    BY <1>0, <1>1, <1>2, <2>1, <2>2, StartsAside
<1> QED
  BY <1>3, <1>4, <1>5, <1>6, StartsWrite DEF BootStep

LEMMA StartsStart ==
  ASSUME TypeOK, StartsFollowMark, Start
  PROVE  StartsFollowMark'
<1>1. /\ pc = "load" /\ pc' = "run" /\ UNCHANGED <<sblEnv, faults, trial>>
      /\ starts \in Nat /\ faults \in Nat /\ ctx.bootvol \in Volume
  BY SlotAssumption DEF Start, Load, flashVars, boundVars, TypeOK
<1>2. Vol' = Vol /\ Safe' = Safe
  BY <1>1 DEF Vol, Safe, Defaulted
<1>3. /\ starts <= 1 + faults
      /\ Vol # Safe /\ ~sblEnv.tried_to_boot => starts <= faults
  BY DEF StartsFollowMark
<1>4. CASE booted' = trial
  <2>1. trial # "R"
    BY DEF TypeOK, Volume, Unset
  <2>2. ~recovery /\ ctx.bootvol = trial
    BY <1>1, <1>4, <2>1 DEF Start, Load, Volume
  <2>3. Paid
    BY <1>1, <2>2 DEF StartsFollowMark
  <2>4. starts' = starts \/ starts' = starts + 1
    BY DEF Start
  <2>5. /\ starts' <= 1 + faults
        /\ Vol # Safe /\ ~sblEnv.tried_to_boot => starts' <= faults
    BY <1>1, <2>3, <2>4 DEF Paid
  <2> QED
    BY <1>1, <1>2, <2>5 DEF StartsFollowMark, Booting
<1>5. CASE booted' # trial
  <2>1. starts' = starts
    BY <1>5 DEF Start
  <2> QED
    BY <1>1, <1>2, <1>3, <2>1 DEF StartsFollowMark, Booting
<1> QED
  BY <1>4, <1>5

LEMMA StartsReset ==
  ASSUME TypeOK, StartsFollowMark, PowerCut \/ Reboot
  PROVE  StartsFollowMark'
<1>1. /\ pc' = "off" /\ UNCHANGED <<starts, faults>>
      /\ UNCHANGED sblEnv \/ (Vol' = "a" /\ Safe' = "a")
  BY ResetVolumes
<1>2. /\ starts <= 1 + faults
      /\ Vol # Safe /\ ~sblEnv.tried_to_boot => starts <= faults
  BY DEF StartsFollowMark
<1>3. UNCHANGED sblEnv => Vol' = Vol /\ Safe' = Safe
  BY DEF Vol, Safe, Defaulted
<1> QED
  BY <1>1, <1>2, <1>3 DEF StartsFollowMark, Booting

\* A request and a confirmation begin a new count.
LEMMA StartsFirmware ==
  ASSUME TypeOK, StartsFollowMark \/ TrialTakenForSafe, Firmware, ~Reboot
  PROVE  StartsFollowMark' \/ TrialTakenForSafe'
<1>0. faults \in Nat
  BY SlotAssumption DEF TypeOK
<1>1. CASE ConfirmTrial \/ \E k \in BOOLEAN : RequestTrial(k)
  <2>1. pc' = "run" /\ starts' = 0 /\ faults' = faults
    BY <1>1, Zenon DEF ConfirmTrial, RequestTrial, Running, boundVars
  <2>2. 0 <= 1 + faults /\ 0 <= faults
    BY <1>0
  <2> QED
    BY <2>1, <2>2 DEF StartsFollowMark, Booting
<1>2. ASSUME NEW e \in UEnv, SaveUbootEnv(e) PROVE StartsFollowMark' \/ TrialTakenForSafe'
  <2>1. /\ pc = "run" /\ pc' = "run"
        /\ UNCHANGED <<sblEnv, starts, faults, trial, interrupted>>
    BY <1>2 DEF SaveUbootEnv, Running, boundVars
  <2>2. Vol' = Vol /\ Safe' = Safe /\ (TrialTakenForSafe => TrialTakenForSafe')
    BY <2>1 DEF Vol, Safe, Defaulted, TrialTakenForSafe
  <2> QED
    BY <2>1, <2>2 DEF StartsFollowMark, Booting
<1> QED
  BY <1>1, <1>2 DEF Firmware

LEMMA MarkInit == Init => MarkPrecedesStart
<1> SUFFICES ASSUME Init PROVE MarkPrecedesStart
  OBVIOUS
<1>1. /\ pc = "off" /\ starts = 0 /\ faults = 0 /\ trial = Unset
      /\ "sbl" \notin valid => sblEnv = NoSblEnv
      /\ sblEnv \in SblEnv /\ ~OnTrial(sblEnv)
  BY DEF Init
<1>2. Vol = Safe /\ Safe # trial
  <2>1. HasVolumes(Defaulted(sblEnv))
    BY <1>1, DefaultedType
  <2> QED
    BY <1>1, <2>1 DEF Vol, Safe, Defaulted, OnTrial, HasVolumes, Volume, Unset, SblEnv
<1>3. CtxFollowsFlash
  BY <1>1 DEF CtxFollowsFlash, Choosing
<1>4. TrialIsRequested
  BY <1>1, <1>2 DEF TrialIsRequested, Booting, Choosing
<1>5. StartsFollowMark
  BY <1>1, <1>2 DEF StartsFollowMark, Booting
<1> QED
  BY <1>3, <1>4, <1>5 DEF MarkPrecedesStart

\* Every step keeps the agreement of RAM, flash and the count of starts.
LEMMA MarkStep == TypeOK /\ MarkPrecedesStart /\ [Next]_vars => MarkPrecedesStart'
<1> SUFFICES ASSUME TypeOK, MarkPrecedesStart, [Next]_vars
             PROVE  MarkPrecedesStart'
  OBVIOUS
<1>1. CASE UNCHANGED vars
  <2>1. UNCHANGED <<valid, sblEnv, pc, ctx, recovery, trial, starts, faults, interrupted>>
    BY <1>1 DEF vars, flashVars, ramVars, boundVars, histVars
  <2>2. Vol' = Vol /\ Safe' = Safe /\ CtxFollowsFlash' = CtxFollowsFlash
    BY <2>1 DEF Vol, Safe, Defaulted, CtxFollowsFlash, Choosing, HasVolumes, OnTrial
  <2>3. TrialTakenForSafe' = TrialTakenForSafe
    BY <2>1 DEF TrialTakenForSafe, Defaulted
  <2>4. TrialIsRequested' = TrialIsRequested
    BY <2>1, <2>2, <2>3 DEF TrialIsRequested, Booting, Choosing, OnTrial
  <2>5. StartsFollowMark' = StartsFollowMark
    BY <2>1, <2>2 DEF StartsFollowMark, Paid, Booting
  <2> QED
    BY <2>1, <2>2, <2>3, <2>4, <2>5 DEF MarkPrecedesStart
<1>2. CASE Next
  <2>0. /\ TrialIsRequested /\ (faults = 0 => CtxFollowsFlash)
        /\ StartsFollowMark \/ TrialTakenForSafe
    BY DEF MarkPrecedesStart
  <2>1. faults' = 0 => CtxFollowsFlash'
    <3>1. faults' = 0 => faults = 0 /\ ~BootFault
      BY FaultsCounted
    <3>2. BootStep \/ Start \/ PowerCut \/ Firmware \/ BootFault
      BY <1>2, Zenon DEF Next
    <3> QED
      BY <2>0, <3>1, <3>2, FollowsBootStep, FollowsStart, FollowsReset, FollowsFirmware, Zenon
  <2>2. TrialIsRequested'
    BY <1>2, <2>0, RequestedBootStep, RequestedBootFault, RequestedStart, RequestedReset,
       RequestedFirmware DEF Next
  <2>3. CASE BootStep \/ BootFault \/ Start \/ PowerCut \/ Reboot
    <3>1. CASE TrialTakenForSafe
      BY <2>0, <2>1, <2>2, <2>3, <3>1, TakenStays DEF MarkPrecedesStart
    <3>2. CASE ~TrialTakenForSafe
      <4>1. StartsFollowMark'
        BY <2>0, <2>3, <3>2, StartsBootStep, StartsBootFault, StartsStart, StartsReset
      <4> QED
        BY <2>1, <2>2, <4>1 DEF MarkPrecedesStart
    <3> QED
      BY <3>1, <3>2
  <2>4. CASE Firmware /\ ~Reboot
    BY <2>0, <2>1, <2>2, <2>4, StartsFirmware DEF MarkPrecedesStart
  <2> QED
    BY <1>2, <2>3, <2>4 DEF Next
<1> QED
  BY <1>1, <1>2

\* RAM, the stored environment and the progress of the boot agree wherever a
\* power cut can hit, and failures do not give the volume on trial more starts
\* than there are failures (select_slot and its callers).
THEOREM MarkPrecedesStartInvariant == Spec => []MarkPrecedesStart
BY MarkInit, MarkStep, TypeCorrect, PTL DEF Spec

\* select_slot starts a volume that nobody confirmed at most once per request and
\* once more per failure, for every number of power cuts, failures and requests
\* and every sector layout, unless the defaults of prepare_env have made it the
\* safe volume after the loss of the SBL environment.
THEOREM TrialStartsOnceInvariant == Spec => []TrialStartsOnce
<1>1. MarkPrecedesStart => TrialStartsOnce
  BY DEF MarkPrecedesStart, StartsFollowMark, TrialStartsOnce
<1> QED
  BY <1>1, MarkPrecedesStartInvariant, PTL
-----------------------------------------------------------------------------
(***************************************************************************)
(* SlotBoot implements TrialBoot.                                          *)
(***************************************************************************)

Armed == pc = "load" /\ ~recovery /\ OnTrial(ctx)
Run == IF pc = "run" THEN booted ELSE "off"

LEMMA RefInit == Init => Trial!TInit
<1> SUFFICES ASSUME Init PROVE Trial!TInit
  OBVIOUS
<1>1. sblEnv \in SblEnv /\ ~OnTrial(sblEnv)
  BY DEF Init
<1>2. HasVolumes(Defaulted(sblEnv))
  BY <1>1, DefaultedType
<1>3. Vol \in Volume /\ Safe = Vol /\ sblEnv.tried_to_boot \in BOOLEAN
  BY <1>1, <1>2 DEF Vol, Safe, HasVolumes, Defaulted, OnTrial, SblEnv
<1>4. ~Armed /\ Run = "off" /\ faults = 0
  BY DEF Init, Armed, Run
<1> QED
  BY <1>3, <1>4 DEF Trial!TInit, Vol, Safe, Armed, Run

LEMMA RefFault ==
  ASSUME TypeOK', faults' # 0
  PROVE  Trial!TNext
<1>1. sblEnv' \in SblEnv
  BY DEF TypeOK
<1>2. Vol' \in Volume /\ Safe' \in Volume /\ sblEnv'.tried_to_boot \in BOOLEAN
  BY <1>1, DefaultedType DEF Vol, Safe, HasVolumes, SblEnv
<1>3. Run' \in Volume \cup {"R", "off"}
  BY DEF TypeOK, Run, Volume, Unset
<1>4. Armed' \in BOOLEAN
  BY DEF Armed
<1>5. Trial!Distrust
  BY <1>2, <1>3, <1>4 DEF Trial!Distrust, Vol, Safe, Armed, Run
<1> QED
  BY <1>5 DEF Trial!TNext

\* A step that keeps the stored environment, outside "load" and "run".
LEMMA RefInner ==
  ASSUME UNCHANGED <<sblEnv, faults>>,
         pc \notin {"load", "run"}, pc' # "run",
         pc' = "load" => recovery' \/ ~OnTrial(ctx')
  PROVE  UNCHANGED Trial!tvars
<1>1. Vol' = Vol /\ Safe' = Safe /\ sblEnv'.tried_to_boot = sblEnv.tried_to_boot
  BY DEF Vol, Safe, Defaulted
<1>2. Run' = Run /\ Armed' = FALSE /\ Armed = FALSE
  BY DEF Run, Armed
<1> QED
  BY <1>1, <1>2 DEF Trial!tvars, Vol, Safe, Run, Armed

LEMMA RefCommit ==
  ASSUME TypeOK, CtxFollowsFlash, faults' = faults, BootStep, FlashStep, pc = "commit_write"
  PROVE  Trial!TNext
<1>1. /\ pc' = "load" /\ sblEnv' = ctx /\ UNCHANGED <<ctx, recovery>>
  BY DEF FlashStep, EnvIoWriteSbl, BootStep, ramVars
<1>2. ~recovery /\ HasVolumes(sblEnv) /\ OnTrial(sblEnv) /\ ctx = Chosen(sblEnv)
  BY DEF CtxFollowsFlash, Choosing
<1>3. sblEnv \in SblEnv /\ ctx \in SblEnv /\ HasVolumes(ctx)
  BY DEF TypeOK, HasVolumes
<1>4. /\ Vol = sblEnv.bootvol /\ Safe = sblEnv.safe_bootvol
      /\ Vol' = ctx.bootvol /\ Safe' = ctx.safe_bootvol
  BY <1>1, <1>2, <1>3, DefaultedKeeps DEF Vol, Safe
<1>5. Run = "off" /\ Run' = "off" /\ Armed = FALSE /\ (Armed' <=> OnTrial(ctx))
  BY <1>1, <1>2 DEF Run, Armed
<1>6. CASE sblEnv.tried_to_boot
  <2>1. /\ ctx.bootvol = sblEnv.safe_bootvol /\ ctx.safe_bootvol = sblEnv.safe_bootvol
        /\ ctx.tried_to_boot = FALSE
    BY <1>2, <1>3, <1>6 DEF Chosen, SblEnv
  <2>2. Armed' = FALSE
    BY <1>5, <2>1 DEF OnTrial
  <2>3. Trial!Abandon
    BY <1>1, <1>2, <1>4, <1>5, <1>6, <2>1, <2>2, Zenon
    DEF Trial!Abandon, Vol, Safe, Run, Armed, OnTrial
  <2> QED
    BY <2>3 DEF Trial!TNext
<1>7. CASE ~sblEnv.tried_to_boot
  <2>1. /\ ctx.bootvol = sblEnv.bootvol /\ ctx.safe_bootvol = sblEnv.safe_bootvol
        /\ ctx.tried_to_boot = TRUE
    BY <1>2, <1>3, <1>7 DEF Chosen, SblEnv
  <2>2. Armed' = TRUE
    BY <1>2, <1>5, <2>1 DEF OnTrial
  <2>3. Trial!MarkTrial
    BY <1>1, <1>2, <1>4, <1>5, <1>7, <2>1, <2>2, Zenon
    DEF Trial!MarkTrial, Vol, Safe, Run, Armed, OnTrial
  <2> QED
    BY <2>3 DEF Trial!TNext
<1> QED
  BY <1>6, <1>7

LEMMA RefPrepWrite ==
  ASSUME TypeOK, CtxFollowsFlash, faults' = faults, BootStep, FlashStep, pc = "prep_write"
  PROVE  UNCHANGED Trial!tvars
<1>1. /\ pc' = "select" /\ sblEnv' = Prepared(sblEnv)
  BY Zenon DEF FlashStep, EnvIoWriteSbl, BootStep, CtxFollowsFlash
<1>2. sblEnv \in SblEnv /\ Prepared(sblEnv) \in SblEnv /\ HasVolumes(Prepared(sblEnv))
  BY PreparedType DEF TypeOK
<1>3. Defaulted(Prepared(sblEnv)) = Prepared(sblEnv)
  BY <1>2, DefaultedKeeps
<1>4. /\ Prepared(sblEnv).bootvol = Defaulted(sblEnv).bootvol
      /\ Prepared(sblEnv).safe_bootvol = Defaulted(sblEnv).safe_bootvol
      /\ Prepared(sblEnv).tried_to_boot = sblEnv.tried_to_boot
  BY <1>2 DEF Prepared, Defaulted, SblEnv
<1>5. Vol' = Vol /\ Safe' = Safe
  BY <1>1, <1>3, <1>4 DEF Vol, Safe
<1>6. Run' = Run /\ Armed' = FALSE /\ Armed = FALSE
  BY <1>1 DEF Run, Armed
<1> QED
  BY <1>1, <1>4, <1>5, <1>6, Zenon DEF Trial!tvars, Vol, Safe, Run, Armed

LEMMA RefStart ==
  ASSUME TypeOK, CtxFollowsFlash, Start
  PROVE  Trial!TNext
<1>1. /\ pc = "load" /\ pc' = "run" /\ UNCHANGED <<sblEnv, ctx, recovery, faults>>
      /\ ctx = sblEnv /\ HasVolumes(sblEnv) /\ sblEnv \in SblEnv
  BY Zenon DEF Start, Load, CtxFollowsFlash, flashVars, boundVars, TypeOK, HasVolumes
<1>2. /\ Vol = sblEnv.bootvol /\ Safe = sblEnv.safe_bootvol /\ Vol' = Vol /\ Safe' = Safe
  BY <1>1, DefaultedKeeps DEF Vol, Safe
<1>3. Run = "off" /\ Run' = booted' /\ Armed' = FALSE
  BY <1>1 DEF Run, Armed
<1>4. CASE recovery
  <2>1. booted' = "R"
    BY <1>4 DEF Start, Load
  <2>2. Trial!StartRecovery
    BY <1>1, <1>2, <1>3, <2>1, Zenon DEF Trial!StartRecovery, Vol, Safe, Run, Armed
  <2> QED
    BY <2>2 DEF Trial!TNext
<1>5. CASE ~recovery /\ OnTrial(ctx)
  <2>1. booted' = sblEnv.bootvol
    BY <1>1, <1>5 DEF Start, Load, HasVolumes, Volume
  <2>2. Armed
    BY <1>1, <1>5 DEF Armed
  <2>3. Trial!StartTrial
    BY <1>1, <1>2, <1>3, <2>1, <2>2 DEF Trial!StartTrial, Vol, Safe, Run, Armed
  <2> QED
    BY <2>3 DEF Trial!TNext
<1>6. CASE ~recovery /\ ~OnTrial(ctx)
  <2>1. booted' = sblEnv.bootvol
    BY <1>1, <1>6 DEF Start, Load, HasVolumes, Volume
  <2>2. Armed = FALSE /\ Vol = Safe
    BY <1>1, <1>2, <1>6 DEF Armed, OnTrial
  <2>3. Trial!StartSafe
    BY <1>1, <1>2, <1>3, <2>1, <2>2 DEF Trial!StartSafe, Vol, Safe, Run, Armed
  <2> QED
    BY <2>3 DEF Trial!TNext
<1> QED
  BY <1>4, <1>5, <1>6

LEMMA RefReset ==
  ASSUME TypeOK, PowerCut \/ Reboot
  PROVE  Trial!TNext
<1>1. pc' = "off" /\ ForgetLost /\ faults' = faults
  BY DEF PowerCut, Reboot, ResetRam, boundVars
<1>2. Run' = "off" /\ Armed' = FALSE
  BY <1>1 DEF Run, Armed
<1>3. CASE "sbl" \in valid
  <2>1. Vol' = Vol /\ Safe' = Safe /\ UNCHANGED sblEnv
    BY <1>1, <1>3 DEF ForgetLost, SblImport, Imported, Vol, Safe, Defaulted
  <2>2. Trial!Stop
    BY <1>1, <1>2, <2>1 DEF Trial!Stop, Vol, Safe, Run, Armed
  <2> QED
    BY <2>2 DEF Trial!TNext
<1>4. CASE "sbl" \notin valid
  <2>1. Vol' = "a" /\ Safe' = "a" /\ sblEnv'.tried_to_boot = FALSE
    BY <1>1, <1>4 DEF ForgetLost, SblImport, Imported, Vol, Safe, Defaulted, NoSblEnv
  <2>2. Trial!Forget
    BY <1>1, <1>2, <2>1 DEF Trial!Forget, Vol, Safe, Run, Armed
  <2> QED
    BY <2>2 DEF Trial!TNext
<1> QED
  BY <1>3, <1>4

LEMMA RefFirmware ==
  ASSUME TypeOK, CtxFollowsFlash, Firmware
  PROVE  [Trial!TNext]_(Trial!tvars)
<1> DEFINE InVolume == /\ pc = "run" /\ pc' = "run" /\ UNCHANGED <<booted, faults>>
                       /\ booted \in Volume /\ HasVolumes(sblEnv) /\ sblEnv \in SblEnv
<1>1. CASE Reboot
  BY <1>1, RefReset
<1>2. CASE ConfirmTrial
  <2>1. InVolume
    BY <1>2 DEF ConfirmTrial, Running, ramVars, boundVars, CtxFollowsFlash, TypeOK
  <2>2. /\ sblEnv' \in SblEnv /\ HasVolumes(sblEnv') /\ sblEnv'.bootvol = sblEnv.bootvol
        /\ sblEnv'.safe_bootvol = sblEnv.bootvol /\ sblEnv'.tried_to_boot = FALSE
    BY <1>2, <2>1, Zenon DEF ConfirmTrial, SblEnv, HasVolumes
  <2>3. /\ Vol = sblEnv.bootvol /\ Safe = sblEnv.safe_bootvol
        /\ Vol' = sblEnv.bootvol /\ Safe' = sblEnv.bootvol
    BY <2>1, <2>2, DefaultedKeeps DEF Vol, Safe
  <2>4. Run = Vol /\ Run' = Run /\ Armed = FALSE /\ Armed' = FALSE /\ Vol # Safe
           /\ sblEnv.tried_to_boot
    BY <1>2, <2>1, <2>3 DEF Run, Armed, ConfirmTrial, OnTrial
  <2>5. Trial!Confirm
    BY <2>1, <2>2, <2>3, <2>4, Zenon DEF Trial!Confirm, Vol, Safe, Run, Armed
  <2> QED
    BY <2>5 DEF Trial!TNext
<1>3. ASSUME NEW k \in BOOLEAN, RequestTrial(k)
      PROVE  Trial!TNext
  <2>1. InVolume /\ ~OnTrial(sblEnv)
    BY <1>3 DEF RequestTrial, Running, ramVars, CtxFollowsFlash, TypeOK
  <2>2. /\ sblEnv' \in SblEnv /\ HasVolumes(sblEnv')
        /\ sblEnv'.bootvol \in Volume \ {sblEnv.safe_bootvol}
        /\ sblEnv'.safe_bootvol = sblEnv.safe_bootvol /\ sblEnv'.tried_to_boot = FALSE
    BY <1>3, <2>1, Zenon DEF RequestTrial, SblEnv, HasVolumes
  <2>3. /\ Vol = sblEnv.bootvol /\ Safe = sblEnv.safe_bootvol
        /\ Vol' = sblEnv'.bootvol /\ Safe' = sblEnv'.safe_bootvol
    BY <2>1, <2>2, DefaultedKeeps, Zenon DEF Vol, Safe
  <2>4. Run \in Volume /\ Run' = Run /\ Armed = FALSE /\ Armed' = FALSE /\ Vol = Safe
    BY <2>1, <2>3, Zenon DEF Run, Armed, OnTrial
  <2>5. Trial!Request
    BY <2>1, <2>2, <2>3, <2>4, Zenon DEF Trial!Request, Vol, Safe, Run, Armed
  <2> QED
    BY <2>5 DEF Trial!TNext
<1>4. ASSUME NEW e \in UEnv, SaveUbootEnv(e)
      PROVE  UNCHANGED Trial!tvars
  <2>1. pc = "run" /\ UNCHANGED <<pc, sblEnv, booted, faults>>
    BY <1>4 DEF SaveUbootEnv, Running, ramVars, boundVars
  <2>2. Vol' = Vol /\ Safe' = Safe /\ Run' = Run /\ Armed' = FALSE /\ Armed = FALSE
    BY <2>1 DEF Vol, Safe, Defaulted, Run, Armed
  <2> QED
    BY <2>1, <2>2, Zenon DEF Trial!tvars, Vol, Safe, Run, Armed
<1> QED
  BY <1>1, <1>2, <1>3, <1>4 DEF Firmware

LEMMA RefBootStep ==
  ASSUME TypeOK, CtxFollowsFlash, BootStep
  PROVE  [Trial!TNext]_(Trial!tvars)
<1>0. UNCHANGED faults
  BY DEF BootStep, boundVars
<1>1. CASE PrepareEnv(SblImport)
  BY <1>0, <1>1, RefInner DEF PrepareEnv, flashVars
<1>2. CASE SelectSlot(TRUE)
  <2>1. /\ pc = "select" /\ pc' # "run" /\ UNCHANGED sblEnv
        /\ pc' = "load" => ~OnTrial(ctx')
    BY <1>2 DEF SelectSlot, flashVars
  <2> QED
    BY <1>0, <2>1, RefInner
<1>3. CASE PrepareRecovery
  BY <1>0, <1>3, RefInner DEF PrepareRecovery, flashVars
<1>4. CASE FlashStep /\ pc \notin {"prep_write", "commit_write"}
  <2>1. /\ pc \notin {"load", "run"} /\ pc' # "run" /\ UNCHANGED <<sblEnv, recovery>>
        /\ pc' = "load" => pc = "rec_saved"
    BY <1>4, Zenon DEF FlashStep, EnvIoClear, EnvIoWriteMove, ramVars
  <2> QED
    BY <1>0, <2>1, RefInner DEF CtxFollowsFlash
<1> QED
  BY <1>0, <1>1, <1>2, <1>3, <1>4, RefCommit, RefPrepWrite, Zenon DEF BootStep

LEMMA RefStep ==
  ASSUME TypeOK, TypeOK', MarkPrecedesStart, [Next]_vars
  PROVE  [Trial!TNext]_(Trial!tvars)
<1>1. CASE faults' # 0
  BY <1>1, RefFault
<1>2. CASE faults' = 0
  <2>1. faults = 0 /\ ~BootFault
    <3>1. faults' = faults \/ BootFault
      BY Zenon DEF Next, BootStep, Start, PowerCut, Firmware, Reboot, ConfirmTrial,
             RequestTrial, SaveUbootEnv, vars, boundVars
    <3>2. faults \in Nat
      BY SlotAssumption DEF TypeOK
    <3>3. BootFault => faults' = faults + 1
      BY DEF BootFault
    <3> QED
      BY <1>2, <3>1, <3>2, <3>3
  <2>2. CtxFollowsFlash
    BY <2>1 DEF MarkPrecedesStart
  <2>3. CASE UNCHANGED vars
    <3>1. UNCHANGED <<sblEnv, faults, pc, recovery, ctx, booted>>
      BY <2>3 DEF vars, flashVars, ramVars, boundVars, histVars
    <3>2. Vol' = Vol /\ Safe' = Safe /\ Run' = Run /\ Armed' = Armed
      BY <3>1 DEF Vol, Safe, Run, Armed, Defaulted, OnTrial
    <3> QED
      BY <3>1, <3>2 DEF Trial!tvars, Vol, Safe, Run, Armed
  <2> QED
    BY <2>1, <2>2, <2>3, RefBootStep, RefStart, RefReset, RefFirmware DEF Next
<1> QED
  BY <1>1, <1>2

\* The volume selection of SBL-S2 (prepare_env and select_slot on SPI flash, power
\* cuts between any two flash operations included) implements TrialBoot.
THEOREM SlotBootImplementsTrialBoot == Spec => TrialSpec
<1>1. TypeOK /\ TypeOK' /\ MarkPrecedesStart /\ [Next]_vars => [Trial!TNext]_(Trial!tvars)
  BY RefStep
<1> QED
  BY <1>1, RefInit, TypeCorrect, MarkPrecedesStartInvariant, PTL
  DEF Spec, TrialSpec, Trial!TSpec
-----------------------------------------------------------------------------
(***************************************************************************)
(* The U-Boot environment of the safe volume.                              *)
(***************************************************************************)

\* 64 KiB sectors: erasing one environment leaves the two others alone.
SectorsApart == \A r, q \in Region : SectorOf[r] = SectorOf[q] => r = q

\* The SBL environment says that the U-Boot environment of the safe volume is
\* in the reserved copy: a volume is on trial and has an environment of its own.
Reserved(e) == OnTrial(e) /\ e.tried_to_boot /\ ~e.keep_uboot_env

Moving == {"move_clear", "move_write"}
Committing == {"commit_clear", "commit_write"}

\* From prepare_env on the SBL environment is readable, except between the erase
\* and the write of a commit.
SblReadable ==
  /\ pc \in PC \ {"off", "prep_clear", "prep_write", "commit_write"} => "sbl" \in valid
  /\ pc = "commit_write" => "sbl" \notin valid

\* What runs is the volume on trial exactly while the mark is set.
RunsAsMarked ==
  pc = "run" /\ booted \in Volume
    => (booted # sblEnv.safe_bootvol <=> OnTrial(sblEnv) /\ sblEnv.tried_to_boot)

\* Away from the exchange of the two copies the SBL environment tells where the
\* environment of the safe volume is.
EnvWhereMarked ==
  pc \in PC \ (Moving \cup Committing \cup {"invalidate", "rec_saved"})
    => UbImport(IF Reserved(sblEnv) THEN "saved" ELSE "uboot") = good

\* During env_move the source keeps it and the data in RAM are it.
EnvMoving ==
  pc \in Moving
    => /\ ~sblEnv.keep_uboot_env
       /\ move.data = good
       /\ move.invalidate <=> ~sblEnv.tried_to_boot
       /\ move.dst = IF sblEnv.tried_to_boot THEN "uboot" ELSE "saved"
       /\ UbImport(IF sblEnv.tried_to_boot THEN "saved" ELSE "uboot") = good

\* Before U-Boot's region is invalidated both copies hold it.
EnvTwice ==
  pc = "invalidate"
    => /\ ~sblEnv.keep_uboot_env /\ ~sblEnv.tried_to_boot /\ move.invalidate
       /\ UbImport("uboot") = good /\ UbImport("saved") = good

\* The copy that the environment about to be written will point to holds it; a
\* restored environment is still in the reserved copy while that one counts.
EnvCommitting ==
  pc \in Committing
    => /\ UbImport(IF Reserved(ctx) THEN "saved" ELSE "uboot") = good
       /\ pc = "commit_clear" /\ ~sblEnv.keep_uboot_env
            => IF sblEnv.tried_to_boot THEN UbImport("saved") = good ELSE move.invalidate

\* prepare_recovery gives both volumes an empty environment.
EnvErased == pc = "rec_saved" => good = EmptyEnv /\ "uboot" \notin valid

EnvKept ==
  ~interrupted =>
    /\ faults = 0
    /\ OnTrial(sblEnv) => HasVolumes(sblEnv)
    /\ SblReadable /\ RunsAsMarked
    /\ EnvWhereMarked /\ EnvMoving /\ EnvTwice /\ EnvCommitting /\ EnvErased

LEMMA ErasedApart ==
  ASSUME SectorsApart, TypeOK, NEW r \in Region
  PROVE  \A q \in Region : q \in Erased(valid, r) <=> q \in valid /\ q # r
BY DEF SectorsApart, Erased, TypeOK

\* The environment a region yields depends on that region only.
LEMMA ImportSame ==
  ASSUME NEW r, ubEnv'[r] = ubEnv[r], r \in valid' <=> r \in valid
  PROVE  UbImport(r)' = UbImport(r)
BY DEF UbImport, Imported

LEMMA ClearOther ==
  ASSUME SectorsApart, TypeOK, NEW r \in Region, NEW q \in {"uboot", "saved"}, q # r,
         valid' = Erased(valid, r), ubEnv' = ubEnv
  PROVE  UbImport(q)' = UbImport(q)
BY ErasedApart, ImportSame DEF Region

LEMMA ClearSelf ==
  ASSUME SectorsApart, TypeOK, NEW r \in {"uboot", "saved"}, valid' = Erased(valid, r)
  PROVE  UbImport(r)' = EmptyEnv
<1>1. r \notin valid'
  BY ErasedApart DEF Region
<1> QED
  BY <1>1 DEF UbImport, Imported

LEMMA KeptInit == Init => EnvKept
<1> SUFFICES ASSUME Init PROVE EnvKept
  OBVIOUS
<1>1. pc = "off" /\ faults = 0 /\ ~OnTrial(sblEnv) /\ UbImport("uboot") = good
  BY DEF Init
<1>2. EnvWhereMarked
  BY <1>1 DEF EnvWhereMarked, Reserved
<1> QED
  BY <1>1, <1>2
  DEF EnvKept, SblReadable, RunsAsMarked, EnvMoving, EnvTwice, EnvCommitting, EnvErased,
      Moving, Committing

LEMMA KeptPrepare ==
  ASSUME TypeOK, CtxFollowsFlash, EnvKept, ~interrupted, BootStep, PrepareEnv(SblImport)
  PROVE  EnvKept'
<1>1. /\ pc = "off" /\ UNCHANGED <<valid, sblEnv, ubEnv, faults, good>>
      /\ ctx' = Prepared(sblEnv)
      /\ pc' = IF Prepared(sblEnv) = sblEnv THEN "select" ELSE "prep_clear"
      /\ "sbl" \notin valid => sblEnv = NoSblEnv
  BY Zenon DEF PrepareEnv, SblImport, Imported, CtxFollowsFlash, BootStep, flashVars, boundVars
<1>2. /\ faults = 0 /\ EnvWhereMarked
      /\ OnTrial(sblEnv) => HasVolumes(sblEnv)
  BY DEF EnvKept
<1>3. UbImport("uboot")' = UbImport("uboot") /\ UbImport("saved")' = UbImport("saved")
  BY <1>1, ImportSame
<1>4. Prepared(NoSblEnv) # NoSblEnv
  BY Zenon DEF Prepared, Defaulted, NoSblEnv
<1>5. SblReadable'
  BY <1>1, <1>4 DEF SblReadable
<1>6. EnvWhereMarked'
  BY <1>1, <1>2, <1>3, Zenon DEF EnvWhereMarked, PC, Moving, Committing, Reserved, OnTrial
<1>7. pc' \in {"select", "prep_clear"}
  BY <1>1
<1>8. (OnTrial(sblEnv) => HasVolumes(sblEnv))'
  BY <1>1, <1>2 DEF OnTrial, HasVolumes
<1> QED
  BY <1>1, <1>2, <1>5, <1>6, <1>7, <1>8, Zenon
  DEF EnvKept, RunsAsMarked, EnvMoving, EnvTwice, EnvCommitting, EnvErased,
      Moving, Committing

LEMMA KeptSelect ==
  ASSUME TypeOK, CtxFollowsFlash, EnvKept, ~interrupted, BootStep, SelectSlot(TRUE)
  PROVE  EnvKept'
<1>1. /\ pc = "select" /\ ctx = sblEnv /\ HasVolumes(sblEnv) /\ sblEnv \in SblEnv
      /\ UNCHANGED <<valid, sblEnv, ubEnv, faults, good>>
  BY DEF SelectSlot, CtxFollowsFlash, TypeOK, HasVolumes, BootStep, flashVars, boundVars
<1>2. /\ faults = 0 /\ "sbl" \in valid
      /\ UbImport(IF Reserved(sblEnv) THEN "saved" ELSE "uboot") = good
  BY <1>1 DEF EnvKept, SblReadable, EnvWhereMarked, PC, Moving, Committing
<1>3. UbImport("uboot")' = UbImport("uboot") /\ UbImport("saved")' = UbImport("saved")
  BY <1>1, ImportSame
<1>4. SblReadable' /\ faults' = 0 /\ HasVolumes(sblEnv)'
  <2>1. pc' # "commit_write"
    BY DEF SelectSlot
  <2> QED
    BY <1>1, <1>2, <2>1 DEF SblReadable, HasVolumes
<1>5. CASE ~OnTrial(ctx)
  <2>1. pc' = "load"
    BY <1>5 DEF SelectSlot
  <2>2. EnvWhereMarked'
    BY <1>1, <1>2, <1>3, Zenon DEF EnvWhereMarked, Reserved, OnTrial
  <2> QED
    BY <1>4, <2>1, <2>2, Zenon
    DEF EnvKept, RunsAsMarked, EnvMoving, EnvTwice, EnvCommitting, EnvErased,
        Moving, Committing
<1>6. CASE OnTrial(ctx) /\ sblEnv.keep_uboot_env
  <2>1. pc' = "commit_clear" /\ ctx' = Chosen(sblEnv)
    BY <1>1, <1>6, Zenon DEF SelectSlot, Chosen
  <2>2. ~Reserved(sblEnv) /\ ~Reserved(Chosen(sblEnv))
    BY <1>1, <1>6 DEF Reserved, Chosen, SblEnv
  <2>3. EnvCommitting'
    BY <1>1, <1>2, <1>3, <1>6, <2>1, <2>2, Zenon DEF EnvCommitting, Reserved, OnTrial
  <2> QED
    BY <1>4, <2>1, <2>3, Zenon
    DEF EnvKept, RunsAsMarked, EnvMoving, EnvTwice, EnvWhereMarked, EnvErased,
        Moving, Committing
<1>7. CASE OnTrial(ctx) /\ ~sblEnv.keep_uboot_env
  <2>1. pc' = "move_clear"
    BY <1>1, <1>7, Zenon DEF SelectSlot
  <2>2. Reserved(sblEnv) <=> sblEnv.tried_to_boot
    BY <1>1, <1>7 DEF Reserved
  <2>3. ASSUME sblEnv.tried_to_boot PROVE EnvMoving'
    <3>1. move' = [dst |-> "uboot", data |-> UbImport("saved"), invalidate |-> FALSE]
      BY <1>1, <1>7, <2>3, Zenon DEF SelectSlot
    <3>2. move'.dst = "uboot" /\ move'.data = good /\ ~move'.invalidate
            /\ UbImport("saved") = good
      BY <1>2, <2>2, <2>3, <3>1, Zenon
    <3> QED
      BY <1>1, <1>3, <1>7, <2>3, <3>2, Zenon DEF EnvMoving
  <2>4. ASSUME ~sblEnv.tried_to_boot PROVE EnvMoving'
    <3>1. move' = [dst |-> "saved", data |-> UbImport("uboot"), invalidate |-> TRUE]
      BY <1>1, <1>7, <2>4, Zenon DEF SelectSlot
    <3>2. move'.dst = "saved" /\ move'.data = good /\ move'.invalidate
            /\ UbImport("uboot") = good
      BY <1>2, <2>2, <2>4, <3>1, Zenon
    <3> QED
      BY <1>1, <1>3, <1>7, <2>4, <3>2, Zenon DEF EnvMoving
  <2>5. EnvMoving'
    BY <2>3, <2>4
  <2> QED
    BY <1>4, <2>1, <2>5, Zenon
    DEF EnvKept, RunsAsMarked, EnvCommitting, EnvTwice, EnvWhereMarked, EnvErased,
        Moving, Committing
<1> QED
  BY <1>5, <1>6, <1>7

\* A step that leaves the two U-Boot environments as they are and stays where the
\* SBL environment tells which one counts.
LEMMA KeptAside ==
  ASSUME TypeOK, EnvKept, ~interrupted,
         UNCHANGED <<valid, ubEnv, good, faults, sblEnv>>,
         pc \in PC \ (Moving \cup Committing \cup {"off", "invalidate", "rec_saved",
                                                  "prep_clear", "prep_write"}),
         pc' \in PC \ (Moving \cup Committing \cup {"invalidate", "rec_saved", "run"})
  PROVE  EnvKept'
<1>1. /\ faults = 0 /\ "sbl" \in valid
      /\ UbImport(IF Reserved(sblEnv) THEN "saved" ELSE "uboot") = good
      /\ OnTrial(sblEnv) => HasVolumes(sblEnv)
  BY Zenon DEF EnvKept, SblReadable, EnvWhereMarked, PC, Moving, Committing
<1>2. UbImport("uboot")' = UbImport("uboot") /\ UbImport("saved")' = UbImport("saved")
  BY ImportSame
<1>3. SblReadable' /\ faults' = 0 /\ (OnTrial(sblEnv) => HasVolumes(sblEnv))'
  BY <1>1, Zenon DEF SblReadable, OnTrial, HasVolumes, Committing
<1>4. EnvWhereMarked'
  BY <1>1, <1>2, Zenon DEF EnvWhereMarked, Reserved, OnTrial
<1> QED
  BY <1>3, <1>4, Zenon
  DEF EnvKept, RunsAsMarked, EnvMoving, EnvTwice, EnvCommitting, EnvErased

LEMMA KeptReset ==
  ASSUME TypeOK, CtxFollowsFlash, EnvKept, ~interrupted, PowerCut \/ Reboot, ~interrupted'
  PROVE  EnvKept'
<1>1. pc' = "off" /\ UNCHANGED <<valid, ubEnv, good, faults>> /\ pc # "off"
  BY Zenon DEF PowerCut, Reboot, ResetRam, boundVars
<1>2. "sbl" \in valid /\ pc # "rec_saved" /\ ~BackupUncommitted
  BY Zenon DEF PowerCut, Reboot, EnvKept, SblReadable, PC, BackupUncommitted
<1>3. sblEnv' = sblEnv
  BY <1>2, Zenon DEF PowerCut, Reboot, ForgetLost, SblImport, Imported
<1>4. UbImport("uboot")' = UbImport("uboot") /\ UbImport("saved")' = UbImport("saved")
  BY <1>1, ImportSame
<1>5. UbImport(IF Reserved(sblEnv) THEN "saved" ELSE "uboot") = good
  <2>1. CASE pc \in PC \ (Moving \cup Committing \cup {"invalidate", "rec_saved"})
    BY <2>1, Zenon DEF EnvKept, EnvWhereMarked
  <2>2. CASE pc \in Moving
    <3>1. OnTrial(sblEnv) /\ EnvMoving
      BY <2>2, Zenon DEF EnvKept, CtxFollowsFlash, Moving, Choosing
    <3> QED
      BY <2>2, <3>1 DEF EnvMoving, Reserved
  <2>3. CASE pc = "invalidate"
    BY <2>3 DEF EnvKept, EnvTwice, Reserved
  <2>4. CASE pc = "commit_clear"
    <3>1. OnTrial(sblEnv) /\ EnvCommitting /\ ctx = Chosen(sblEnv) /\ sblEnv \in SblEnv
      BY <2>4, Zenon DEF EnvKept, CtxFollowsFlash, TypeOK, Choosing
    <3>2. ctx.keep_uboot_env = sblEnv.keep_uboot_env
      BY <3>1 DEF Chosen, SblEnv
    <3>3. CASE sblEnv.keep_uboot_env
      BY <2>4, <3>1, <3>2, <3>3, Zenon DEF EnvCommitting, Committing, Reserved
    <3>4. CASE ~sblEnv.keep_uboot_env /\ sblEnv.tried_to_boot
      BY <2>4, <3>1, <3>4, Zenon DEF EnvCommitting, Committing, Reserved
    <3>5. CASE ~sblEnv.keep_uboot_env /\ ~sblEnv.tried_to_boot
      BY <1>2, <2>4, <3>1, <3>2, <3>5, Zenon DEF EnvCommitting, Committing, BackupUncommitted
    <3> QED
      BY <3>3, <3>4, <3>5
  <2>5. pc # "commit_write"
    BY Zenon DEF PowerCut, Reboot, EnvKept, SblReadable, PC, CtxFollowsFlash
  <2> QED
    BY <1>2, <2>1, <2>2, <2>3, <2>4, <2>5, Zenon DEF TypeOK, Moving, Committing
<1>6. (OnTrial(sblEnv) => HasVolumes(sblEnv))' /\ faults' = 0
  BY <1>1, <1>3, Zenon DEF EnvKept, OnTrial, HasVolumes
<1>7. EnvWhereMarked'
  BY <1>1, <1>3, <1>4, <1>5, Zenon DEF EnvWhereMarked, Reserved, OnTrial
<1> QED
  BY <1>1, <1>6, <1>7, Zenon
  DEF EnvKept, SblReadable, RunsAsMarked, EnvMoving, EnvTwice, EnvCommitting, EnvErased,
      Moving, Committing

LEMMA KeptStart ==
  ASSUME TypeOK, CtxFollowsFlash, TrialIsRequested, EnvKept, ~interrupted, Start
  PROVE  EnvKept'
<1>1. /\ pc = "load" /\ pc' = "run" /\ UNCHANGED <<valid, ubEnv, sblEnv, good, faults, recovery>>
      /\ ctx = sblEnv /\ HasVolumes(sblEnv)
  BY Zenon DEF Start, Load, CtxFollowsFlash, flashVars, boundVars, TypeOK, HasVolumes
<1>2. /\ faults = 0 /\ "sbl" \in valid
      /\ UbImport(IF Reserved(sblEnv) THEN "saved" ELSE "uboot") = good
  BY <1>1, Zenon DEF EnvKept, SblReadable, EnvWhereMarked, PC, Moving, Committing
<1>3. UbImport("uboot")' = UbImport("uboot") /\ UbImport("saved")' = UbImport("saved")
  BY <1>1, ImportSame, Zenon
<1>4. EnvWhereMarked'
  BY <1>1, <1>2, <1>3, Zenon DEF EnvWhereMarked, Reserved, OnTrial
<1>5. RunsAsMarked'
  <2>1. CASE recovery
    BY <1>1, <2>1 DEF Start, Load, RunsAsMarked, Volume
  <2>2. CASE ~recovery
    <3>1. booted' = sblEnv.bootvol
      BY <1>1, <2>2, Zenon DEF Start, Load, HasVolumes, Volume
    <3>2. OnTrial(sblEnv) => sblEnv.tried_to_boot
      BY <1>1, <2>2 DEF TrialIsRequested
    <3> QED
      BY <1>1, <3>1, <3>2, Zenon DEF RunsAsMarked, OnTrial
  <2> QED
    BY <2>1, <2>2
<1>6. SblReadable' /\ faults' = 0 /\ HasVolumes(sblEnv)'
  BY <1>1, <1>2 DEF SblReadable, HasVolumes
<1> QED
  BY <1>1, <1>4, <1>5, <1>6, Zenon
  DEF EnvKept, EnvMoving, EnvTwice, EnvCommitting, EnvErased, Moving, Committing

\* The firmware changes the SBL environment and U-Boot's own, with good along.
LEMMA KeptFirmware ==
  ASSUME TypeOK, CtxFollowsFlash, EnvKept, ~interrupted, Firmware, ~interrupted'
  PROVE  EnvKept'
<1> DEFINE Goal == /\ RunsAsMarked' /\ HasVolumes(sblEnv)' /\ "sbl" \in valid'
                   /\ UbImport(IF Reserved(sblEnv) THEN "saved" ELSE "uboot")' = good'
                   /\ pc' = "run" /\ faults' = 0
<1>0. Goal => EnvKept'
  BY Zenon DEF EnvKept, SblReadable, EnvWhereMarked, EnvMoving, EnvTwice, EnvCommitting, EnvErased,
         Moving, Committing
<1>1. CASE Reboot
  BY <1>1, KeptReset
<1>2. ASSUME Running
      PROVE  /\ pc = "run" /\ booted \in Volume /\ "sbl" \in valid /\ faults = 0
             /\ HasVolumes(sblEnv) /\ sblEnv \in SblEnv
             /\ booted # sblEnv.safe_bootvol <=> OnTrial(sblEnv) /\ sblEnv.tried_to_boot
             /\ UbImport(IF Reserved(sblEnv) THEN "saved" ELSE "uboot") = good
  BY <1>2, Zenon DEF Running, EnvKept, RunsAsMarked, EnvWhereMarked, PC, Moving, Committing,
              CtxFollowsFlash, TypeOK
<1>3. CASE ConfirmTrial
  <2>1. Running /\ pc' = pc /\ faults' = faults /\ booted' = booted /\ valid' = valid
          /\ ubEnv' = ubEnv /\ good' = UbImport("uboot") /\ booted = sblEnv.bootvol
    BY <1>3 DEF ConfirmTrial, ramVars, boundVars
  <2>2. /\ sblEnv'.bootvol = booted /\ sblEnv'.safe_bootvol = booted
    BY <1>2, <1>3, <2>1 DEF ConfirmTrial, SblEnv
  <2>3. ~OnTrial(sblEnv)' /\ HasVolumes(sblEnv)'
    BY <1>2, <2>1, <2>2, Zenon DEF OnTrial, HasVolumes
  <2>4. UbImport("uboot")' = good'
    BY <2>1, ImportSame
  <2>5. Goal
    BY <1>2, <2>1, <2>2, <2>3, <2>4, Zenon DEF RunsAsMarked, Reserved
  <2> QED
    BY <1>0, <2>5
<1>4. ASSUME NEW k \in BOOLEAN, RequestTrial(k) PROVE EnvKept'
  <2>1. /\ Running /\ pc' = pc /\ faults' = faults /\ booted' = booted /\ valid' = valid
        /\ ubEnv' = ubEnv /\ good' = good /\ ~OnTrial(sblEnv)
    BY <1>4 DEF RequestTrial, ramVars
  <2>2. PICK v \in Volume \ {sblEnv.safe_bootvol} :
          sblEnv' = [sblEnv EXCEPT !.bootvol = v, !.tried_to_boot = FALSE, !.keep_uboot_env = k]
    BY <1>4, Zenon DEF RequestTrial
  <2>3. /\ sblEnv'.bootvol = v /\ sblEnv'.safe_bootvol = sblEnv.safe_bootvol
        /\ ~sblEnv'.tried_to_boot
    BY <1>2, <2>1, <2>2 DEF SblEnv
  <2>4. UbImport("uboot")' = good'
    BY <1>2, <2>1, ImportSame, Zenon DEF Reserved
  <2>5. Goal
    BY <1>2, <2>1, <2>3, <2>4, Zenon DEF RunsAsMarked, Reserved, HasVolumes
  <2> QED
    BY <1>0, <2>5
<1>5. ASSUME NEW e \in UEnv, SaveUbootEnv(e) PROVE EnvKept'
  <2>1. /\ Running /\ pc' = pc /\ faults' = faults /\ booted' = booted
        /\ valid' = valid \cup {"uboot"}
        /\ ubEnv' = [ubEnv EXCEPT !["uboot"] = e] /\ sblEnv' = sblEnv
    BY <1>5, Zenon DEF SaveUbootEnv, ramVars, boundVars, Programmed
  <2>2. ubEnv \in [{"uboot", "saved"} -> UbootEnv]
    BY Zenon DEF TypeOK
  <2>3. UbImport("uboot")' = e /\ UbImport("saved")' = UbImport("saved")
    BY <2>1, <2>2, ImportSame, Zenon DEF UbImport, Imported
  <2>4. IF Reserved(sblEnv) THEN good' = good ELSE good' = e
    BY <1>2, <1>5, <2>1, Zenon DEF SaveUbootEnv, Reserved
  <2>5. RunsAsMarked' /\ HasVolumes(sblEnv)'
    BY <1>2, <2>1, Zenon DEF RunsAsMarked, HasVolumes, OnTrial
  <2>6. Goal
    BY <1>2, <2>1, <2>3, <2>4, <2>5, Zenon DEF Reserved, OnTrial
  <2> QED
    BY <1>0, <2>6, Zenon
<1> QED
  BY <1>1, <1>3, <1>4, <1>5 DEF Firmware

\* The exports of prepare_env do not touch the U-Boot environments.
LEMMA KeptPrepFlash ==
  ASSUME SectorsApart, TypeOK, CtxFollowsFlash, EnvKept, ~interrupted, BootStep, FlashStep,
         pc \in {"prep_clear", "prep_write"}
  PROVE  EnvKept'
<1>1. /\ UNCHANGED <<ubEnv, good, faults>> /\ ctx = Prepared(sblEnv)
      /\ \/ /\ pc' = "prep_write" /\ sblEnv' = sblEnv /\ valid' = Erased(valid, "sbl")
         \/ /\ pc' = "select" /\ sblEnv' = Prepared(sblEnv) /\ valid' = valid \cup {"sbl"}
  BY Zenon DEF FlashStep, EnvIoClear, EnvIoWriteSbl, BootStep, boundVars, CtxFollowsFlash, Programmed
<1>2. /\ faults = 0 /\ (OnTrial(sblEnv) => HasVolumes(sblEnv)) /\ sblEnv \in SblEnv
      /\ UbImport(IF Reserved(sblEnv) THEN "saved" ELSE "uboot") = good
  BY Zenon DEF EnvKept, EnvWhereMarked, PC, Moving, Committing, TypeOK
<1>3. UbImport("uboot")' = UbImport("uboot") /\ UbImport("saved")' = UbImport("saved")
  <2>1. \A q \in {"uboot", "saved"} : q \in valid' <=> q \in valid
    BY <1>1, ErasedApart DEF Region
  <2> QED
    BY <1>1, <2>1, ImportSame, Zenon
<1>4. Reserved(Prepared(sblEnv)) <=> Reserved(sblEnv)
  <2>1. CASE HasVolumes(sblEnv)
    <3>1. Defaulted(sblEnv) = sblEnv
      BY <1>2, <2>1, DefaultedKeeps
    <3> QED
      BY <1>2, <3>1 DEF Prepared, Reserved, OnTrial, SblEnv
  <2>2. CASE ~HasVolumes(sblEnv)
    <3>1. ~OnTrial(sblEnv)
      BY <1>2, <2>2
    <3>2. ~OnTrial(Prepared(sblEnv))
      BY <1>2, <3>1 DEF Prepared, Defaulted, OnTrial, SblEnv
    <3> QED
      BY <3>1, <3>2 DEF Reserved
  <2> QED
    BY <2>1, <2>2
<1>5. UbImport(IF Reserved(sblEnv) THEN "saved" ELSE "uboot")' = good'
  BY <1>1, <1>2, <1>3, <1>4, Zenon DEF Reserved, OnTrial
<1>6. (OnTrial(sblEnv) => HasVolumes(sblEnv))'
  BY <1>1, <1>2, PreparedType, Zenon DEF OnTrial, HasVolumes
<1>7. SblReadable' /\ faults' = 0 /\ pc' \in {"prep_write", "select"}
  BY <1>1, <1>2, Zenon DEF SblReadable
<1> QED
  BY <1>5, <1>6, <1>7, Zenon
  DEF EnvKept, EnvWhereMarked, RunsAsMarked, EnvMoving, EnvTwice, EnvCommitting, EnvErased,
      Moving, Committing

\* env_move copies the environment before anything else happens to the source.
LEMMA KeptMoveFlash ==
  ASSUME SectorsApart, TypeOK, CtxFollowsFlash, EnvKept, ~interrupted, BootStep, FlashStep,
         pc \in Moving
  PROVE  EnvKept'
<1>1. /\ UNCHANGED <<sblEnv, ctx, move, good, faults>>
      /\ \/ /\ pc' = "move_write" /\ valid' = Erased(valid, move.dst) /\ ubEnv' = ubEnv
         \/ /\ pc' = IF move.invalidate THEN "invalidate" ELSE "commit_clear"
            /\ valid' = valid \cup {move.dst}
            /\ ubEnv' = [ubEnv EXCEPT ![move.dst] = move.data]
  BY Zenon DEF FlashStep, EnvIoClear, EnvIoWriteMove, BootStep, boundVars, ramVars, Programmed, Moving
<1>2. /\ OnTrial(sblEnv) /\ HasVolumes(sblEnv) /\ ctx = Chosen(sblEnv) /\ sblEnv \in SblEnv
      /\ faults = 0 /\ "sbl" \in valid /\ ubEnv \in [{"uboot", "saved"} -> UbootEnv]
  BY Zenon DEF CtxFollowsFlash, EnvKept, SblReadable, PC, TypeOK, Moving, Choosing
<1>3. EnvMoving
  BY DEF EnvKept
<1> DEFINE src == IF sblEnv.tried_to_boot THEN "saved" ELSE "uboot"
           dst == IF sblEnv.tried_to_boot THEN "uboot" ELSE "saved"
<1>4. /\ ~sblEnv.keep_uboot_env /\ move.data = good /\ move.dst = dst
      /\ (move.invalidate <=> ~sblEnv.tried_to_boot) /\ UbImport(src) = good
  BY <1>3, Zenon DEF EnvMoving
<1>5. dst # src /\ dst \in {"uboot", "saved"} /\ src \in {"uboot", "saved"}
  OBVIOUS
<1>6. "sbl" \in valid' /\ (src \in valid' <=> src \in valid)
  BY <1>1, <1>2, <1>4, <1>5, ErasedApart, Zenon DEF Region
<1>7. ubEnv'[src] = ubEnv[src]
  BY <1>1, <1>2, <1>4, <1>5, Zenon
<1>8. UbImport(src)' = good
  <2>1. CASE sblEnv.tried_to_boot
    BY <1>1, <1>4, <1>6, <1>7, <2>1, ImportSame, Zenon
  <2>2. CASE ~sblEnv.tried_to_boot
    BY <1>1, <1>4, <1>6, <1>7, <2>2, ImportSame, Zenon
  <2> QED
    BY <2>1, <2>2, Zenon
<1>9. SblReadable' /\ HasVolumes(sblEnv)' /\ faults' = 0
  BY <1>1, <1>2, <1>6, Zenon DEF SblReadable, HasVolumes
<1>10. CASE pc' = "move_write"
  <2>1. EnvMoving'
    BY <1>1, <1>4, <1>8, Zenon DEF EnvMoving
  <2> QED
    BY <1>9, <1>10, <2>1, Zenon
    DEF EnvKept, EnvWhereMarked, RunsAsMarked, EnvTwice, EnvCommitting, EnvErased,
        Moving, Committing
<1>11. CASE pc' # "move_write"
  <2>1. UbImport(dst)' = good
    BY <1>1, <1>2, <1>4, <1>5, <1>11, Zenon DEF UbImport, Imported
  <2>2. UbImport("uboot")' = good /\ UbImport("saved")' = good
    BY <1>8, <2>1, Zenon
  <2>3. EnvTwice'
    BY <1>1, <1>4, <1>11, <2>2, Zenon DEF EnvTwice
  <2>4. EnvCommitting'
    BY <1>1, <1>4, <1>11, <2>2, Zenon DEF EnvCommitting
  <2> QED
    BY <1>1, <1>9, <1>11, <2>3, <2>4, Zenon
    DEF EnvKept, EnvWhereMarked, RunsAsMarked, EnvMoving, EnvErased, Moving, Committing
<1> QED
  BY <1>10, <1>11

LEMMA KeptInvalidate ==
  ASSUME SectorsApart, TypeOK, CtxFollowsFlash, EnvKept, ~interrupted, BootStep, FlashStep,
         pc = "invalidate"
  PROVE  EnvKept'
<1>1. /\ UNCHANGED <<sblEnv, ubEnv, ctx, move, good, faults>>
      /\ pc' = "commit_clear" /\ valid' = Erased(valid, "uboot")
  BY Zenon DEF FlashStep, EnvIoClear, BootStep, boundVars, ramVars
<1>2. /\ OnTrial(sblEnv) /\ HasVolumes(sblEnv) /\ ctx = Chosen(sblEnv) /\ sblEnv \in SblEnv
      /\ faults = 0 /\ "sbl" \in valid
      /\ ~sblEnv.keep_uboot_env /\ ~sblEnv.tried_to_boot /\ move.invalidate
      /\ UbImport("saved") = good
  BY Zenon DEF CtxFollowsFlash, EnvKept, SblReadable, EnvTwice, PC, TypeOK, Choosing
<1>3. "sbl" \in valid' /\ UbImport("saved")' = good'
  BY <1>1, <1>2, ErasedApart, ClearOther, Zenon DEF Region
<1>4. Reserved(ctx)
  BY <1>2 DEF Reserved, Chosen, OnTrial, SblEnv
<1>5. EnvCommitting'
  BY <1>1, <1>2, <1>3, <1>4, Zenon DEF EnvCommitting, Reserved, OnTrial
<1>6. SblReadable' /\ HasVolumes(sblEnv)' /\ faults' = 0
  BY <1>1, <1>2, <1>3, Zenon DEF SblReadable, HasVolumes
<1> QED
  BY <1>1, <1>5, <1>6, Zenon
  DEF EnvKept, EnvWhereMarked, RunsAsMarked, EnvMoving, EnvTwice, EnvErased, Moving, Committing

LEMMA KeptCommit ==
  ASSUME SectorsApart, TypeOK, CtxFollowsFlash, EnvKept, ~interrupted, BootStep, FlashStep,
         pc \in Committing
  PROVE  EnvKept'
<1>1. /\ UNCHANGED <<ubEnv, ctx, good, faults>>
      /\ \/ /\ pc' = "commit_write" /\ sblEnv' = sblEnv /\ valid' = Erased(valid, "sbl")
         \/ /\ pc' = "load" /\ sblEnv' = ctx /\ valid' = valid \cup {"sbl"}
  BY Zenon DEF FlashStep, EnvIoClear, EnvIoWriteSbl, BootStep, boundVars, ramVars, Programmed,
         Committing
<1>2. /\ HasVolumes(sblEnv) /\ HasVolumes(ctx) /\ faults = 0
      /\ UbImport(IF Reserved(ctx) THEN "saved" ELSE "uboot") = good
  BY Zenon DEF CtxFollowsFlash, EnvKept, EnvCommitting, TypeOK, Committing, HasVolumes, Choosing
<1>3. \A q \in {"uboot", "saved"} : q \in valid' <=> q \in valid
  BY <1>1, ErasedApart DEF Region
<1>4. UbImport("uboot")' = UbImport("uboot") /\ UbImport("saved")' = UbImport("saved")
  BY <1>1, <1>3, ImportSame, Zenon
<1>5. (UbImport(IF Reserved(ctx) THEN "saved" ELSE "uboot") = good)'
  BY <1>1, <1>2, <1>4, Zenon DEF Reserved, OnTrial
<1>6. HasVolumes(sblEnv)' /\ faults' = 0
  BY <1>1, <1>2, Zenon DEF HasVolumes
<1>7. CASE pc' = "commit_write"
  <2>1. "sbl" \notin valid'
    BY <1>1, <1>7 DEF Erased
  <2> QED
    BY Zenon, <1>5, <1>6, <1>7, <2>1
    DEF EnvKept, SblReadable, EnvCommitting, EnvWhereMarked, RunsAsMarked, EnvMoving, EnvTwice,
        EnvErased, Moving, Committing
<1>8. CASE pc' = "load"
  <2>1. (UbImport(IF Reserved(sblEnv) THEN "saved" ELSE "uboot") = good)'
    BY <1>1, <1>5, <1>8, Zenon DEF Reserved, OnTrial
  <2> QED
    BY Zenon, <1>1, <1>6, <1>8, <2>1
    DEF EnvKept, SblReadable, EnvCommitting, EnvWhereMarked, RunsAsMarked, EnvMoving, EnvTwice,
        EnvErased, Moving, Committing
<1> QED
  BY <1>1, <1>7, <1>8

LEMMA KeptRecovery ==
  ASSUME SectorsApart, TypeOK, CtxFollowsFlash, EnvKept, ~interrupted, BootStep, FlashStep,
         pc \in {"rec_uboot", "rec_saved"}
  PROVE  EnvKept'
<1>1. /\ UNCHANGED <<ubEnv, sblEnv, faults>>
      /\ \/ /\ pc = "rec_uboot" /\ pc' = "rec_saved" /\ valid' = Erased(valid, "uboot")
            /\ good' = EmptyEnv
         \/ /\ pc = "rec_saved" /\ pc' = "load" /\ valid' = Erased(valid, "saved")
            /\ good' = good
  BY Zenon DEF FlashStep, EnvIoClear, BootStep, boundVars
<1>2. /\ faults = 0 /\ "sbl" \in valid
      /\ OnTrial(sblEnv) => HasVolumes(sblEnv)
      /\ pc = "rec_saved" => good = EmptyEnv /\ "uboot" \notin valid
  BY Zenon DEF EnvKept, SblReadable, EnvErased, PC
<1>3. "sbl" \in valid' /\ "uboot" \notin valid' /\ good' = EmptyEnv
  BY <1>1, <1>2, ErasedApart DEF Region
<1>4. UbImport("uboot")' = EmptyEnv
  BY <1>3 DEF UbImport, Imported
<1>5. pc' = "load" => UbImport("saved")' = EmptyEnv
  BY <1>1, ClearSelf
<1>6. (OnTrial(sblEnv) => HasVolumes(sblEnv))' /\ faults' = 0 /\ SblReadable'
  BY <1>1, <1>2, <1>3, Zenon DEF OnTrial, HasVolumes, SblReadable
<1>7. EnvWhereMarked' /\ EnvErased'
  BY <1>1, <1>3, <1>4, <1>5, Zenon DEF EnvWhereMarked, EnvErased
<1> QED
  BY <1>1, <1>6, <1>7, Zenon
  DEF EnvKept, RunsAsMarked, EnvMoving, EnvTwice, EnvCommitting, Moving, Committing

LEMMA KeptStep ==
  ASSUME SectorsApart, TypeOK, MarkPrecedesStart, EnvKept, [Next]_vars
  PROVE  EnvKept'
<1> SUFFICES ASSUME ~interrupted' PROVE EnvKept'
  BY Zenon DEF EnvKept
<1>1. ~interrupted /\ ~BootFault
  <2>1. BootFault => interrupted'
    BY DEF BootFault
  <2>2. PowerCut \/ Reboot => (interrupted => interrupted')
    BY Zenon DEF PowerCut, Reboot
  <2>3. interrupted' = interrupted \/ BootFault \/ PowerCut \/ Reboot
    BY Zenon DEF Next, BootStep, Start, Firmware, ConfirmTrial, RequestTrial,
                 SaveUbootEnv, vars, histVars
  <2> QED
    BY <2>1, <2>2, <2>3
<1>2. CtxFollowsFlash /\ TrialIsRequested
  BY <1>1 DEF EnvKept, MarkPrecedesStart
<1>3. CASE BootStep
  <2>1. CASE PrepareRecovery
    <3>1. /\ pc = "select" /\ pc' = "rec_uboot"
          /\ UNCHANGED <<valid, ubEnv, good, faults, sblEnv>>
      BY <1>3, <2>1, Zenon DEF PrepareRecovery, BootStep, flashVars, boundVars
    <3> QED
      BY <1>1, <3>1, KeptAside, Zenon DEF PC, Moving, Committing
  <2>2. CASE FlashStep
    <3>1. pc \in {"prep_clear", "prep_write"} \/ pc \in Moving \/ pc = "invalidate"
            \/ pc \in Committing \/ pc \in {"rec_uboot", "rec_saved"}
      BY <2>2, Zenon DEF FlashStep, Moving, Committing
    <3> QED
      BY <1>1, <1>2, <1>3, <2>2, <3>1, KeptPrepFlash, KeptMoveFlash, KeptInvalidate, KeptCommit,
         KeptRecovery, Zenon
  <2> QED
    BY <1>1, <1>2, <1>3, <2>1, <2>2, KeptPrepare, KeptSelect, Zenon DEF BootStep
<1>4. CASE UNCHANGED vars
  <2>1. UNCHANGED <<valid, ubEnv, sblEnv, pc, ctx, move, booted, faults, good, interrupted>>
    BY <1>4, Zenon DEF vars, flashVars, ramVars, boundVars, histVars
  <2> QED
    BY Zenon, <2>1
    DEF EnvKept, SblReadable, RunsAsMarked, EnvWhereMarked, EnvMoving, EnvTwice, EnvCommitting,
        EnvErased, UbImport, Imported, Reserved, OnTrial, HasVolumes
<1> QED
  BY <1>1, <1>2, <1>3, <1>4, KeptStart, KeptReset, KeptFirmware DEF Next

\* On a part whose sectors keep the environments apart the safe volume always
\* finds the U-Boot environment it saved last: select_slot reserves it before the
\* trial and restores it afterwards, for every number of power cuts, requests and
\* saves, and no failing operation or cut that lost it goes unnoticed.
THEOREM SafeVolumeKeepsItsEnvInvariant == SectorsApart => (Spec => []SafeVolumeKeepsItsEnv)
<1> SUFFICES ASSUME SectorsApart PROVE Spec => []SafeVolumeKeepsItsEnv
  OBVIOUS
<1>1. TypeOK /\ MarkPrecedesStart /\ EnvKept /\ [Next]_vars => EnvKept'
  BY KeptStep
<1>2. EnvKept => SafeVolumeKeepsItsEnv
  <2> SUFFICES ASSUME EnvKept, Running, booted = sblEnv.safe_bootvol, ~interrupted
               PROVE  UbImport("uboot") = good
    BY DEF SafeVolumeKeepsItsEnv
  <2>1. pc = "run" /\ RunsAsMarked /\ EnvWhereMarked /\ booted \in Volume
    BY DEF EnvKept, Running
  <2> QED
    BY <2>1, Zenon DEF RunsAsMarked, EnvWhereMarked, Reserved, PC, Moving, Committing
<1> QED
  BY <1>1, <1>2, KeptInit, TypeCorrect, MarkPrecedesStartInvariant, PTL DEF Spec
=============================================================================
