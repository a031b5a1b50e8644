------------------------------- MODULE MCTime -------------------------------
(***************************************************************************)
(* The watchdog, the system timer and the time stamps of the boot.  They   *)
(* share no state, so a behaviour has the steps of one of them: a watchdog *)
(* of six bits, a counter of six values with delays of up to three ticks,  *)
(* and the tables of the build with the stages bootstage.h lists for       *)
(* clients and one of the client's own.                                    *)
(***************************************************************************)
EXTENDS MCWdt, Timer, Bootstage

VARIABLE unit  \* whose steps the behaviour has

DelaysMC == 1..3
Both == {"poll", "irq"}
OsIdsMC == {"TF_A_START", "RUN_OS", "START_UBOOT_F", "UBOOT_MAIN_LOOP"}

timeVars == <<vars, timerVars, stampVars, unit>>

TimeInit ==
  /\ Init /\ TimerInit /\ StampInit /\ unit \in {"wdt", "timer", "bootstage"}
  /\ unit # "wdt" => build = [wdt |-> TRUE, internal |-> TRUE] /\ enabled = FALSE /\ top = 0
  /\ unit # "timer" => mode = "poll"

TimeNext ==
  \/ (unit = "wdt" /\ Next /\ UNCHANGED <<timerVars, stampVars, unit>>)
  \/ (unit = "timer" /\ TimerNext /\ UNCHANGED <<vars, stampVars, unit>>)
  \/ (unit = "bootstage" /\ StampNext /\ UNCHANGED <<vars, timerVars, unit>>)

TimeSpec == TimeInit /\ [][TimeNext]_timeVars
=============================================================================
