-------------------------------- MODULE Wdt --------------------------------
(***************************************************************************)
(* The watchdog WDT0 from power-on to the requests of the operating        *)
(* system: SBL-S1, SBL-S2 and SBL-S3 start it in turn, then clients of the *)
(* watchdog service set its timeout and ping it.  The counter is loaded    *)
(* with 2^(NumTops + TOP_INT) when the watchdog is enabled and with        *)
(* 2^(NumTops + TOP) whenever it is restarted; it resets the system at     *)
(* zero (RMOD is WDT_CR_RMOD_RST_MODE).                                    *)
(***************************************************************************)
EXTENDS Integers, FiniteSetsExt

CONSTANTS NumTops,   \* WDT_TORR_NUM_TOPS, 16
          MaxCoef,   \* WDT_TORR_TOP_MAX_TIMEOUT_COEF, 15
          Bits,      \* width of uint32_t
          KHz,       \* wdt->freq / MSEC_IN_SEC
          Sec,       \* MSEC_IN_SEC
          Timeouts,  \* timeouts clients ask for, in seconds
          PowerOnTop \* values TOP may have at power-on

ASSUME WdtAssumption ==
  /\ NumTops \in Nat /\ MaxCoef \in Nat /\ Bits = NumTops + MaxCoef + 1
  /\ KHz \in Nat \ {0} /\ Sec \in Nat \ {0} /\ Timeouts \subseteq Nat
  /\ PowerOnTop \subseteq 0..MaxCoef

VARIABLES
  stage,         \* "S1", "S1 ends", "S2", "S3", "clients"
  build,         \* WDT_ENABLE and WDT_RESET_INTERNAL
  enabled, top, topInt,  \* WDT_CR and WDT_TORR
  left,          \* WDT_CCVR
  fired,         \* the watchdog has reset the system
  since,         \* ticks since the watchdog was started or restarted last
  promised       \* history: ticks the last request allows until the next ping

regs == <<enabled, top, topInt, left>>
vars == <<stage, build, regs, fired, since, promised>>

Ticks(coef) == 2^(NumTops + coef)
Wrap(n) == n % 2^Bits

\* The periods are positive, the last is the longest, and it fits a word.
ASSUME PeriodAssumption ==
  /\ \A i \in 0..MaxCoef : Ticks(i) \in Nat \ {0} /\ Ticks(i) <= Ticks(MaxCoef)
  /\ 2^Bits \in Nat /\ Ticks(MaxCoef) < 2^Bits
-----------------------------------------------------------------------------
(***************************************************************************)
(* drivers/wdt.  An operator says what a function does to the registers.   *)
(***************************************************************************)

\* __wdt_get_timeout_coef
Coef(ms) ==
  LET fits == {i \in 0..MaxCoef : Wrap(ms * KHz) <= Ticks(i)} \cup {MaxCoef} IN Min(fits)

\* Mutant: the field for the first period is reported.
TimeoutMsTopInt == Ticks(topInt) \div KHz

\* wdt_get_timeout_ms and wdt_get_max_timeout_ms
TimeoutMs == Ticks(top) \div KHz
MaxTimeoutMs == Ticks(MaxCoef) \div KHz

\* wdt_reset: the counter starts again at TOP.
WdtReset(t) == left' = Ticks(t) /\ since' = 0

WdtSetTimeoutMs(ms) ==
  /\ top' = Coef(ms)
  /\ WdtReset(Coef(ms))
  /\ UNCHANGED topInt

\* Mutant: a watchdog that runs already is only restarted.
WdtStartKeeps ==
  IF enabled THEN WdtReset(top) /\ UNCHANGED <<enabled, top, topInt>>
  ELSE /\ topInt' = MaxCoef /\ enabled' = TRUE
       /\ left' = Ticks(MaxCoef) /\ since' = 0
       /\ UNCHANGED top

\* wdt_start: TOP is set to its maximum if the watchdog runs already, TOP_INT
\* otherwise.
WdtStart ==
  IF enabled THEN top' = MaxCoef /\ WdtReset(MaxCoef) /\ UNCHANGED <<enabled, topInt>>
  ELSE /\ topInt' = MaxCoef /\ enabled' = TRUE
       /\ left' = Ticks(MaxCoef) /\ since' = 0
       /\ UNCHANGED top
-----------------------------------------------------------------------------
Alive(s) == stage = s /\ ~fired

\* A boot stage starts the watchdog if it is built with it.
StageStarts(from, to) ==
  /\ Alive(from) /\ stage' = to
  /\ IF build.wdt THEN WdtStart /\ promised' = Ticks(MaxCoef)
     ELSE UNCHANGED <<regs, since, promised>>
  /\ UNCHANGED <<build, fired>>

\* SBL-S1 restarts it before it ends.
S1Ends ==
  /\ Alive("S1 ends") /\ stage' = "S2"
  /\ IF build.wdt THEN WdtReset(top) ELSE UNCHANGED <<left, since>>
  /\ UNCHANGED <<build, enabled, top, topInt, fired, promised>>

\* The main loop of SBL-S3, if it is built to restart the watchdog by itself.
ResetInternal ==
  /\ Alive("clients") /\ build.wdt /\ build.internal
  /\ WdtReset(top)
  /\ UNCHANGED <<stage, build, enabled, top, topInt, fired, promised>>

Promise(ms) == Min({ms * KHz, MaxTimeoutMs * KHz})

\* Requests of the watchdog service: RISC0_IPC_WDT_FUNC_START, SET_TIMEOUT_S, PING.
\* wdt_start has returned before the timeout is set.
IpcStart(s) ==
  /\ Alive("clients")
  /\ enabled' = TRUE /\ topInt' = IF enabled THEN topInt ELSE MaxCoef
  /\ top' = Coef(Wrap(s * Sec)) /\ WdtReset(top')
  /\ promised' = Promise(s * Sec)
  /\ UNCHANGED <<stage, build, fired>>

IpcSetTimeout(s) ==
  /\ Alive("clients")
  /\ WdtSetTimeoutMs(Wrap(s * Sec))
  /\ promised' = Promise(s * Sec)
  /\ UNCHANGED <<stage, build, enabled, fired>>

IpcPing ==
  /\ Alive("clients")
  /\ WdtReset(top)
  /\ UNCHANGED <<stage, build, enabled, top, topInt, fired, promised>>

\* The counter of an enabled watchdog runs; at zero it resets the system.
Tick ==
  /\ enabled /\ ~fired
  /\ left' = left - 1 /\ since' = since + 1 /\ fired' = (left' = 0)
  /\ UNCHANGED <<stage, build, enabled, top, topInt, promised>>

\* At power-on the watchdog is off; the boot ROM may have started it.
Init ==
  /\ stage = "S1" /\ build \in [wdt : BOOLEAN, internal : BOOLEAN]
  /\ enabled \in BOOLEAN /\ top \in PowerOnTop /\ topInt = 0
  /\ left = Ticks(top) /\ fired = FALSE /\ since = 0 /\ promised = 0

Next ==
  \/ StageStarts("S1", "S1 ends") \/ S1Ends
  \/ StageStarts("S2", "S3") \/ StageStarts("S3", "clients")
  \/ ResetInternal \/ IpcPing
  \/ \E s \in Timeouts : IpcStart(s) \/ IpcSetTimeout(s)
  \/ Tick

Spec == Init /\ [][Next]_vars
-----------------------------------------------------------------------------
\* Once SBL-S2 has started the watchdog, it does not reset the system before the
\* time promised last has gone by without a ping: the longest timeout until a
\* client asks for another, then the timeout the client has asked for, or the
\* longest there is (wdt_start, wdt_set_timeout_ms, wdt_reset).
NoEarlyReset == fired /\ stage \in {"S3", "clients"} => since >= promised

\* A client that pings within the whole seconds GET_TIMEOUT_S reports is never
\* reset: the counter was loaded with the timeout that is reported, whatever
\* stages and clients have set before.
ReportedTimeoutHolds == fired /\ stage = "clients" => since >= (TimeoutMs \div Sec) * Sec * KHz
=============================================================================
