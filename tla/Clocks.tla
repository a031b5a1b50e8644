------------------------------- MODULE Clocks -------------------------------
(***************************************************************************)
(* Clocks from power-on to the main loop of SBL-S3, or to the end of       *)
(* SBL-XIP: the PLL and the channels of each generator, the stages that    *)
(* set them up, the switch of the service PLL for a read of the OTP, and   *)
(* the start of the ARM core.  A PLL may lock late or not at all, a        *)
(* channel may fail to take a divider or to run.  Frequencies are in kHz.  *)
(***************************************************************************)
EXTENDS PowerDomain, Sequences

CONSTANTS Gens,     \* clock generators with a PLL: "SERV", "TOP", "LSP1", "CPU"
          Table,    \* xxx_ucg_channels of each: sequence of channels with dividers
          Masked    \* channels of the bypass masks of each

VARIABLES
  pll, locked,      \* PLL settings, and the PLLs that are locked
  div,              \* dividers of the channels
  stage, ip,        \* the stage, and its place in Main
  step, k,          \* the place in the function called there, and the loop counter
  wdtFreq,          \* wdt->freq, 0 before wdt0_hw_enable
  saved, isRead,    \* otp.c: pll_cfg_to_restore and is_read
  dctrl,            \* direct access to the OTP is on
  otpFailed,        \* history: a read of the OTP has failed
  core              \* ARM core 0: power of the cluster, entry address, running

pllVars == <<pll, locked>>
otpVars == <<saved, isRead, dctrl, otpFailed>>
progVars == <<stage, ip, step, k>>
clkVars == <<pllVars, div, running, bypass, gate>>
vars == <<powerVars, clkVars, progVars, wdtFreq, otpVars, core>>

XTI == 27000
Pll(nf, nr, od) == [man |-> TRUE, sel |-> 1, nf |-> nf, nr |-> nr, od |-> od]
PllReset == [man |-> FALSE, sel |-> 0, nf |-> 0, nr |-> 0, od |-> 0]
PllOf == [SERV |-> Pll(131, 0, 5), TOP |-> Pll(87, 0, 1), LSP1 |-> Pll(90, 0, 3), CPU |-> Pll(85, 0, 1)]
PllOtp == Pll(59, 0, 11)

ChannelsOf(g) == {Table[g][i].ch : i \in DOMAIN Table[g]}
Channel == UNION {ChannelsOf(g) : g \in Gens}
GenOf(ch) == CHOOSE g \in Gens : ch \in ChannelsOf(g)

\* A mask has channels of its generator only, all of them for the interconnect and the
\* processor; what is next to a domain belongs to the interconnect.
ASSUME ClocksAssumption ==
  /\ {"SERV", "TOP", "LSP1", "CPU"} \subseteq Gens /\ {"LSP1", "CPU"} \subseteq Boot
  /\ \A g, f \in Gens : g # f => ChannelsOf(g) \cap ChannelsOf(f) = {}
  /\ \A g \in Gens : Masked[g] \subseteq ChannelsOf(g) /\ Len(Table[g]) \in Nat
  /\ \A g \in Gens : DOMAIN Table[g] = 1..Len(Table[g])
  /\ \A g \in {"TOP", "CPU"} : Masked[g] = ChannelsOf(g)
  /\ \A d \in Domain : Channels[d] \subseteq ChannelsOf("TOP")

\* serv_ucg_channels divides the clock of the APB by 6, once.
ASSUME ApbAssumption ==
  /\ \A g \in Gens : \A i \in DOMAIN Table[g] : Table[g][i].div \in Nat
  /\ "APB" \in ChannelsOf("SERV")
  /\ \A i \in DOMAIN Table["SERV"] : Table["SERV"][i].ch = "APB" => Table["SERV"][i].div = 6
-----------------------------------------------------------------------------
\* The factor of a PLL that is not set manually
SelFactor(c) == IF c.sel >= 115 THEN 116 ELSE c.sel + 1

\* What a PLL puts out, and what pll_get_freq makes of its setting.
PllOut(c) ==
  IF c.man THEN (XTI * (c.nf + 1)) \div ((c.nr + 1) * (c.od + 1)) ELSE XTI * SelFactor(c)
PllGetFreq(c) ==
  XTI * (IF c.man THEN ((c.nf + 1) \div (c.nr + 1)) \div (c.od + 1) ELSE SelFactor(c))

\* A channel in bypass gets the input of the PLL.
Rate(ch) == IF ch \in bypass THEN XTI ELSE PllOut(pll[GenOf(ch)]) \div div[ch]

\* service_get_apb_clock and lsp1_timers_get_clock
GetClock(ch) == PllGetFreq(pll[GenOf(ch)]) \div div[ch]
-----------------------------------------------------------------------------
(***************************************************************************)
(* The stages.  An operation whose result the caller does not check, or    *)
(* whose failure it survives, is marked by must = FALSE.                   *)
(***************************************************************************)
Op(op, gen, must) == [op |-> op, gen |-> gen, must |-> must]

\* lsp1_enable
Lsp1Enable(must) == << Op("power", "LSP1", TRUE), Op("clock", "LSP1", must) >>

\* uart0_hw_enable: gpio_init enables LSP1 again for each of two pins.
Uart0 == Lsp1Enable(TRUE) \o Lsp1Enable(FALSE) \o Lsp1Enable(FALSE)

\* Mutant: the processor gets its clock and no power.
CpuSetClockOnly == << Op("clock", "CPU", TRUE) >>

\* cpu_set_clock
CpuSetClock == << Op("power", "CPU", TRUE), Op("clock", "CPU", TRUE) >>

\* Mutant: the watchdog is set up before the clocks.
S1MainWdtFirst ==
  Lsp1Enable(TRUE) \o << Op("gate", "S1", TRUE) >> \o Uart0
    \o << Op("wdt", "SERV", TRUE), Op("clock", "SERV", TRUE), Op("clock", "TOP", TRUE),
          Op("end", "S2", TRUE) >>

S1Main ==
  Lsp1Enable(TRUE) \o << Op("gate", "S1", TRUE) >> \o Uart0
    \o << Op("clock", "SERV", TRUE), Op("wdt", "SERV", TRUE), Op("clock", "TOP", TRUE),
          Op("end", "S2", TRUE) >>

\* The check of the recovery image comes before the load: it survives an OTP that cannot
\* be read, and at its end check_recovery_image may set up the pin of a key.
S2Main ==
  Uart0 \o << Op("wdt", "SERV", TRUE), Op("otp", "SERV", FALSE), Op("key", "LSP1", TRUE) >>
    \o Lsp1Enable(FALSE) \o << Op("otp", "SERV", TRUE), Op("end", "S3", TRUE) >>

S3Main ==
  Uart0 \o << Op("wdt", "SERV", TRUE), Op("otp", "SERV", TRUE) >>
    \o CpuSetClock \o << Op("core", "CPU", TRUE), Op("end", "serve", TRUE) >>

XipMain ==
  << Op("gate", "XIP", TRUE) >> \o Lsp1Enable(TRUE) \o Uart0
    \o << Op("clock", "SERV", TRUE), Op("wdt", "SERV", TRUE), Op("clock", "TOP", TRUE) >>
    \o CpuSetClock \o << Op("core", "CPU", TRUE), Op("end", "off", TRUE) >>

Main ==
  CASE stage = "S1" -> S1Main [] stage = "S2" -> S2Main [] stage = "S3" -> S3Main
    [] stage = "XIP" -> XipMain [] OTHER -> << Op("rest", "SERV", TRUE) >>

Now == Main[ip]
G == Now.gen
At(op, s) == pc = "idle" /\ Now.op = op /\ step = s
Goto(s) == step' = s /\ UNCHANGED <<stage, ip>>
Done == ip' = ip + 1 /\ step' = "call" /\ UNCHANGED stage

\* The caller gives up, which is the end of the boot, or goes on.
Fails ==
  /\ step' = "call"
  /\ IF Now.must THEN stage' = "stopped" /\ ip' = 1 ELSE ip' = ip + 1 /\ UNCHANGED stage
-----------------------------------------------------------------------------
\* service_enable_lsp1 and service_enable_arm_cpu; PowerDomain has the steps.
Power ==
  /\ At("power", "call") /\ ServiceEnable(G) /\ Done
  /\ UNCHANGED <<pllVars, div, k, wdtFreq, otpVars, core>>

\* SBL-S1 leaves the processor, SDR and MEDIA without a clock.
GateAll ==
  /\ At("gate", "call") /\ Done
  /\ gate' = IF G = "S1" THEN {"LSP1"} ELSE Domain
  /\ UNCHANGED <<powerVars, pllVars, div, running, bypass, k, wdtFreq, otpVars, core>>

\* The first part of pll_set_manual_freq
SetPll(g, c) == pll' = [pll EXCEPT ![g] = c] /\ locked' = locked \ {g}

\* Mutant: the bypass comes after the PLL.
SetClockLate ==
  /\ At("clock", "call") /\ Goto("lock")
  /\ SetPll(G, PllOf[G])
  /\ UNCHANGED <<powerVars, div, running, gate, bypass, k, wdtFreq, otpVars, core>>

\* xxx_set_clock up to the wait for the PLL
SetClock ==
  /\ At("clock", "call") /\ Goto("lock")
  /\ EnableBp(Masked[G]) /\ SetPll(G, PllOf[G])
  /\ UNCHANGED <<powerVars, div, running, gate, k, wdtFreq, otpVars, core>>

PllTimeout ==
  /\ At("clock", "lock") /\ G \notin locked /\ Fails
  /\ UNCHANGED <<powerVars, clkVars, k, wdtFreq, otpVars, core>>

PllReady ==
  /\ At("clock", "lock") /\ G \in locked /\ Goto("div") /\ k' = 1
  /\ UNCHANGED <<powerVars, clkVars, wdtFreq, otpVars, core>>

\* ucg_set_divider for the next channel of the table
SetDivider ==
  /\ At("clock", "div") /\ k <= Len(Table[G])
  /\ div' = [div EXCEPT ![Table[G][k].ch] = Table[G][k].div]
  /\ running' = running \cup {Table[G][k].ch}
  /\ k' = k + 1
  /\ UNCHANGED <<powerVars, pllVars, gate, bypass, stage, ip, step, wdtFreq, otpVars, core>>

\* A new divider, which stops the channel, is not taken or the channel does not run.
DividerTimeout ==
  /\ At("clock", "div") /\ k <= Len(Table[G])
  /\ LET c == Table[G][k] IN
       /\ ~(div[c.ch] = c.div /\ c.ch \in running)
       /\ div' = [div EXCEPT ![c.ch] = c.div] /\ running' = running \ {c.ch}
  /\ Fails
  /\ UNCHANGED <<powerVars, pllVars, gate, bypass, k, wdtFreq, otpVars, core>>

EndBypass ==
  /\ At("clock", "div") /\ k > Len(Table[G]) /\ Done
  /\ SyncAndDisableBp(Masked[G])
  /\ UNCHANGED <<powerVars, pllVars, div, running, gate, k, wdtFreq, otpVars, core>>

Wdt0HwEnable ==
  /\ At("wdt", "call") /\ Done
  /\ wdtFreq' = GetClock("APB")
  /\ UNCHANGED <<powerVars, clkVars, k, otpVars, core>>
-----------------------------------------------------------------------------
(***************************************************************************)
(* otp_get_dump                                                            *)
(***************************************************************************)
OtpCached ==
  /\ At("otp", "call") /\ isRead /\ Done
  /\ UNCHANGED <<powerVars, clkVars, k, wdtFreq, otpVars, core>>

\* otp_enable_read up to the wait for the PLL
OtpSlow ==
  /\ At("otp", "call") /\ ~isRead /\ Goto("slow")
  /\ saved' = (IF pll["SERV"].man THEN pll["SERV"] ELSE saved) /\ SetPll("SERV", PllOtp)
  /\ UNCHANGED <<powerVars, div, running, bypass, gate, k, wdtFreq, isRead, dctrl, otpFailed, core>>

\* The PLL is locked, the OTP is not busy: the access is opened.
OtpOpen ==
  /\ At("otp", "slow") /\ "SERV" \in locked /\ Goto("read")
  /\ dctrl' = TRUE
  /\ UNCHANGED <<powerVars, clkVars, k, wdtFreq, saved, isRead, otpFailed, core>>

\* Mutant: the access is left open.
OtpCloseNot ==
  /\ At("otp", "read") /\ Goto("close")
  /\ UNCHANGED <<powerVars, clkVars, k, wdtFreq, saved, isRead, dctrl, otpFailed, core>>

\* The words are copied; otp_disable_read closes the access...
OtpClose ==
  /\ At("otp", "read") /\ Goto("close")
  /\ dctrl' = FALSE
  /\ UNCHANGED <<powerVars, clkVars, k, wdtFreq, saved, isRead, otpFailed, core>>

\* ... and restores the PLL.
OtpRestore ==
  /\ At("otp", "close") /\ Goto("restore")
  /\ SetPll("SERV", Pll(saved.nf, saved.nr, saved.od))
  /\ UNCHANGED <<powerVars, div, running, bypass, gate, k, wdtFreq, otpVars, core>>

OtpDone ==
  /\ At("otp", "restore") /\ "SERV" \in locked /\ Done
  /\ isRead' = TRUE
  /\ UNCHANGED <<powerVars, clkVars, k, wdtFreq, saved, dctrl, otpFailed, core>>

\* One of the PLL waits ends without a lock, or the OTP stays busy.
OtpTimeout ==
  /\ \/ At("otp", "slow")
     \/ At("otp", "restore") /\ "SERV" \notin locked
  /\ Fails /\ otpFailed' = TRUE
  /\ UNCHANGED <<powerVars, clkVars, k, wdtFreq, saved, isRead, dctrl, core>>

\* check_recovery_image: the image was read and its device tree names a key at a pin,
\* whose gpio_init enables LSP1, or Lsp1Enable is passed over.
CheckRecoveryImage ==
  /\ At("key", "call") /\ UNCHANGED <<stage, step>>
  /\ \/ isRead /\ ip' = ip + 1
     \/ ip' = ip + 3
  /\ UNCHANGED <<powerVars, clkVars, k, wdtFreq, otpVars, core>>
-----------------------------------------------------------------------------
(***************************************************************************)
(* cpu_start_arm0_core                                                     *)
(***************************************************************************)
ClusterOn ==
  /\ At("core", "call") /\ Goto("reset")
  /\ core' = [core EXCEPT !.power = TRUE]
  /\ UNCHANGED <<powerVars, clkVars, k, wdtFreq, otpVars>>

EntryAddress ==
  /\ At("core", "reset") /\ Goto("entry")
  /\ core' = [core EXCEPT !.entry = TRUE]
  /\ UNCHANGED <<powerVars, clkVars, k, wdtFreq, otpVars>>

CoreOn ==
  /\ At("core", "entry") /\ Done
  /\ core' = [core EXCEPT !.on = TRUE]
  /\ UNCHANGED <<powerVars, clkVars, k, wdtFreq, otpVars>>

\* The next stage, which has its own copy of the static variables; the main loop of
\* SBL-S3; or the end of SBL-XIP, which switches RISC0 off.
StageEnds ==
  /\ At("end", "call")
  /\ stage' = G /\ ip' = 1 /\ UNCHANGED step
  /\ wdtFreq' = IF G = "serve" THEN wdtFreq ELSE 0
  /\ isRead' = (G = "serve" /\ isRead)
  /\ saved' = IF G = "serve" THEN saved ELSE PllReset
  /\ UNCHANGED <<powerVars, clkVars, k, dctrl, otpFailed, core>>
-----------------------------------------------------------------------------
\* A PLL locks.
Lock(g) ==
  /\ g \notin locked /\ locked' = locked \cup {g}
  /\ UNCHANGED <<powerVars, pll, div, running, bypass, gate, progVars, wdtFreq, otpVars, core>>

bootVars == <<pllVars, div, progVars, wdtFreq, otpVars, core>>

\* At power-on the channels of RISC0 run; some of the interconnect may.
Init ==
  /\ PowerInit /\ gate = {} /\ bypass = {}
  /\ \E on \in {{}, ChannelsOf("TOP")} : running = ChannelsOf("SERV") \cup on
  /\ pll = [g \in Gens |-> PllReset] /\ locked = {} /\ div = [ch \in Channel |-> 1]
  /\ stage \in {"S1", "XIP"} /\ ip = 1 /\ step = "call" /\ k = 1
  /\ wdtFreq = 0 /\ saved = PllReset /\ isRead = FALSE /\ dctrl = FALSE /\ otpFailed = FALSE
  /\ core = [power |-> FALSE, entry |-> FALSE, on |-> FALSE]

Program ==
  \/ Power \/ GateAll \/ SetClock \/ PllTimeout \/ PllReady \/ SetDivider \/ DividerTimeout
  \/ EndBypass \/ Wdt0HwEnable
  \/ OtpCached \/ OtpSlow \/ OtpOpen \/ OtpClose \/ OtpRestore \/ OtpDone \/ OtpTimeout
  \/ CheckRecoveryImage
  \/ ClusterOn \/ EntryAddress \/ CoreOn \/ StageEnds
  \/ (SetPpolicy /\ UNCHANGED bootVars)

Next ==
  \/ Program
  \/ \E d \in Domain : Follow(d) /\ UNCHANGED bootVars
  \/ (CounterWraps /\ UNCHANGED bootVars)
  \/ \E g \in Gens : Lock(g)
  \/ \E d \in Service, want \in States :
       stage = "serve" /\ SubsystemSetPower(d, want) /\ UNCHANGED bootVars
  \/ (stage = "serve" /\ CheckSupport /\ UNCHANGED bootVars)

Spec == Init /\ [][Next]_vars

\* RISC0 goes on; nothing is assumed of PLLs, channels, the OTP and the regulators of SDR
\* and MEDIA, and those of the domains that are awaited without a limit do follow, as
\* the cluster of the ARM core does (SET_PPOLICY, ClusterOn).
FairSpec == Spec /\ WF_vars(Program) /\ \A d \in Boot : WF_vars(Follow(d) /\ UNCHANGED bootVars)
-----------------------------------------------------------------------------
\* While SBL-S3 serves requests, SDR, MEDIA and the processor get a clock only while they
\* are told to be on and their regulators have confirmed it, whatever timed out before,
\* and if a regulator answers between the last look at it and the write of PP_OFF; only
\* the request that is switching a domain off may be ahead of its clock gate.
ClockOnlyWhenPowered ==
  stage = "serve" => \A d \in gate :
    \/ policy[d] = "ON" /\ status[d] = "ON"
    \/ pc # "idle" /\ req = [dom |-> d, want |-> "OFF"]

\* While a domain is told to be on and its regulator has not confirmed it, every
\* running channel next to the domain is in bypass; between requests to SBL-S3 no
\* channel is, after a failure either (set_ppolicy).
BypassWhileComingUp ==
  /\ stage = "serve" /\ pc = "idle" => bypass \cap ChannelsOf("TOP") = {}
  /\ \A d \in Domain : policy[d] = "ON" /\ status[d] = "OFF" => Channels[d] \cap running \subseteq bypass

\* What the requester is told is how things are: success of switching on means
\* powered and clocked, a time-out means told to be off and without clock.
AnswerTellsState ==
  pc = "idle" =>
    LET d == answer.req.dom on == d \in Domain /\ policy[d] = "ON" /\ status[d] = "ON" /\ d \in gate IN
    /\ answer.req.want = "ON" /\ answer.res = "ok" => on
    /\ answer.res = "timeout" => policy[d] = "OFF" /\ d \notin gate

\* RISC0 comes back to its main loop, or has given up the boot or left it to the ARM
\* core, again and again: no PLL, divider, OTP or regulator of SDR and MEDIA that does
\* not answer keeps it waiting, except one that is silent while the counter of the timer
\* wraps in its 700 ms, which holds RISC0 for ever (read_poll_timeout).
EveryWaitEnds ==
  \/ []<>(pc = "idle" /\ stage \in {"serve", "off", "stopped"})
  \/ <>[](pc \in {"poll", "poll off"} /\ wrapped)

\* A PLL that is not locked feeds no running channel of the masks the stages give, in
\* the boot of each stage, after a failure that the caller overlooks and after one that
\* ends the boot; the read of the OTP, which changes the PLL under the running
\* channels, is apart.
PllChangesUnderBypass ==
  \A g \in Gens \ locked :
    pll[g].man /\ ~(g = "SERV" /\ saved.man) => running \cap Masked[g] \subseteq bypass

\* The watchdog computes its periods from a frequency sampled once in a stage; the clock
\* it counts is never faster, during the reads of the OTP and after a failed one
\* either, so no period is shorter than it says.
ApbWithinWatchdog == wdtFreq > 0 /\ "SERV" \in locked => Rate("APB") <= wdtFreq

\* "the UCG1 APB clock has to be less than 25MHz" (otp_enable_read) while the direct access
\* is on, and a boot without a failed read ends with the setting of service_set_clock.
OtpReadSlow ==
  /\ dctrl => "SERV" \in locked /\ Rate("APB") < 25000
  /\ stage = "serve" /\ ~otpFailed => pll["SERV"] = PllOf["SERV"]

\* The ARM core starts with power, clock, a locked PLL whose channels are out of bypass,
\* and an address to start at (cpu_set_clock, cpu_start_arm0_core).
CoreStartsReady ==
  core.on => /\ policy["CPU"] = "ON" /\ status["CPU"] = "ON" /\ "CPU" \in gate
             /\ "CPU" \in locked /\ ChannelsOf("CPU") \cap bypass = {} /\ ChannelsOf("CPU") \subseteq running
             /\ core.power /\ core.entry

\* timer_delay_ms: "it ensures at least num_msec passed when return".  The ticks of the
\* 10 ms that SBL-S3 waits between two looks at a FIFO of the mailbox, by the clock that
\* lsp1_timers_get_clock reports, take 10 ms at the rate the timer is clocked with.
MailboxTicks == 10 * GetClock("TIMERS")
MailboxDelayHolds == stage = "serve" /\ "LSP1" \in locked => MailboxTicks >= 10 * Rate("TIMERS")
=============================================================================
