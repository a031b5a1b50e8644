---------------------------- MODULE PowerDomain ----------------------------
(***************************************************************************)
(* Power domains: set_ppolicy and its callers.  A domain is switched by    *)
(* writing its policy register; an external regulator follows the present  *)
(* policy, sooner, later or never, and shows it in the status register.    *)
(* While a domain is switched on, the interconnect channels next to it run *)
(* in bypass.                                                              *)
(* RISC0 is the only one to write the registers: the stages of the boot    *)
(* switch the processor and the peripherals on, SBL-S3 switches SDR and    *)
(* MEDIA on request of the secure world.  Clocks has the order of the boot *)
(* and the clock generators behind the channels.                           *)
(***************************************************************************)
EXTENDS Integers

CONSTANTS Boot,       \* domains the boot stages enable, without a time limit
          Service,    \* domains of the power service, 700 ms to switch
          Channels,   \* bypass masks: channels of both interconnect UCGs of a domain
          Foreign,    \* subsystems that have no power management
          MaxReq      \* bound on the number of requests

Domain == Boot \cup Service
States == {"OFF", "ON"}
NoReq == [dom |-> "none", want |-> "OFF"]

ASSUME PowerDomainAssumption ==
  /\ Boot \cap Service = {} /\ Foreign \cap Domain = {} /\ MaxReq \in Nat
  /\ "none" \notin Domain

VARIABLES
  policy,    \* PPOLICY registers
  status,    \* PSTATUS registers
  gate,      \* top_clkgate: the domains that get a clock
  running,   \* channels in state UCG_Q_FSM_STATE_RUN, of all generators
  bypass,    \* ucg_bp_ctr_reg of all generators
  pc,        \* where RISC0 is in the request
  req,       \* the request
  ret,       \* what set_ppolicy is going to return
  wrapped,   \* the timer's counter has wrapped in this wait, uncounted
  answer,    \* the last request and its result, while RISC0 is idle
  made       \* number of requests of clients so far

powerVars == <<policy, status, pc, req, ret, wrapped, answer, made>>

Dom == req.dom
NoAnswer == [req |-> NoReq, res |-> "none"]
-----------------------------------------------------------------------------
EnableBp(mask) == bypass' = bypass \cup (mask \cap running)

SyncAndDisableBp(mask) == bypass' = bypass \ mask

\* Only switching on has bypass masks.
Mask == IF req.want = "ON" THEN Channels[Dom] ELSE {}

\* A new call of service_enable_xxx, or of service_subsystem_set_power by the
\* handler of the power service: the register may hold the policy already.
Call(d, want) ==
  /\ pc = "idle"
  /\ req' = [dom |-> d, want |-> want]
  /\ ret' = "ok" /\ answer' = NoAnswer
  /\ pc' = IF policy[d] = want THEN "gate" ELSE "switch"
  /\ UNCHANGED <<policy, status, gate, running, bypass, wrapped>>

ServiceEnable(d) == Call(d, "ON") /\ UNCHANGED made

SubsystemSetPower(d, want) == made < MaxReq /\ made' = made + 1 /\ Call(d, want)

\* A request for any other subsystem is refused before anything is touched.
CheckSupport ==
  /\ pc = "idle" /\ made < MaxReq /\ made' = made + 1
  /\ \E d \in Foreign \cup Boot, want \in States :
       answer' = [req |-> [dom |-> d, want |-> want], res |-> "notsupported"]
  /\ UNCHANGED <<policy, status, gate, running, bypass, pc, req, ret, wrapped>>

\* set_ppolicy up to the first write of the policy
Switch ==
  /\ pc = "switch" /\ pc' = "poll"
  /\ EnableBp(Mask)
  /\ policy' = [policy EXCEPT ![Dom] = req.want]
  /\ UNCHANGED <<status, gate, running, req, ret, wrapped, answer, made>>

\* The regulator of a domain follows its policy.
Follow(d) ==
  /\ status[d] # policy[d]
  /\ status' = [status EXCEPT ![d] = policy[d]]
  /\ UNCHANGED <<policy, gate, running, bypass, pc, req, ret, wrapped, answer, made>>

\* The counter of the timer wraps before the deadline of a limited wait.  The requests
\* are served with interrupts disabled, so the interrupt that counts the wrap stays
\* away, the time falls back, and read_poll_timeout never sees its deadline pass.
CounterWraps ==
  /\ pc \in {"poll", "poll off"} /\ Dom \in Service /\ ~wrapped /\ wrapped' = TRUE
  /\ UNCHANGED <<policy, status, gate, running, bypass, pc, req, ret, answer, made>>

PollDone ==
  /\ pc = "poll" /\ status[Dom] = req.want
  /\ pc' = "settle" /\ wrapped' = FALSE
  /\ UNCHANGED <<policy, status, gate, running, bypass, req, ret, answer, made>>

\* Mutant: the time limit ends the request without the rest of set_ppolicy.
PollTimeoutReturns ==
  /\ pc = "poll" /\ Dom \in Service /\ status[Dom] # req.want
  /\ ~wrapped /\ ret' = "timeout" /\ pc' = "gate"
  /\ policy' = [policy EXCEPT ![Dom] = "OFF"]
  /\ UNCHANGED <<status, gate, running, bypass, req, wrapped, answer, made>>

\* Mutant: the time limit is not looked at.
PollNeverTimesOut == FALSE /\ UNCHANGED <<powerVars, gate, running, bypass>>

\* The time limit passes and the last look finds the old status.
PollTimeout ==
  /\ pc = "poll" /\ Dom \in Service /\ status[Dom] # req.want /\ ~wrapped
  /\ ret' = "timeout" /\ pc' = IF req.want = "ON" THEN "late" ELSE "settle"
  /\ UNCHANGED <<policy, status, gate, running, bypass, req, wrapped, answer, made>>

\* A domain that did not come up is switched off again, even if its regulator has
\* answered since the last look.
SwitchOff ==
  /\ pc = "late" /\ pc' = "poll off"
  /\ policy' = [policy EXCEPT ![Dom] = "OFF"]
  /\ UNCHANGED <<status, gate, running, bypass, req, ret, wrapped, answer, made>>

\* The second wait ends with the status or with the time limit; its result is
\* not looked at.
PollOff ==
  /\ pc = "poll off" /\ (status[Dom] = "OFF" \/ ~wrapped)
  /\ pc' = "settle" /\ wrapped' = FALSE
  /\ UNCHANGED <<policy, status, gate, running, bypass, req, ret, answer, made>>

\* The delay for the regulator, then the end of set_ppolicy
Settle ==
  /\ pc = "settle" /\ pc' = "gate"
  /\ SyncAndDisableBp(Mask)
  /\ UNCHANGED <<policy, status, gate, running, req, ret, wrapped, answer, made>>

\* Mutant: the result of set_ppolicy is not looked at before the clock is let through.
GateAlways ==
  /\ pc = "gate" /\ pc' = "idle"
  /\ gate' = IF req.want = "ON" THEN gate \cup {Dom} ELSE gate \ {Dom}
  /\ answer' = [req |-> req, res |-> ret] /\ req' = NoReq
  /\ UNCHANGED <<policy, status, running, bypass, ret, wrapped, made>>

\* Mutant: a failure to come up is reported as success, as one to go down is.
GateOk ==
  /\ pc = "gate" /\ pc' = "idle"
  /\ gate' = IF req.want = "OFF" THEN gate \ {Dom} ELSE IF ret = "ok" THEN gate \cup {Dom} ELSE gate
  /\ answer' = [req |-> req, res |-> "ok"] /\ req' = NoReq
  /\ UNCHANGED <<policy, status, running, bypass, ret, wrapped, made>>

\* The caller: clock gate and result.  That a domain did not go down is not reported.
Gate ==
  /\ pc = "gate" /\ pc' = "idle"
  /\ \/ req.want = "ON" /\ ret # "ok" /\ UNCHANGED gate
     \/ req.want = "ON" /\ ret = "ok" /\ gate' = gate \cup {Dom}
     \/ req.want = "OFF" /\ gate' = gate \ {Dom}
  /\ answer' = [req |-> req, res |-> IF req.want = "ON" THEN ret ELSE "ok"]
  /\ req' = NoReq
  /\ UNCHANGED <<policy, status, running, bypass, ret, wrapped, made>>

\* Power-on: the domains are off.
PowerInit ==
  /\ policy = [d \in Domain |-> "OFF"] /\ status = policy
  /\ pc = "idle" /\ req = NoReq /\ ret = "ok" /\ wrapped = FALSE
  /\ answer = NoAnswer /\ made = 0

SetPpolicy == Switch \/ PollDone \/ PollTimeout \/ SwitchOff \/ PollOff \/ Settle \/ Gate
=============================================================================
