---------------------------- MODULE ClocksProofs ----------------------------
(***************************************************************************)
(* Proofs about Clocks for any domains, channels and dividers and any      *)
(* number of requests.                                                     *)
(***************************************************************************)
EXTENDS Clocks, TLAPS

\* The program of a stage; Main is that of the present one.
Prog(s) ==
  CASE s = "S1" -> S1Main [] s = "S2" -> S2Main [] s = "S3" -> S3Main
    [] s = "XIP" -> XipMain [] OTHER -> << Op("rest", "SERV", TRUE) >>

Stages == {"S1", "S2", "S3", "XIP"}
OpNames == {"power", "clock", "gate", "wdt", "otp", "key", "core", "end"}
IsClock(o, g) == o.op = "clock" /\ o.gen = g

\* What the order of operations gives the proofs, at place i of stage s
\* and between it and the next place.
OpFacts(s, o, i) ==
  /\ o.op \in OpNames
  /\ o.op = "gate" => o.gen = s /\ s \in {"S1", "XIP"} /\ (s = "S1" => i > 1)
  /\ o.op = "power" => o.gen \in {"LSP1", "CPU"} /\ (s = "S1" => o.gen = "LSP1")
  /\ o.op = "clock" => o.gen \in {"SERV", "TOP", "LSP1", "CPU"}
  /\ o.op = "clock" /\ o.gen \in {"TOP", "CPU"} => o.must
  /\ s = "S2" /\ o.op = "clock" => o.gen = "LSP1"
  /\ o.op = "key" => s = "S2" /\ i = 9
  /\ o.op = "core" => s \in {"S3", "XIP"}
  /\ o.op = "end" => <<s, o.gen>> \in {<<"S1", "S2">>, <<"S2", "S3">>, <<"S3", "serve">>, <<"XIP", "off">>}
  /\ i = 1 => o.op \in {"power", "gate"} /\ (s # "XIP" => o.op = "power")

NextFacts(s, o, n) ==
  /\ n.op = "core" => IsClock(o, "CPU")
  /\ o.op = "core" => n.op = "end"
  /\ IsClock(n, "CPU") => o.op = "power" /\ o.gen = "CPU"
  /\ n.op = "end" /\ s \in {"S3", "XIP"} => o.op = "core"

LEMMA ProgS1 ==
  /\ Len(S1Main) = 13
  /\ \A i \in 1..13 : OpFacts("S1", S1Main[i], i) /\ (S1Main[i].op = "end" <=> i = 13)
  /\ \A i \in 1..12 : NextFacts("S1", S1Main[i], S1Main[i + 1])
BY SMTT(40) DEF S1Main, Uart0, Lsp1Enable, Op, OpFacts, NextFacts, OpNames, IsClock

LEMMA ProgS2 ==
  /\ Len(S2Main) = 13
  /\ \A i \in 1..13 : OpFacts("S2", S2Main[i], i) /\ (S2Main[i].op = "end" <=> i = 13)
  /\ \A i \in 1..12 : NextFacts("S2", S2Main[i], S2Main[i + 1])
BY SMTT(40) DEF S2Main, Uart0, Lsp1Enable, Op, OpFacts, NextFacts, OpNames, IsClock

LEMMA ProgS3 ==
  /\ Len(S3Main) = 12
  /\ \A i \in 1..12 : OpFacts("S3", S3Main[i], i) /\ (S3Main[i].op = "end" <=> i = 12)
  /\ \A i \in 1..11 : NextFacts("S3", S3Main[i], S3Main[i + 1])
BY SMTT(40) DEF S3Main, CpuSetClock, Uart0, Lsp1Enable, Op, OpFacts, NextFacts, OpNames, IsClock

LEMMA ProgXip ==
  /\ Len(XipMain) = 16
  /\ \A i \in 1..16 : OpFacts("XIP", XipMain[i], i) /\ (XipMain[i].op = "end" <=> i = 16)
  /\ \A i \in 1..15 : NextFacts("XIP", XipMain[i], XipMain[i + 1])
BY SMTT(40) DEF XipMain, CpuSetClock, Uart0, Lsp1Enable, Op, OpFacts, NextFacts, OpNames, IsClock

LEMMA ProgFacts ==
  ASSUME NEW s \in Stages, NEW i \in 1..Len(Prog(s))
  PROVE  /\ Len(Prog(s)) \in Nat /\ OpFacts(s, Prog(s)[i], i)
         /\ Prog(s)[i].op = "end" <=> i = Len(Prog(s))
         /\ i < Len(Prog(s)) => NextFacts(s, Prog(s)[i], Prog(s)[i + 1])
<1>1. CASE s = "S1"
  <2>1. Prog(s) = S1Main
    BY <1>1 DEF Prog
  <2>2. i \in 1..13 /\ (i < 13 => i \in 1..12) /\ 13 \in Nat
    BY <2>1, ProgS1
  <2> QED
    BY <1>1, <2>1, <2>2, ProgS1, Zenon
<1>2. CASE s = "S2"
  <2>1. Prog(s) = S2Main
    BY <1>2 DEF Prog
  <2>2. i \in 1..13 /\ (i < 13 => i \in 1..12) /\ 13 \in Nat
    BY <2>1, ProgS2
  <2> QED
    BY <1>2, <2>1, <2>2, ProgS2, Zenon
<1>3. CASE s = "S3"
  <2>1. Prog(s) = S3Main
    BY <1>3 DEF Prog
  <2>2. i \in 1..12 /\ (i < 12 => i \in 1..11) /\ 12 \in Nat
    BY <2>1, ProgS3
  <2> QED
    BY <1>3, <2>1, <2>2, ProgS3, Zenon
<1>4. CASE s = "XIP"
  <2>1. Prog(s) = XipMain
    BY <1>4 DEF Prog
  <2>2. i \in 1..16 /\ (i < 16 => i \in 1..15) /\ 16 \in Nat
    BY <2>1, ProgXip
  <2> QED
    BY <1>4, <2>1, <2>2, ProgXip, Zenon
<1> QED
  BY <1>1, <1>2, <1>3, <1>4 DEF Stages
-----------------------------------------------------------------------------
(***************************************************************************)
(* The place in the program.                                               *)
(***************************************************************************)
Resting == {"serve", "off", "stopped"}
ProgInv == stage \in Stages \cup Resting /\ ip \in 1..Len(Prog(stage))

LEMMA MainIsProg == Main = Prog(stage) /\ Main' = Prog(stage')
BY DEF Main, Prog

LEMMA Rests ==
  ASSUME NEW s \in Resting
  PROVE  Len(Prog(s)) = 1 /\ Prog(s)[1].op = "rest"
BY DEF Resting, Prog, Op

LEMMA NowFacts ==
  ASSUME ProgInv
  PROVE  /\ stage \in Stages => OpFacts(stage, Now, ip)
         /\ stage \in Resting => Now.op = "rest"
<1>1. ip \in 1..Len(Prog(stage)) /\ Now = Prog(stage)[ip]
  BY MainIsProg, Zenon DEF ProgInv, Now
<1>2. stage \in Stages => OpFacts(stage, Now, ip)
  BY <1>1, ProgFacts, Zenon
<1>3. stage \in Resting => Now.op = "rest"
  <2> SUFFICES ASSUME stage \in Resting PROVE Now.op = "rest"
    OBVIOUS
  <2>1. Len(Prog(stage)) = 1 /\ Prog(stage)[1].op = "rest"
    BY Rests, Zenon
  <2>2. ip = 1
    BY <1>1, <2>1
  <2> QED
    BY <1>1, <2>1, <2>2, Zenon
<1> QED
  BY <1>2, <1>3

\* The next place of the same program.
LEMMA Advance ==
  ASSUME ProgInv, Now.op \in OpNames, Now.op # "end", stage' = stage, ip' = ip + 1
  PROVE  ProgInv' /\ stage \in Stages /\ NextFacts(stage, Now, Now')
<1>1. stage \in Stages
  <2>1. stage \in Resting => Now.op = "rest"
    BY NowFacts
  <2> QED
    BY <2>1 DEF ProgInv, OpNames
<1>2. PICK s \in Stages : s = stage
  BY <1>1
<1>3. PICK i \in 1..Len(Prog(s)) : i = ip
  BY <1>2, Zenon DEF ProgInv
<1>4. Now = Prog(s)[i] /\ Now' = Prog(s)[i + 1]
  BY <1>2, <1>3, MainIsProg, Zenon DEF Now
<1>5. Len(Prog(s)) \in Nat /\ i # Len(Prog(s))
  BY <1>4, ProgFacts, Zenon
<1>6. i < Len(Prog(s)) /\ i + 1 \in 1..Len(Prog(s))
  BY <1>5
<1>7. NextFacts(s, Prog(s)[i], Prog(s)[i + 1])
  BY <1>6, ProgFacts, Zenon
<1>8. NextFacts(stage, Now, Now')
  BY <1>2, <1>4, <1>7, Zenon
<1>9. ProgInv'
  BY <1>1, <1>2, <1>3, <1>6, Zenon DEF ProgInv
<1> QED
  BY <1>1, <1>8, <1>9

\* The first place of another program.
LEMMA Enters ==
  ASSUME stage' \in Stages \cup Resting, ip' = 1
  PROVE  ProgInv'
<1>1. PICK s \in Stages \cup Resting : s = stage'
  OBVIOUS
<1>2. 1 \in 1..Len(Prog(s))
  <2>1. CASE s = "S1"
    <3>1. Prog(s) = S1Main
      BY <2>1 DEF Prog
    <3>2. Len(Prog(s)) = 13
      BY <3>1, ProgS1, Zenon
    <3> QED
      BY <3>2
  <2>2. CASE s = "S2"
    <3>1. Prog(s) = S2Main
      BY <2>2 DEF Prog
    <3>2. Len(Prog(s)) = 13
      BY <3>1, ProgS2, Zenon
    <3> QED
      BY <3>2
  <2>3. CASE s = "S3"
    <3>1. Prog(s) = S3Main
      BY <2>3 DEF Prog
    <3>2. Len(Prog(s)) = 12
      BY <3>1, ProgS3, Zenon
    <3> QED
      BY <3>2
  <2>4. CASE s = "XIP"
    <3>1. Prog(s) = XipMain
      BY <2>4 DEF Prog
    <3>2. Len(Prog(s)) = 16
      BY <3>1, ProgXip, Zenon
    <3> QED
      BY <3>2
  <2>5. CASE s \in Resting
    BY <2>5, Rests
  <2> QED
    BY <2>1, <2>2, <2>3, <2>4, <2>5 DEF Stages
<1> QED
  BY <1>1, <1>2, Zenon DEF ProgInv
-----------------------------------------------------------------------------
(***************************************************************************)
(* set_ppolicy.  A domain that is told to be on and is not on yet is the   *)
(* one set_ppolicy is waiting for.                                         *)
(***************************************************************************)
ComingUp(d) == policy[d] = "ON" /\ status[d] = "OFF"

PowerInv ==
  /\ policy \in [Domain -> States] /\ status \in [Domain -> States]
  /\ pc \in {"idle", "switch", "poll", "late", "poll off", "settle", "gate"}
  /\ ret \in {"ok", "timeout"}
  /\ pc # "idle" => req \in [dom : Domain, want : States]
  /\ \A d \in Domain : ComingUp(d) => pc \in {"poll", "late"} /\ req.dom = d /\ req.want = "ON"
  /\ pc \in {"switch", "poll"} => ret = "ok"
  /\ pc = "switch" => policy[req.dom] # req.want
  /\ pc = "poll" => policy[req.dom] = req.want
  /\ pc = "late" => req.want = "ON" /\ policy[req.dom] = "ON" /\ ret = "timeout"
  /\ pc = "poll off" => req.want = "ON" /\ policy[req.dom] = "OFF" /\ ret = "timeout"
  /\ pc \in {"settle", "gate"} /\ ret = "ok" => policy[req.dom] = req.want
  /\ pc \in {"settle", "gate"} /\ ret = "timeout" /\ req.want = "ON" => policy[req.dom] = "OFF"
  /\ pc # "idle" /\ ret = "timeout" => req.dom \in Service

LEMMA CallPower ==
  ASSUME PowerInv, NEW d \in Domain, NEW want \in States, Call(d, want)
  PROVE  PowerInv'
BY DEF PowerInv, Call, ComingUp, States

LEMMA FollowPower ==
  ASSUME PowerInv, NEW d \in Domain, Follow(d)
  PROVE  PowerInv'
BY Zenon DEF PowerInv, Follow, ComingUp, States

LEMMA SwitchPower ==
  ASSUME PowerInv, Switch
  PROVE  PowerInv'
BY DEF PowerInv, Switch, Dom, ComingUp, States

LEMMA SetPpolicyPower ==
  ASSUME PowerInv, SetPpolicy
  PROVE  PowerInv'
<1>1. CASE Switch
  BY <1>1, SwitchPower
<1>2. CASE PollDone
  BY <1>2 DEF PowerInv, PollDone, Dom, ComingUp, States
<1>3. CASE PollTimeout
  BY <1>3, Zenon DEF PowerInv, PollTimeout, Dom, ComingUp, States
<1>4. CASE SwitchOff
  BY <1>4 DEF PowerInv, SwitchOff, Dom, ComingUp, States
<1>5. CASE PollOff
  BY <1>5, Zenon DEF PowerInv, PollOff, Dom, ComingUp, States
<1>6. CASE Settle
  BY <1>6 DEF PowerInv, Settle, ComingUp, States
<1>7. CASE Gate
  BY <1>7 DEF PowerInv, Gate, ComingUp, States
<1> QED
  BY <1>1, <1>2, <1>3, <1>4, <1>5, <1>6, <1>7 DEF SetPpolicy

LEMMA SamePower ==
  ASSUME PowerInv, UNCHANGED <<policy, status, pc, req, ret>>
  PROVE  PowerInv'
BY Zenon DEF PowerInv, ComingUp
-----------------------------------------------------------------------------
(***************************************************************************)
(* Clock gates and answers.  Until SBL-S3 serves requests, set_ppolicy is  *)
(* only called to switch on, and SBL-S1 leaves the gate as it finds it.    *)
(***************************************************************************)
Booting == {"S1", "S2", "S3", "serve"}
On(d) == policy[d] = "ON" /\ status[d] = "ON"

GateInv ==
  /\ gate \subseteq Domain
  /\ stage \in Booting => \A d \in gate : On(d) \/ (pc # "idle" /\ req = [dom |-> d, want |-> "OFF"])
  /\ stage # "serve" /\ pc # "idle" => req.dom \in Boot /\ req.want = "ON"
  /\ stage = "serve" /\ pc # "idle" => req.dom \in Service
  /\ pc = "late" => req.dom \notin gate
  /\ stage = "S1" => /\ gate \subseteq {"LSP1"}
                     /\ pc # "idle" => req.dom = "LSP1"
                     /\ ip > 1 /\ pc = "idle" => "LSP1" \in gate

AnswerInv ==
  /\ AnswerTellsState
  /\ stage # "serve" => answer.res # "timeout"

Ends == {<<"S1", "S2">>, <<"S2", "S3">>, <<"S3", "serve">>, <<"XIP", "off">>}

\* A step of the program that leaves power and gates alone.
LEMMA QuietGate ==
  ASSUME ProgInv, GateInv, AnswerInv, UNCHANGED <<policy, status, pc, req, ret, answer, gate>>,
         pc = "idle", Now.op \in OpNames \ {"power"},
         \/ stage' = stage
         \/ stage' = "stopped"
         \/ <<stage, stage'>> \in Ends
  PROVE  GateInv' /\ AnswerInv'
<1>1. stage \in Stages /\ (stage = "S1" => ip > 1)
  <2>1. stage \in Stages
    BY NowFacts DEF ProgInv, OpNames
  <2>2. OpFacts(stage, Now, ip)
    BY <2>1, NowFacts
  <2>3. ip \in Nat /\ ip >= 1
    BY DEF ProgInv
  <2>4. stage = "S1" => ip # 1
    BY <2>2 DEF OpFacts, OpNames
  <2> QED
    BY <2>1, <2>3, <2>4
<1>2. stage' \in Booting => stage \in Booting
  BY <1>1 DEF Booting, Ends
<1>3. stage' = "S1" => stage = "S1"
  BY <1>1 DEF Ends
<1>4. stage # "serve" /\ (stage' # "serve" => answer.res # "timeout")
  BY <1>1 DEF AnswerInv, Stages
<1>5. GateInv'
  BY <1>1, <1>2, <1>3, Zenon DEF GateInv, On
<1>6. AnswerInv'
  BY <1>4, Zenon DEF AnswerInv, AnswerTellsState
<1> QED
  BY <1>5, <1>6

LEMMA SameGate ==
  ASSUME GateInv, AnswerInv, UNCHANGED <<policy, status, pc, req, ret, answer, gate, stage, ip>>
  PROVE  GateInv' /\ AnswerInv'
<1>1. GateInv'
  BY Zenon DEF GateInv, On
<1>2. AnswerInv'
  BY Zenon DEF AnswerInv, AnswerTellsState
<1> QED
  BY <1>1, <1>2

LEMMA GateAllGate ==
  ASSUME ProgInv, PowerInv, GateInv, AnswerInv, GateAll
  PROVE  GateInv' /\ AnswerInv'
<1>1. /\ pc = "idle" /\ Now.op = "gate" /\ UNCHANGED <<policy, status, pc, req, ret, answer, stage>>
      /\ gate' = IF Now.gen = "S1" THEN {"LSP1"} ELSE Domain
  BY DEF GateAll, At, Done, G, powerVars
<1>2. stage \in {"S1", "XIP"} /\ Now.gen = stage /\ (stage = "S1" => ip > 1)
  <2>1. stage \in Stages
    BY <1>1, NowFacts DEF ProgInv
  <2> QED
    BY <1>1, <2>1, NowFacts DEF OpFacts
<1>3. CASE stage = "S1"
  <2>1. gate' = gate
    BY <1>1, <1>2, <1>3 DEF GateInv
  <2> QED
    BY <1>1, <2>1, QuietGate DEF OpNames
<1>4. CASE stage = "XIP"
  <2>1. gate' = Domain
    BY <1>1, <1>2, <1>4
  <2>2. GateInv'
    BY <1>1, <1>4, <2>1 DEF GateInv, Booting
  <2>3. AnswerInv'
    BY <1>1, <1>4, <2>1 DEF GateInv, AnswerInv, AnswerTellsState
  <2> QED
    BY <2>2, <2>3
<1> QED
  BY <1>2, <1>3, <1>4

LEMMA PowerGate ==
  ASSUME ProgInv, PowerInv, GateInv, AnswerInv, Power
  PROVE  GateInv' /\ AnswerInv' /\ Now.gen \in Boot /\ Call(Now.gen, "ON")
<1>1. /\ pc = "idle" /\ Now.op = "power" /\ Call(Now.gen, "ON") /\ stage' = stage /\ gate' = gate
      /\ answer' = NoAnswer /\ pc' \in {"gate", "switch"} /\ req' = [dom |-> Now.gen, want |-> "ON"]
      /\ UNCHANGED <<policy, status>>
  BY DEF Power, At, Done, G, ServiceEnable, Call
<1>2. stage \in Stages /\ Now.gen \in {"LSP1", "CPU"} /\ (stage = "S1" => Now.gen = "LSP1")
  <2>1. stage \in Stages
    BY <1>1, NowFacts DEF ProgInv
  <2> QED
    BY <1>1, <2>1, NowFacts DEF OpFacts
<1>3. Now.gen \in Boot
  BY <1>2, ClocksAssumption
<1>4. GateInv'
  BY <1>1, <1>2, <1>3, Zenon DEF GateInv, On, Stages
<1>5. AnswerInv'
  BY <1>1 DEF AnswerInv, AnswerTellsState, NoAnswer
<1> QED
  BY <1>1, <1>3, <1>4, <1>5

LEMMA FollowGate ==
  ASSUME PowerInv, GateInv, AnswerInv, NEW d \in Domain, Follow(d), UNCHANGED <<stage, ip>>
  PROVE  GateInv' /\ AnswerInv'
<1>1. GateInv'
  BY Zenon DEF PowerInv, GateInv, Follow, On
<1>2. AnswerInv'
  BY Zenon DEF PowerInv, AnswerInv, AnswerTellsState, Follow
<1> QED
  BY <1>1, <1>2

LEMMA SetPpolicyGate ==
  ASSUME PowerInv, GateInv, AnswerInv, SetPpolicy, UNCHANGED <<stage, ip>>
  PROVE  GateInv' /\ AnswerInv'
<1>1. CASE Switch
  BY <1>1 DEF PowerInv, GateInv, AnswerInv, AnswerTellsState, Switch, Dom, On, States
<1>2. CASE PollDone
  BY <1>2, Zenon DEF PowerInv, GateInv, AnswerInv, AnswerTellsState, PollDone, Dom, On, States
<1>3. CASE PollTimeout
  <2>1. stage = "serve"
    BY <1>3, PowerDomainAssumption, Zenon DEF PowerInv, GateInv, PollTimeout, Dom
  <2>2. req.want = "ON" => req.dom \notin gate
    <3> SUFFICES ASSUME req.want = "ON", req.dom \in gate PROVE FALSE
      OBVIOUS
    <3>1. On(req.dom) \/ req = [dom |-> req.dom, want |-> "OFF"]
      BY <2>1 DEF GateInv, Booting
    <3>2. ~On(req.dom)
      BY <1>3, Zenon DEF PollTimeout, Dom, On
    <3> QED
      BY <3>1, <3>2
  <2>3. GateInv'
    <3>1. /\ pc # "idle" /\ pc' # "idle" /\ UNCHANGED <<policy, status, gate, req>>
          /\ pc' = "late" => req.want = "ON"
      BY <1>3, Zenon DEF PollTimeout
    <3> QED
      BY <2>1, <2>2, <3>1, Zenon DEF GateInv, On
  <2>4. AnswerInv'
    BY <1>3, <2>1, Zenon DEF AnswerInv, AnswerTellsState, PollTimeout
  <2> QED
    BY <2>3, <2>4
<1>4. CASE SwitchOff
  <2>1. /\ pc = "late" /\ pc' = "poll off" /\ UNCHANGED <<status, gate, req>>
        /\ policy' = [policy EXCEPT ![req.dom] = "OFF"]
    BY <1>4, Zenon DEF SwitchOff, Dom
  <2>2. \A d \in gate : On(d) => On(d)'
    BY <2>1, Zenon DEF PowerInv, GateInv, On
  <2>3. GateInv'
    BY <2>1, <2>2, Zenon DEF GateInv
  <2>4. AnswerInv'
    BY <1>4, Zenon DEF AnswerInv, AnswerTellsState, SwitchOff
  <2> QED
    BY <2>3, <2>4
<1>5. CASE PollOff
  BY <1>5, Zenon DEF PowerInv, GateInv, AnswerInv, AnswerTellsState, PollOff, Dom, On, States
<1>6. CASE Settle
  BY <1>6, Zenon DEF PowerInv, GateInv, AnswerInv, AnswerTellsState, Settle, On, States
<1>7. CASE Gate
  <2> DEFINE d == req.dom
  <2>1. /\ d \in Domain /\ req.want \in States /\ req = [dom |-> d, want |-> req.want]
        /\ UNCHANGED <<policy, status, stage, ip>> /\ pc = "gate" /\ pc' = "idle"
        /\ answer' = [req |-> req, res |-> IF req.want = "ON" THEN ret ELSE "ok"]
    BY <1>7 DEF PowerInv, Gate
  <2>2. CASE req.want = "OFF"
    <3>1. gate' = gate \ {d} /\ stage = "serve"
      BY <1>7, <2>1, <2>2 DEF Gate, Dom, GateInv
    <3>2. GateInv'
      BY <2>1, <2>2, <3>1 DEF GateInv, On, Booting
    <3>3. AnswerInv'
      BY <2>1, <2>2, <3>1 DEF AnswerInv, AnswerTellsState
    <3> QED
      BY <3>2, <3>3
  <2>3. CASE req.want = "ON" /\ ret = "ok"
    <3>1. gate' = gate \cup {d} /\ policy[d] = "ON" /\ status[d] = "ON"
      BY <1>7, <2>1, <2>3 DEF Gate, Dom, PowerInv, ComingUp, States
    <3>2. GateInv'
      BY <2>1, <2>3, <3>1 DEF GateInv, On
    <3>3. AnswerInv'
      BY <2>1, <2>3, <3>1 DEF AnswerInv, AnswerTellsState
    <3> QED
      BY <3>2, <3>3
  <2>4. CASE req.want = "ON" /\ ret = "timeout"
    <3>1. gate' = gate /\ policy[d] = "OFF" /\ stage = "serve"
      BY <1>7, <2>1, <2>4, PowerDomainAssumption DEF Gate, PowerInv, GateInv
    <3>2. d \notin gate
      BY <2>1, <2>4, <3>1 DEF GateInv, On, Booting
    <3>3. GateInv'
      BY <2>1, <2>4, <3>1 DEF GateInv, On
    <3>4. AnswerInv'
      BY <2>1, <2>4, <3>1, <3>2 DEF AnswerInv, AnswerTellsState
    <3> QED
      BY <3>3, <3>4
  <2> QED
    BY <2>1, <2>2, <2>3, <2>4 DEF PowerInv, States
<1> QED
  BY <1>1, <1>2, <1>3, <1>4, <1>5, <1>6, <1>7 DEF SetPpolicy

LEMMA RequestGate ==
  ASSUME PowerInv, GateInv, AnswerInv, stage = "serve", UNCHANGED <<stage, ip>>,
         CheckSupport \/ \E d \in Service, want \in States : SubsystemSetPower(d, want)
  PROVE  GateInv' /\ AnswerInv'
<1>1. CASE CheckSupport
  <2>1. GateInv'
    BY <1>1 DEF GateInv, CheckSupport, On
  <2>2. AnswerInv'
    BY <1>1 DEF AnswerInv, AnswerTellsState, CheckSupport
  <2> QED
    BY <2>1, <2>2
<1>2. CASE \E d \in Service, want \in States : SubsystemSetPower(d, want)
  <2>1. GateInv'
    BY <1>2 DEF GateInv, SubsystemSetPower, Call, On, Booting
  <2>2. AnswerInv'
    BY <1>2, Zenon DEF AnswerInv, AnswerTellsState, SubsystemSetPower, Call, NoAnswer
  <2> QED
    BY <2>1, <2>2
<1> QED
  BY <1>1, <1>2
-----------------------------------------------------------------------------
(***************************************************************************)
(* Bypass of the interconnect: only set_ppolicy between its first write    *)
(* and its end, and top_set_clock, leave a channel in it.                  *)
(***************************************************************************)
InTopClock == IsClock(Now, "TOP") /\ step # "call"
TopClear == bypass \cap ChannelsOf("TOP") = {}

BypassInv ==
  /\ pc \in {"poll", "late"} /\ req.want = "ON" => Channels[req.dom] \cap running \subseteq bypass
  /\ pc \in {"switch", "gate"} => TopClear
  /\ pc \in {"poll", "late", "poll off", "settle"} => bypass \cap ChannelsOf("TOP") \subseteq Mask
  /\ pc = "idle" /\ stage \in Stages \cup {"serve"} /\ ~InTopClock => TopClear

\* A step of the program that leaves the bypass alone.
LEMMA QuietBypass ==
  ASSUME ProgInv, BypassInv, pc = "idle", UNCHANGED <<pc, bypass>>,
         stage' \in Stages \cup {"serve"} => stage \in Stages \cup {"serve"},
         InTopClock => InTopClock' \/ stage' \notin Stages \cup {"serve"}
  PROVE  BypassInv'
BY Zenon DEF BypassInv, TopClear

LEMMA OtherMask ==
  ASSUME NEW g \in Gens, g # "TOP"
  PROVE  Masked[g] \cap ChannelsOf("TOP") = {}
BY ClocksAssumption, Zenon

LEMMA SetClockBypass ==
  ASSUME ProgInv, BypassInv, SetClock
  PROVE  BypassInv'
<1>1. /\ pc = "idle" /\ Now.op = "clock" /\ step = "call" /\ step' = "lock" /\ Now' = Now
      /\ UNCHANGED <<pc, stage, ip>> /\ bypass' = bypass \cup (Masked[Now.gen] \cap running)
  BY Zenon DEF SetClock, At, Goto, G, EnableBp, powerVars, Now, Main
<1>2. stage \in Stages /\ Now.gen \in Gens
  <2>1. stage \in Stages
    BY <1>1, NowFacts, Zenon DEF ProgInv
  <2> QED
    BY <1>1, <2>1, NowFacts, ClocksAssumption, Zenon DEF OpFacts
<1>3. CASE Now.gen = "TOP"
  <2>1. InTopClock'
    BY <1>1, <1>3 DEF InTopClock, IsClock
  <2> QED
    BY <1>1, <2>1, Zenon DEF BypassInv
<1>4. CASE Now.gen # "TOP"
  <2>1. TopClear
    BY <1>1, <1>2, Zenon DEF BypassInv, InTopClock
  <2>2. TopClear'
    BY <1>1, <1>2, <1>4, <2>1, OtherMask DEF TopClear
  <2> QED
    BY <1>1, <2>2, Zenon DEF BypassInv
<1> QED
  BY <1>3, <1>4

LEMMA EndBypassBypass ==
  ASSUME ProgInv, BypassInv, EndBypass
  PROVE  BypassInv'
<1>1. /\ pc = "idle" /\ Now.op = "clock" /\ step = "div" /\ UNCHANGED pc
      /\ bypass' = bypass \ Masked[Now.gen]
  BY DEF EndBypass, At, G, SyncAndDisableBp, powerVars
<1>2. stage \in Stages
  BY <1>1, NowFacts DEF ProgInv
<1>3. TopClear'
  <2>1. CASE Now.gen = "TOP"
    BY <1>1, <2>1, ClocksAssumption DEF TopClear
  <2>2. CASE Now.gen # "TOP"
    BY <1>1, <1>2, <2>2 DEF BypassInv, TopClear, InTopClock, IsClock
  <2> QED
    BY <2>1, <2>2
<1> QED
  BY <1>1, <1>3, Zenon DEF BypassInv

LEMMA PowerBypass ==
  ASSUME ProgInv, BypassInv, Power
  PROVE  BypassInv'
<1>1. pc = "idle" /\ Now.op = "power" /\ pc' \in {"gate", "switch"} /\ bypass' = bypass
  BY DEF Power, At, ServiceEnable, Call
<1>2. stage \in Stages
  BY <1>1, NowFacts DEF ProgInv
<1>3. TopClear
  BY <1>1, <1>2 DEF BypassInv, InTopClock, IsClock
<1> QED
  BY <1>1, <1>3, Zenon DEF BypassInv, TopClear

LEMMA RequestBypass ==
  ASSUME ProgInv, BypassInv, stage = "serve",
         CheckSupport \/ \E d \in Service, want \in States : SubsystemSetPower(d, want),
         UNCHANGED <<stage, ip, step>>
  PROVE  BypassInv'
<1>1. pc = "idle" /\ pc' \in {"idle", "gate", "switch"} /\ bypass' = bypass
  BY DEF CheckSupport, SubsystemSetPower, Call
<1>2. TopClear
  BY <1>1, NowFacts DEF BypassInv, InTopClock, IsClock, Resting
<1> QED
  BY <1>1, <1>2, Zenon DEF BypassInv, TopClear

LEMMA SetPpolicyBypass ==
  ASSUME PowerInv, BypassInv, SetPpolicy, UNCHANGED <<stage, ip, step>>
  PROVE  BypassInv'
<1>1. CASE Switch
  <2>1. /\ pc = "switch" /\ pc' = "poll" /\ bypass' = bypass \cup (Mask \cap running)
        /\ UNCHANGED <<running, req>> /\ Mask' = Mask
    BY <1>1 DEF Switch, EnableBp, Mask, Dom
  <2>2. TopClear
    BY <2>1 DEF BypassInv
  <2> QED
    BY <2>1, <2>2, Zenon DEF BypassInv, TopClear, Mask, Dom
<1>2. CASE PollDone \/ PollTimeout \/ SwitchOff \/ PollOff
  <2>1. /\ pc \in {"poll", "late", "poll off"} /\ pc' \in {"late", "poll off", "settle"}
        /\ pc' = "late" => pc = "poll"
        /\ UNCHANGED <<bypass, running, req>> /\ Mask' = Mask
    BY <1>2, Zenon DEF PollDone, PollTimeout, SwitchOff, PollOff, Mask, Dom
  <2> QED
    BY <2>1, Zenon DEF BypassInv
<1>3. CASE Settle
  <2>1. pc = "settle" /\ pc' = "gate" /\ bypass' = bypass \ Mask
    BY <1>3 DEF Settle, SyncAndDisableBp
  <2> QED
    BY <2>1 DEF BypassInv, TopClear
<1>4. CASE Gate
  <2>1. pc = "gate" /\ pc' = "idle" /\ bypass' = bypass
    BY <1>4 DEF Gate
  <2> QED
    BY <2>1 DEF BypassInv, TopClear
<1> QED
  BY <1>1, <1>2, <1>3, <1>4 DEF SetPpolicy

LEMMA SameBypass ==
  ASSUME BypassInv, UNCHANGED <<pc, req, running, bypass, stage, ip, step>>
  PROVE  BypassInv'
<1>1. Mask' = Mask
  BY DEF Mask, Dom
<1>2. InTopClock' <=> InTopClock
  BY DEF InTopClock, IsClock, Now, Main
<1> QED
  BY <1>1, <1>2, Zenon DEF BypassInv, TopClear
-----------------------------------------------------------------------------
(***************************************************************************)
(* The ARM core.  What cpu_set_clock has brought about lasts until the     *)
(* core starts, and after it.                                              *)
(***************************************************************************)
Ready ==
  /\ On("CPU") /\ "CPU" \in gate /\ "CPU" \in locked
  /\ ChannelsOf("CPU") \cap bypass = {} /\ ChannelsOf("CPU") \subseteq running

AtEnd == stage \in {"S3", "XIP"} /\ Now.op = "end"

CoreInv ==
  /\ core \in [power : BOOLEAN, entry : BOOLEAN, on : BOOLEAN] /\ k \in Nat
  /\ IsClock(Now, "CPU") /\ pc = "idle" => On("CPU") /\ "CPU" \in gate
  /\ IsClock(Now, "CPU") /\ pc # "idle" => req.dom = "CPU" /\ req.want = "ON"
  /\ IsClock(Now, "CPU") /\ step = "div" =>
       /\ "CPU" \in locked
       /\ \A i \in 1..Len(Table["CPU"]) : i < k => Table["CPU"][i].ch \in running
  /\ Now.op = "core" \/ AtEnd => Ready /\ pc = "idle"
  /\ stage \in {"serve", "off"} => Ready
  /\ core.on => core.power /\ core.entry /\ (stage \in {"serve", "off"} \/ AtEnd)
  /\ Now.op = "core" /\ step \in {"reset", "entry"} => core.power
  /\ Now.op = "core" /\ step = "entry" => core.entry

\* The program has not come to the end of SBL-S3 or SBL-XIP: the core is off.
LEMMA CoreOff ==
  ASSUME ProgInv, CoreInv, Now.op \in OpNames \ {"end"}
  PROVE  stage \in Stages /\ ~core.on
<1>1. stage \in Stages
  BY NowFacts DEF ProgInv, OpNames
<1> QED
  BY <1>1 DEF CoreInv, AtEnd, Stages

\* A step within an operation that is not about the core.
LEMMA StayCore ==
  ASSUME ProgInv, CoreInv, Now.op \in {"clock", "otp"}, ~IsClock(Now, "CPU"),
         UNCHANGED <<stage, ip, core>>, k' \in Nat
  PROVE  CoreInv'
<1>1. Now' = Now /\ stage \in Stages /\ ~core.on
  BY CoreOff DEF Now, Main, OpNames
<1> QED
  BY <1>1, Zenon DEF CoreInv, AtEnd, Stages, IsClock

\* The end of an operation after which neither the clock nor the start of the core comes.
LEMMA LeaveCore ==
  ASSUME ProgInv, CoreInv, Now.op \in {"gate", "wdt", "otp", "clock"}, ~IsClock(Now, "CPU"),
         UNCHANGED <<stage, core>>, ip' = ip + 1, k' \in Nat
  PROVE  CoreInv'
<1>1. stage \in Stages /\ ~core.on
  BY CoreOff DEF OpNames
<1>2. NextFacts(stage, Now, Now')
  BY Advance DEF OpNames
<1>3. Now'.op # "core" /\ ~IsClock(Now', "CPU") /\ ~(stage \in {"S3", "XIP"} /\ Now'.op = "end")
  BY <1>2 DEF NextFacts
<1> QED
  BY <1>1, <1>3, Zenon DEF CoreInv, AtEnd, Stages

LEMMA StopCore ==
  ASSUME ProgInv, CoreInv, Now.op \in OpNames \ {"end"},
         stage' = "stopped", ip' = 1, UNCHANGED <<core, k>>
  PROVE  CoreInv'
<1>1. ~core.on
  BY CoreOff
<1>2. Now'.op = "rest"
  BY MainIsProg, Rests DEF Now, Resting
<1> QED
  BY <1>1, <1>2, Zenon DEF CoreInv, AtEnd, IsClock

LEMMA PowerCore ==
  ASSUME ProgInv, CoreInv, Power
  PROVE  CoreInv'
<1>1. /\ Now.op = "power" /\ UNCHANGED <<stage, core, k>> /\ ip' = ip + 1 /\ step' = "call"
      /\ pc' # "idle" /\ req' = [dom |-> Now.gen, want |-> "ON"]
  BY Zenon DEF Power, At, ServiceEnable, Call, Done, G
<1>2. stage \in Stages /\ ~core.on
  BY <1>1, CoreOff DEF OpNames
<1>3. NextFacts(stage, Now, Now')
  BY <1>1, Advance DEF OpNames
<1>4. /\ Now'.op # "core" /\ ~(stage \in {"S3", "XIP"} /\ Now'.op = "end")
      /\ IsClock(Now', "CPU") => Now.gen = "CPU"
  BY <1>1, <1>3, Zenon DEF NextFacts, IsClock
<1> QED
  BY <1>1, <1>2, <1>4, Zenon DEF CoreInv, AtEnd, Stages

LEMMA SetClockCore ==
  ASSUME ProgInv, CoreInv, SetClock
  PROVE  CoreInv'
<1>1. /\ pc = "idle" /\ Now.op = "clock" /\ step' = "lock"
      /\ UNCHANGED <<stage, ip, core, k, pc, policy, status, gate, req>>
  BY Zenon DEF SetClock, At, Goto, powerVars
<1>2. stage \in Stages /\ ~core.on
  BY <1>1, CoreOff DEF OpNames
<1>3. Now' = Now
  BY <1>1 DEF Now, Main
<1> QED
  BY <1>1, <1>2, <1>3, Zenon DEF CoreInv, AtEnd, Stages, On

LEMMA PllReadyCore ==
  ASSUME ProgInv, CoreInv, PllReady
  PROVE  CoreInv'
<1>1. /\ pc = "idle" /\ Now.op = "clock" /\ step' = "div" /\ k' = 1 /\ Now.gen \in locked
      /\ UNCHANGED <<stage, ip, core, pc, policy, status, gate, req, locked, running>>
  BY Zenon DEF PllReady, At, Goto, powerVars, clkVars, pllVars, G
<1>2. stage \in Stages /\ ~core.on
  BY <1>1, CoreOff DEF OpNames
<1>3. Now' = Now
  BY <1>1 DEF Now, Main
<1> QED
  BY <1>1, <1>2, <1>3 DEF CoreInv, AtEnd, Stages, On, IsClock

LEMMA SetDividerCore ==
  ASSUME ProgInv, CoreInv, SetDivider
  PROVE  CoreInv'
<1>1. /\ pc = "idle" /\ Now.op = "clock" /\ step = "div" /\ k' = k + 1
      /\ running' = running \cup {Table[Now.gen][k].ch}
      /\ UNCHANGED <<stage, ip, step, core, pc, policy, status, gate, req, locked>>
  BY Zenon DEF SetDivider, At, powerVars, pllVars, G
<1>2. stage \in Stages /\ ~core.on
  BY <1>1, CoreOff, Zenon DEF OpNames
<1>3. Now' = Now
  BY <1>1, Zenon DEF Now, Main
<1>4. IsClock(Now, "CPU") =>
        /\ "CPU" \in locked
        /\ \A i \in 1..Len(Table["CPU"]) : i < k' => Table["CPU"][i].ch \in running'
  <2> SUFFICES ASSUME IsClock(Now, "CPU"), NEW i \in 1..Len(Table["CPU"]), i < k'
               PROVE  "CPU" \in locked /\ Table["CPU"][i].ch \in running'
    BY <1>1, Zenon DEF CoreInv
  <2>1. i < k \/ i = k
    BY <1>1, ClocksAssumption DEF CoreInv
  <2> QED
    BY <1>1, <2>1, Zenon DEF CoreInv, IsClock
<1>5. Now.op # "core" /\ ~AtEnd /\ ~AtEnd' /\ stage \notin {"serve", "off"}
  BY <1>1, <1>2, <1>3, Zenon DEF AtEnd, Stages
<1>6. core' = core /\ k' \in Nat /\ ~core'.on
  BY <1>1, <1>2 DEF CoreInv
<1>7. On("CPU")' <=> On("CPU")
  BY <1>1, Zenon DEF On
<1> QED
  BY <1>1, <1>3, <1>4, <1>5, <1>6, <1>7, Zenon DEF CoreInv, IsClock

LEMMA EndBypassCore ==
  ASSUME ProgInv, CoreInv, EndBypass
  PROVE  CoreInv'
<1>1. /\ pc = "idle" /\ Now.op = "clock" /\ step = "div" /\ k > Len(Table[Now.gen])
      /\ ip' = ip + 1 /\ step' = "call" /\ bypass' = bypass \ Masked[Now.gen]
      /\ UNCHANGED <<stage, core, k, pc, policy, status, gate, req, locked, running>>
  BY Zenon DEF EndBypass, At, Done, SyncAndDisableBp, powerVars, pllVars, G
<1>2. stage \in Stages /\ ~core.on
  BY <1>1, CoreOff, Zenon DEF OpNames
<1>3. CASE ~IsClock(Now, "CPU")
  <2>1. k' \in Nat
    BY <1>1, Zenon DEF CoreInv
  <2> QED
    BY <1>1, <1>3, <2>1, LeaveCore, Zenon
<1>4. CASE IsClock(Now, "CPU")
  <2>1. NextFacts(stage, Now, Now')
    BY <1>1, Advance, Zenon DEF OpNames
  <2>2. ~IsClock(Now', "CPU") /\ ~(stage \in {"S3", "XIP"} /\ Now'.op = "end")
    BY <1>1, <2>1, Zenon DEF NextFacts
  <2>3. ChannelsOf("CPU") \cap bypass' = {}
    BY <1>1, <1>4, ClocksAssumption DEF IsClock
  <2>4. ChannelsOf("CPU") \subseteq running
    <3> SUFFICES ASSUME NEW i \in 1..Len(Table["CPU"]) PROVE Table["CPU"][i].ch \in running
      BY ClocksAssumption, SMTT(40) DEF ChannelsOf
    <3>1. i < k
      BY <1>1, <1>4, ClocksAssumption DEF CoreInv, IsClock
    <3> QED
      BY <1>1, <1>4, <3>1, Zenon DEF CoreInv
  <2>5. On("CPU") /\ "CPU" \in gate /\ "CPU" \in locked
    BY <1>1, <1>4, Zenon DEF CoreInv
  <2>6. Ready'
    BY <1>1, <2>3, <2>4, <2>5, Zenon DEF Ready, On, ChannelsOf
  <2> QED
    BY <1>1, <1>2, <2>2, <2>6, Zenon DEF CoreInv, AtEnd, Stages
<1> QED
  BY <1>3, <1>4

LEMMA CoreSteps ==
  ASSUME ProgInv, CoreInv, ClusterOn \/ EntryAddress \/ CoreOn
  PROVE  CoreInv'
<1>1. /\ pc = "idle" /\ Now.op = "core"
      /\ UNCHANGED <<stage, k, pc, policy, status, gate, req, locked, bypass, running>>
  BY DEF ClusterOn, EntryAddress, CoreOn, At, Done, Goto, powerVars, clkVars, pllVars
<1>2. stage \in Stages /\ ~core.on
  BY <1>1, CoreOff DEF OpNames
<1>3. stage \in {"S3", "XIP"}
  BY <1>1, <1>2, NowFacts, Zenon DEF OpFacts
<1>4. Ready /\ Ready'
  BY <1>1, Zenon DEF CoreInv, Ready, On, ChannelsOf
<1>5. CASE ClusterOn
  <2>1. Now' = Now /\ step' = "reset" /\ core' = [core EXCEPT !.power = TRUE]
    BY <1>5 DEF ClusterOn, Goto, Now, Main
  <2>2. core' \in [power : BOOLEAN, entry : BOOLEAN, on : BOOLEAN] /\ core'.power /\ ~core'.on
    BY <1>2, <2>1, Zenon DEF CoreInv
  <2> QED
    BY <1>1, <1>3, <1>4, <2>1, <2>2 DEF CoreInv, AtEnd, IsClock
<1>6. CASE EntryAddress
  <2>1. Now' = Now /\ step = "reset" /\ step' = "entry" /\ core' = [core EXCEPT !.entry = TRUE]
    BY <1>6 DEF EntryAddress, At, Goto, Now, Main
  <2>2. /\ core' \in [power : BOOLEAN, entry : BOOLEAN, on : BOOLEAN]
        /\ core'.power /\ core'.entry /\ ~core'.on
    BY <1>1, <1>2, <2>1, Zenon DEF CoreInv
  <2> QED
    BY <1>1, <1>3, <1>4, <2>1, <2>2 DEF CoreInv, AtEnd, IsClock
<1>7. CASE CoreOn
  <2>1. step = "entry" /\ ip' = ip + 1 /\ core' = [core EXCEPT !.on = TRUE]
    BY <1>7 DEF CoreOn, At, Done
  <2>2. Now'.op = "end"
    BY <1>1, <2>1, Advance DEF NextFacts, OpNames
  <2>3. /\ core' \in [power : BOOLEAN, entry : BOOLEAN, on : BOOLEAN]
        /\ core'.power /\ core'.entry
    BY <1>1, <2>1, Zenon DEF CoreInv
  <2> QED
    BY <1>1, <1>3, <1>4, <2>2, <2>3, Zenon DEF CoreInv, AtEnd, IsClock
<1> QED
  BY <1>5, <1>6, <1>7

LEMMA StageEndsFacts ==
  ASSUME ProgInv, StageEnds
  PROVE  /\ pc = "idle" /\ Now.op = "end" /\ ip' = 1 /\ <<stage, stage'>> \in Ends
         /\ stage' = Now.gen /\ ProgInv'
         /\ Now'.op \in {"power", "rest"}
<1>1. pc = "idle" /\ Now.op = "end" /\ stage' = Now.gen /\ ip' = 1
  BY Zenon DEF StageEnds, At, G
<1>2. stage \in Stages
  BY <1>1, NowFacts DEF ProgInv
<1>3. <<stage, stage'>> \in Ends
  BY <1>1, <1>2, NowFacts, Zenon DEF OpFacts, Ends
<1>4. stage' \in {"S2", "S3", "serve", "off"}
  BY <1>3 DEF Ends
<1>5. ProgInv'
  BY <1>1, <1>4, Enters DEF Stages, Resting
<1>6. Now'.op \in {"power", "rest"}
  <2>1. CASE stage' \in {"serve", "off"}
    BY <1>1, <2>1, MainIsProg, Rests, Zenon DEF Now, Resting
  <2>2. CASE stage' = "S2"
    <3>1. Now' = S2Main[1]
      BY <1>1, <2>2, Zenon DEF Now, Main
    <3>2. OpFacts("S2", S2Main[1], 1)
      BY ProgS2
    <3> QED
      BY <3>1, <3>2, Zenon DEF OpFacts
  <2>3. CASE stage' = "S3"
    <3>1. Now' = S3Main[1]
      BY <1>1, <2>3, Zenon DEF Now, Main
    <3>2. OpFacts("S3", S3Main[1], 1)
      BY ProgS3
    <3> QED
      BY <3>1, <3>2, Zenon DEF OpFacts
  <2> QED
    BY <1>4, <2>1, <2>2, <2>3
<1> QED
  BY <1>1, <1>3, <1>5, <1>6

LEMMA StageEndsCore ==
  ASSUME ProgInv, CoreInv, StageEnds
  PROVE  CoreInv'
<1>1. /\ pc = "idle" /\ Now.op = "end" /\ <<stage, stage'>> \in Ends
      /\ Now'.op \in {"power", "rest"}
  BY StageEndsFacts
<1>2. UNCHANGED <<core, k, pc, policy, status, gate, req, locked, bypass, running>>
  BY Zenon DEF StageEnds, powerVars, clkVars, pllVars
<1>3. stage' \in {"serve", "off"} => Ready'
  <2>1. stage' \in {"serve", "off"} => Ready
    BY <1>1, Zenon DEF CoreInv, AtEnd, Ends
  <2> QED
    BY <1>2, <2>1, Zenon DEF Ready, On, ChannelsOf
<1>4. core.on => stage' \in {"serve", "off"}
  BY <1>1, Zenon DEF CoreInv, AtEnd, Ends
<1> QED
  BY <1>1, <1>2, <1>3, <1>4, Zenon DEF CoreInv, AtEnd, IsClock

\* Steps of others: nothing is taken from a core that is ready.
LEMMA OtherCore ==
  ASSUME CoreInv, UNCHANGED <<core, k, stage, ip, step, pc, req, running, bypass, gate>>,
         locked \subseteq locked', On("CPU") => On("CPU")'
  PROVE  CoreInv'
<1>1. Now' = Now /\ (AtEnd' <=> AtEnd)
  BY DEF Now, Main, AtEnd
<1>2. Ready => Ready'
  BY Zenon DEF Ready, ChannelsOf
<1> QED
  BY <1>1, <1>2, Zenon DEF CoreInv

LEMMA FollowCore ==
  ASSUME CoreInv, PowerInv, NEW d \in Domain, Follow(d), UNCHANGED bootVars
  PROVE  CoreInv'
<1>0. "CPU" \in Domain
  BY ClocksAssumption, Zenon DEF Domain
<1>1. On("CPU") => On("CPU")'
  BY <1>0, Zenon DEF Follow, On, PowerInv
<1>2. /\ UNCHANGED <<core, k, stage, ip, step, pc, req, running, bypass, gate>>
      /\ locked \subseteq locked'
  BY Zenon DEF Follow, bootVars, pllVars, progVars
<1> QED
  BY <1>1, <1>2, OtherCore

LEMMA SetPpolicyCore ==
  ASSUME ProgInv, PowerInv, GateInv, CoreInv, SetPpolicy, UNCHANGED bootVars
  PROVE  CoreInv'
<1>1. UNCHANGED <<core, k, stage, ip, step, locked>> /\ Now' = Now /\ (AtEnd' <=> AtEnd)
  BY DEF bootVars, pllVars, progVars, Now, Main, AtEnd
<1>2. pc # "idle" /\ running' = running
  BY Zenon DEF SetPpolicy, Switch, PollDone, PollTimeout, SwitchOff, PollOff, Settle, Gate
<1>3. Now.op # "core" /\ ~AtEnd
  BY <1>2, Zenon DEF CoreInv
<1>4. req.dom \in Domain /\ req.want \in States
  BY <1>2, Zenon DEF PowerInv
<1>5. Mask \cap ChannelsOf("CPU") = {}
  BY <1>4, ClocksAssumption, Zenon DEF Mask, Dom
<1>6. stage \in {"serve", "off"} => Ready'
  <2> SUFFICES ASSUME stage \in {"serve", "off"} PROVE Ready'
    OBVIOUS
  <2>1. Ready
    BY Zenon DEF CoreInv
  <2>2. CASE req.dom = "CPU"
    <3>1. stage = "off" /\ req.want = "ON" /\ policy["CPU"] = "ON"
      BY <1>2, <2>1, <2>2, PowerDomainAssumption, ClocksAssumption DEF GateInv, Ready, On
    <3>2. ret = "ok" /\ pc \notin {"switch", "late", "poll off"}
      <4>1. req.dom \notin Service
        BY <2>2, PowerDomainAssumption, ClocksAssumption
      <4>2. ret = "ok"
        BY <1>2, <4>1, Zenon DEF PowerInv
      <4> QED
        BY <2>2, <3>1, <4>2, Zenon DEF PowerInv
    <3>3. UNCHANGED <<policy, status>> /\ bypass' \subseteq bypass /\ "CPU" \in gate'
      <4>1. Dom \notin Service /\ "CPU" \in gate
        BY <2>1, <2>2, PowerDomainAssumption, ClocksAssumption, SMTT(40) DEF Dom, Ready
      <4>2. PollDone \/ Settle \/ Gate
        BY <3>2, <4>1, Zenon DEF SetPpolicy, Switch, PollTimeout, SwitchOff, PollOff
      <4> QED
        BY <3>1, <4>1, <4>2, Zenon DEF PollDone, Settle, Gate, SyncAndDisableBp
    <3> QED
      BY <1>1, <1>2, <2>1, <3>3, Zenon DEF Ready, On, ChannelsOf
  <2>3. CASE req.dom # "CPU"
    <3>1. On("CPU")' /\ "CPU" \in gate'
      <4>1. /\ policy'["CPU"] = policy["CPU"] /\ status' = status
            /\ "CPU" \in gate => "CPU" \in gate'
        <5>1. CASE Switch
          BY <1>4, <2>3, <5>1, SMTT(40) DEF Switch, Dom, PowerInv
        <5>2. CASE SwitchOff
          <6>1. policy' = [policy EXCEPT ![req.dom] = "OFF"]
            BY <5>2, Zenon DEF SwitchOff, Dom
          <6>2. policy'["CPU"] = policy["CPU"]
            <7>1. "CPU" \in Domain /\ policy \in [Domain -> States]
              BY ClocksAssumption, Zenon DEF PowerInv, Domain
            <7> QED
              BY <2>3, <6>1, <7>1
          <6> QED
            BY <5>2, <6>2, Zenon DEF SwitchOff
        <5>3. CASE PollDone \/ PollTimeout \/ PollOff \/ Settle
          BY <5>3, Zenon DEF PollDone, PollTimeout, PollOff, Settle
        <5>4. CASE Gate
          BY <2>3, <5>4, Zenon DEF Gate, Dom
        <5> QED
          BY <5>1, <5>2, <5>3, <5>4, Zenon DEF SetPpolicy
      <4> QED
        BY <2>1, <4>1, Zenon DEF Ready, On
    <3>2. bypass' \subseteq bypass \cup Mask
      BY Zenon DEF SetPpolicy, Switch, PollDone, PollTimeout, SwitchOff, PollOff, Settle, Gate, SyncAndDisableBp, EnableBp
    <3> QED
      BY <1>1, <1>2, <1>5, <2>1, <3>1, <3>2, Zenon DEF Ready, ChannelsOf
  <2> QED
    BY <2>2, <2>3
<1>7. IsClock(Now, "CPU") /\ pc' = "idle" => On("CPU")' /\ "CPU" \in gate'
  <2> SUFFICES ASSUME IsClock(Now, "CPU"), pc' = "idle" PROVE On("CPU")' /\ "CPU" \in gate'
    OBVIOUS
  <2>1. req.dom = "CPU" /\ req.want = "ON"
    BY <1>2, Zenon DEF CoreInv
  <2>2. Gate
    BY Zenon DEF SetPpolicy, Switch, PollDone, PollTimeout, SwitchOff, PollOff, Settle
  <2>3. pc = "gate" /\ ret = "ok"
    BY <1>2, <2>1, <2>2, PowerDomainAssumption, ClocksAssumption, SMTT(40) DEF PowerInv, Gate
  <2>4. policy["CPU"] = "ON" /\ status["CPU"] = "ON"
    BY <1>4, <2>1, <2>3, Zenon DEF PowerInv, ComingUp, States
  <2> QED
    BY <2>1, <2>2, <2>3, <2>4, Zenon DEF Gate, Dom, On
<1>8. IsClock(Now, "CPU") /\ pc' # "idle" => req'.dom = "CPU" /\ req'.want = "ON"
  BY <1>2, Zenon DEF CoreInv, SetPpolicy, Switch, PollDone, PollTimeout, SwitchOff, PollOff, Settle, Gate
<1> QED
  BY <1>1, <1>2, <1>3, <1>6, <1>7, <1>8, Zenon DEF CoreInv

LEMMA RequestCore ==
  ASSUME ProgInv, CoreInv, stage = "serve", UNCHANGED bootVars,
         CheckSupport \/ \E d \in Service, want \in States : SubsystemSetPower(d, want)
  PROVE  CoreInv'
<1>1. /\ UNCHANGED <<core, k, stage, ip, step, locked, running, bypass, gate, policy, status>>
      /\ Now' = Now
  BY DEF bootVars, pllVars, progVars, Now, Main, CheckSupport, SubsystemSetPower, Call
<1>2. Now.op = "rest"
  BY NowFacts DEF Resting
<1>3. Ready /\ Ready'
  BY <1>1, Zenon DEF CoreInv, Ready, On, ChannelsOf
<1> QED
  BY <1>1, <1>2, <1>3, Zenon DEF CoreInv, AtEnd, IsClock
-----------------------------------------------------------------------------
(***************************************************************************)
(* The invariant, and the steps that preserve it.                          *)
(***************************************************************************)
ClocksInv == ProgInv /\ PowerInv /\ GateInv /\ AnswerInv /\ BypassInv /\ CoreInv

Within ==
  \/ SetClock \/ PllReady \/ SetDivider \/ OtpSlow \/ OtpOpen \/ OtpClose \/ OtpRestore
  \/ ClusterOn \/ EntryAddress
Ending == GateAll \/ EndBypass \/ Wdt0HwEnable \/ OtpCached \/ OtpDone \/ CoreOn
Failing == PllTimeout \/ DividerTimeout \/ OtpTimeout

LEMMA WithinFacts ==
  ASSUME ProgInv, Within
  PROVE  /\ ProgInv' /\ pc = "idle" /\ Now.op \in {"clock", "otp", "core"}
         /\ UNCHANGED <<policy, status, pc, req, ret, answer, gate, stage, ip>> /\ Now' = Now
<1>1. /\ pc = "idle" /\ Now.op \in {"clock", "otp", "core"}
      /\ UNCHANGED <<policy, status, pc, req, ret, answer, gate, stage, ip>>
  BY Zenon DEF Within, SetClock, PllReady, SetDivider, OtpSlow, OtpOpen, OtpClose, OtpRestore,
         ClusterOn, EntryAddress, At, Goto, powerVars, clkVars
<1>2. ProgInv' /\ Now' = Now
  BY <1>1, Zenon DEF ProgInv, Now, Main
<1> QED
  BY <1>1, <1>2, Zenon

LEMMA EndingFacts ==
  ASSUME ProgInv, Ending
  PROVE  /\ ProgInv' /\ pc = "idle" /\ Now.op \in {"gate", "clock", "wdt", "otp", "core"}
         /\ UNCHANGED <<policy, status, pc, req, ret, answer, stage>> /\ ip' = ip + 1
<1>1. /\ pc = "idle" /\ Now.op \in {"gate", "clock", "wdt", "otp", "core"}
      /\ UNCHANGED <<policy, status, pc, req, ret, answer, stage>> /\ ip' = ip + 1
  BY DEF Ending, GateAll, EndBypass, Wdt0HwEnable, OtpCached, OtpDone, CoreOn, At, Done, powerVars
<1>2. ProgInv'
  BY <1>1, Advance DEF OpNames
<1> QED
  BY <1>1, <1>2, Zenon

LEMMA FailingFacts ==
  ASSUME ProgInv, Failing
  PROVE  /\ ProgInv' /\ pc = "idle" /\ Now.op \in {"clock", "otp"}
         /\ UNCHANGED <<policy, status, pc, req, ret, answer, gate, bypass, core, k>>
         /\ \/ stage' = "stopped" /\ ip' = 1
            \/ ~Now.must /\ stage' = stage /\ ip' = ip + 1
<1>1. /\ pc = "idle" /\ Now.op \in {"clock", "otp"} /\ Fails
      /\ UNCHANGED <<policy, status, pc, req, ret, answer, gate, bypass, core, k>>
  BY Zenon DEF Failing, PllTimeout, DividerTimeout, OtpTimeout, At, powerVars, clkVars
<1>2. \/ stage' = "stopped" /\ ip' = 1
      \/ ~Now.must /\ stage' = stage /\ ip' = ip + 1
  BY <1>1 DEF Fails
<1>3. ProgInv'
  <2>1. CASE stage' = "stopped" /\ ip' = 1
    BY <2>1, Enters DEF Resting
  <2>2. CASE stage' = stage /\ ip' = ip + 1
    BY <1>1, <2>2, Advance DEF OpNames
  <2> QED
    BY <1>2, <2>1, <2>2
<1> QED
  BY <1>1, <1>2, <1>3, Zenon

LEMMA KeyFacts ==
  ASSUME ProgInv, CheckRecoveryImage
  PROVE  /\ ProgInv' /\ pc = "idle" /\ Now.op = "key" /\ stage = "S2" /\ ip = 9
         /\ stage' = stage /\ ((isRead /\ ip' = 10) \/ ip' = 12) /\ step = "call" /\ step' = step
         /\ UNCHANGED <<powerVars, clkVars, k, wdtFreq, otpVars, core>>
<1>1. /\ pc = "idle" /\ Now.op = "key" /\ step = "call" /\ stage' = stage /\ step' = step
      /\ (isRead /\ ip' = ip + 1) \/ ip' = ip + 3
      /\ UNCHANGED <<powerVars, clkVars, k, wdtFreq, otpVars, core>>
  BY Zenon DEF CheckRecoveryImage, At
<1>2. stage \in Stages
  BY <1>1, NowFacts, Zenon DEF ProgInv
<1>3. stage = "S2" /\ ip = 9
  BY <1>1, <1>2, NowFacts, Zenon DEF OpFacts
<1>4. (isRead /\ ip' = 10) \/ ip' = 12
  BY <1>1, <1>3
<1>5. ProgInv'
  <2>1. Prog(stage') = S2Main
    BY <1>1, <1>3 DEF Prog
  <2>2. Len(Prog(stage')) = 13
    BY <2>1, ProgS2, Zenon
  <2>3. ip' \in 1..13
    BY <1>4
  <2> QED
    BY <1>1, <1>2, <2>2, <2>3, Zenon DEF ProgInv
<1> QED
  BY <1>1, <1>3, <1>4, <1>5, Zenon

LEMMA KeyStep ==
  ASSUME ClocksInv, CheckRecoveryImage
  PROVE  ClocksInv'
<1> USE DEF ClocksInv
<1>1. /\ ProgInv' /\ pc = "idle" /\ Now.op = "key" /\ stage = "S2" /\ stage' = stage
      /\ UNCHANGED <<powerVars, clkVars, k, core>>
  BY KeyFacts, Zenon
<1>2. UNCHANGED <<policy, status, pc, req, ret, answer, gate, bypass>>
  BY <1>1, Zenon DEF powerVars, clkVars
<1>3. PowerInv'
  BY <1>2, SamePower, Zenon
<1>4. GateInv' /\ AnswerInv'
  BY <1>1, <1>2, QuietGate, Zenon DEF OpNames
<1>5. BypassInv'
  <2>1. ~InTopClock
    BY <1>1 DEF InTopClock, IsClock
  <2> QED
    BY <1>1, <1>2, <2>1, QuietBypass, Zenon DEF Stages
<1>6. CoreInv'
  <2>1. ~core.on
    BY <1>1, CoreOff, Zenon DEF OpNames
  <2>2. OpFacts("S2", Now', ip')
    <3>1. Now' = Prog("S2")[ip'] /\ ip' \in 1..Len(Prog("S2")) /\ "S2" \in Stages
      BY <1>1, MainIsProg, Zenon DEF ProgInv, Now, Stages
    <3> QED
      BY <3>1, ProgFacts, Zenon
  <2>3. Now'.op # "core" /\ ~IsClock(Now', "CPU")
    BY <2>2 DEF OpFacts, IsClock
  <2> QED
    BY <1>1, <2>1, <2>3, Zenon DEF CoreInv, AtEnd
<1> QED
  BY <1>1, <1>3, <1>4, <1>5, <1>6, Zenon

LEMMA WithinStep ==
  ASSUME ClocksInv, Within
  PROVE  ClocksInv'
<1> USE DEF ClocksInv
<1>1. /\ ProgInv' /\ pc = "idle" /\ Now.op \in {"clock", "otp", "core"}
      /\ UNCHANGED <<policy, status, pc, req, ret, answer, gate, stage, ip>> /\ Now' = Now
  BY WithinFacts, Zenon
<1>2. PowerInv'
  BY <1>1, SamePower
<1>3. GateInv' /\ AnswerInv'
  BY <1>1, SameGate, Zenon
<1>4. BypassInv'
  <2>1. CASE SetClock
    BY <2>1, SetClockBypass
  <2>2. CASE ~SetClock
    <3>1. bypass' = bypass
      BY <2>2, Zenon DEF Within, PllReady, SetDivider, OtpSlow, OtpOpen, OtpClose, OtpRestore,
                  ClusterOn, EntryAddress, clkVars
    <3>2. InTopClock => InTopClock'
      <4>1. CASE PllReady
        BY <1>1, <4>1, Zenon DEF PllReady, Goto, InTopClock
      <4>2. CASE SetDivider
        BY <1>1, <4>2, Zenon DEF SetDivider, InTopClock
      <4>3. CASE OtpSlow \/ OtpOpen \/ OtpClose \/ OtpRestore
        BY <4>3 DEF OtpSlow, OtpOpen, OtpClose, OtpRestore, At, InTopClock, IsClock
      <4>4. CASE ClusterOn \/ EntryAddress
        BY <4>4 DEF ClusterOn, EntryAddress, At, InTopClock, IsClock
      <4> QED
        BY <2>2, <4>1, <4>2, <4>3, <4>4 DEF Within
    <3> QED
      BY <1>1, <3>1, <3>2, QuietBypass, Zenon
  <2> QED
    BY <2>1, <2>2
<1>5. CoreInv'
  <2>1. CASE SetClock
    BY <2>1, SetClockCore
  <2>2. CASE PllReady
    BY <2>2, PllReadyCore
  <2>3. CASE SetDivider
    BY <2>3, SetDividerCore
  <2>4. CASE OtpSlow \/ OtpOpen \/ OtpClose \/ OtpRestore
    <3>1. Now.op = "otp" /\ UNCHANGED <<core, k>>
      BY <2>4 DEF OtpSlow, OtpOpen, OtpClose, OtpRestore, At
    <3>2. k' \in Nat /\ ~IsClock(Now, "CPU")
      BY <3>1, Zenon DEF CoreInv, IsClock
    <3> QED
      BY <1>1, <3>1, <3>2, StayCore, Zenon
  <2>5. CASE ClusterOn \/ EntryAddress
    BY <2>5, CoreSteps
  <2> QED
    BY <2>1, <2>2, <2>3, <2>4, <2>5 DEF Within
<1> QED
  BY <1>1, <1>2, <1>3, <1>4, <1>5

LEMMA EndingStep ==
  ASSUME ClocksInv, Ending
  PROVE  ClocksInv'
<1> USE DEF ClocksInv
<1>1. /\ ProgInv' /\ pc = "idle" /\ Now.op \in {"gate", "clock", "wdt", "otp", "core"}
      /\ UNCHANGED <<policy, status, pc, req, ret, answer, stage>> /\ ip' = ip + 1
  BY EndingFacts, Zenon
<1>2. PowerInv'
  BY <1>1, SamePower, Zenon
<1>3. GateInv' /\ AnswerInv'
  <2>1. CASE GateAll
    BY <2>1, GateAllGate
  <2>2. CASE ~GateAll
    <3>1. gate' = gate
      BY <2>2 DEF Ending, EndBypass, Wdt0HwEnable, OtpCached, OtpDone, CoreOn, clkVars
    <3> QED
      BY <1>1, <3>1, QuietGate, Zenon DEF OpNames
  <2> QED
    BY <2>1, <2>2
<1>4. BypassInv'
  <2>1. CASE EndBypass
    BY <2>1, EndBypassBypass
  <2>2. CASE ~EndBypass
    <3>1. bypass' = bypass /\ Now.op # "clock"
      BY <2>2 DEF Ending, GateAll, Wdt0HwEnable, OtpCached, OtpDone, CoreOn, clkVars, At
    <3>2. ~InTopClock
      BY <3>1 DEF InTopClock, IsClock
    <3> QED
      BY <1>1, <3>1, <3>2, QuietBypass, Zenon
  <2> QED
    BY <2>1, <2>2
<1>5. CoreInv'
  <2>1. CASE EndBypass
    BY <2>1, EndBypassCore
  <2>2. CASE CoreOn
    BY <2>2, CoreSteps
  <2>3. CASE GateAll \/ Wdt0HwEnable \/ OtpCached \/ OtpDone
    <3>1. Now.op \in {"gate", "wdt", "otp"} /\ UNCHANGED <<core, k>>
      BY <2>3, Zenon DEF GateAll, Wdt0HwEnable, OtpCached, OtpDone, At
    <3>2. k' \in Nat /\ ~IsClock(Now, "CPU")
      BY <3>1, Zenon DEF CoreInv, IsClock
    <3> QED
      BY <1>1, <3>1, <3>2, LeaveCore, Zenon
  <2> QED
    BY <2>1, <2>2, <2>3 DEF Ending
<1> QED
  BY <1>1, <1>2, <1>3, <1>4, <1>5, Zenon

LEMMA FailingStep ==
  ASSUME ClocksInv, Failing
  PROVE  ClocksInv'
<1> USE DEF ClocksInv
<1>1. /\ ProgInv' /\ pc = "idle" /\ Now.op \in {"clock", "otp"}
      /\ UNCHANGED <<policy, status, pc, req, ret, answer, gate, bypass, core, k>>
      /\ \/ stage' = "stopped" /\ ip' = 1
         \/ ~Now.must /\ stage' = stage /\ ip' = ip + 1
  BY FailingFacts, Zenon
<1>2. PowerInv'
  BY <1>1, SamePower, Zenon
<1>3. GateInv' /\ AnswerInv'
  BY <1>1, QuietGate, Zenon DEF OpNames
<1>4. stage \in Stages
  BY <1>1, CoreOff, Zenon DEF OpNames
<1>5. ~Now.must => ~IsClock(Now, "TOP") /\ ~IsClock(Now, "CPU")
  BY <1>4, NowFacts, Zenon DEF OpFacts, IsClock
<1>6. BypassInv'
  <2>1. stage' \in Stages \cup {"serve"} => stage \in Stages \cup {"serve"}
    BY <1>4
  <2>2. InTopClock => stage' \notin Stages \cup {"serve"}
    BY <1>1, <1>5, Zenon DEF InTopClock, Stages
  <2> QED
    BY <1>1, <2>1, <2>2, QuietBypass, Zenon
<1>7. CoreInv'
  <2>1. CASE stage' = "stopped" /\ ip' = 1
    BY <1>1, <2>1, StopCore, Zenon DEF OpNames
  <2>2. CASE ~Now.must /\ stage' = stage /\ ip' = ip + 1
    <3>1. k' \in Nat
      BY <1>1, Zenon DEF CoreInv
    <3> QED
      BY <1>1, <1>5, <2>2, <3>1, LeaveCore, Zenon
  <2> QED
    BY <1>1, <2>1, <2>2, Zenon
<1> QED
  BY <1>1, <1>2, <1>3, <1>6, <1>7, Zenon

LEMMA PowerStep ==
  ASSUME ClocksInv, Power
  PROVE  ClocksInv'
<1> USE DEF ClocksInv
<1>1. Now.op = "power" /\ stage' = stage /\ ip' = ip + 1
  BY Zenon DEF Power, At, Done
<1>2. ProgInv'
  BY <1>1, Advance DEF OpNames
<1>3. GateInv' /\ AnswerInv' /\ Now.gen \in Boot /\ Call(Now.gen, "ON")
  BY PowerGate
<1>4. PowerInv'
  <2>1. Now.gen \in Domain /\ "ON" \in States
    BY <1>3 DEF Domain, States
  <2> QED
    BY <1>3, <2>1, CallPower
<1>5. BypassInv' /\ CoreInv'
  BY PowerBypass, PowerCore
<1> QED
  BY <1>2, <1>3, <1>4, <1>5, Zenon

LEMMA StageEndsStep ==
  ASSUME ClocksInv, StageEnds
  PROVE  ClocksInv'
<1> USE DEF ClocksInv
<1>1. /\ pc = "idle" /\ Now.op = "end" /\ ip' = 1 /\ <<stage, stage'>> \in Ends /\ ProgInv'
  BY StageEndsFacts, Zenon
<1>2. UNCHANGED <<policy, status, pc, req, ret, answer, gate, bypass>>
  BY Zenon DEF StageEnds, powerVars, clkVars
<1>3. PowerInv'
  BY <1>2, SamePower
<1>4. GateInv' /\ AnswerInv'
  BY <1>1, <1>2, QuietGate, Zenon DEF OpNames
<1>5. BypassInv'
  <2>1. stage \in Stages /\ ~InTopClock
    BY <1>1 DEF Ends, Stages, InTopClock, IsClock
  <2> QED
    BY <1>1, <1>2, <2>1, QuietBypass, Zenon
<1>6. CoreInv'
  BY StageEndsCore
<1> QED
  BY <1>1, <1>3, <1>4, <1>5, <1>6, Zenon

LEMMA ServiceStep ==
  ASSUME ClocksInv, UNCHANGED bootVars,
         \/ SetPpolicy
         \/ (\E d \in Domain : Follow(d)) \/ CounterWraps
         \/ stage = "serve" /\ (CheckSupport \/ \E d \in Service, want \in States : SubsystemSetPower(d, want))
  PROVE  ClocksInv'
<1> USE DEF ClocksInv
<1>1. UNCHANGED <<stage, ip, step>>
  BY Zenon DEF bootVars, progVars
<1>2. ProgInv'
  BY <1>1, Zenon DEF ProgInv
<1>3. CASE SetPpolicy
  BY <1>1, <1>2, <1>3, SetPpolicyPower, SetPpolicyGate, SetPpolicyBypass, SetPpolicyCore, Zenon
<1>4. CASE \E d \in Domain : Follow(d)
  <2>1. PICK d \in Domain : Follow(d)
    BY <1>4, Zenon
  <2>2. UNCHANGED <<pc, req, running, bypass>>
    BY <2>1, Zenon DEF Follow
  <2> QED
    BY <1>1, <1>2, <2>1, <2>2, FollowPower, FollowGate, FollowCore, SameBypass, Zenon
<1>5. CASE CounterWraps
  <2>1. UNCHANGED <<policy, status, pc, req, ret, answer, gate, running, bypass, core, k, locked>>
    BY <1>5, Zenon DEF CounterWraps, bootVars, pllVars, progVars
  <2>2. On("CPU") => On("CPU")'
    BY <2>1, Zenon DEF On
  <2> QED
    BY <1>1, <1>2, <2>1, <2>2, SamePower, SameGate, SameBypass, OtherCore, Zenon
<1>6. CASE stage = "serve" /\ (CheckSupport \/ \E d \in Service, want \in States : SubsystemSetPower(d, want))
  <2>1. PowerInv'
    <3>1. CASE CheckSupport
      BY <3>1, SamePower, Zenon DEF CheckSupport
    <3>2. CASE \E d \in Service, want \in States : SubsystemSetPower(d, want)
      <4>1. PICK d \in Service, want \in States : SubsystemSetPower(d, want)
        BY <3>2
      <4>2. d \in Domain /\ Call(d, want)
        BY <4>1 DEF SubsystemSetPower, Domain
      <4> QED
        BY <4>2, CallPower, Zenon
    <3> QED
      BY <1>6, <3>1, <3>2
  <2>2. GateInv' /\ AnswerInv'
    BY <1>1, <1>6, RequestGate, Zenon
  <2>3. BypassInv' /\ CoreInv'
    BY <1>1, <1>6, RequestBypass, RequestCore, Zenon
  <2> QED
    BY <1>2, <2>1, <2>2, <2>3, Zenon
<1> QED
  BY <1>3, <1>4, <1>5, <1>6, Zenon

LEMMA LockStep ==
  ASSUME ClocksInv, NEW g \in Gens, Lock(g)
  PROVE  ClocksInv'
<1> USE DEF ClocksInv
<1>1. /\ UNCHANGED <<policy, status, pc, req, ret, answer, gate, running, bypass, stage, ip, step, k, core>>
      /\ locked \subseteq locked'
  BY Zenon DEF Lock, powerVars, progVars
<1>2. ProgInv' /\ (On("CPU") => On("CPU")')
  BY <1>1, Zenon DEF ProgInv, On
<1> QED
  BY <1>1, <1>2, SamePower, SameGate, SameBypass, OtherCore, Zenon

LEMMA StutterStep ==
  ASSUME ClocksInv, UNCHANGED vars
  PROVE  ClocksInv'
<1> USE DEF ClocksInv
<1>1. /\ UNCHANGED <<policy, status, pc, req, ret, answer, gate, running, bypass, stage, ip, step, k, core>>
      /\ locked \subseteq locked'
  BY Zenon DEF vars, powerVars, clkVars, pllVars, progVars
<1>2. ProgInv' /\ (On("CPU") => On("CPU")')
  BY <1>1, Zenon DEF ProgInv, On
<1> QED
  BY <1>1, <1>2, SamePower, SameGate, SameBypass, OtherCore, Zenon

LEMMA InitInv == Init => ClocksInv
<1> SUFFICES ASSUME Init PROVE ClocksInv
  OBVIOUS
<1>1. /\ stage \in {"S1", "XIP"} /\ ip = 1 /\ step = "call" /\ k = 1
      /\ gate = {} /\ bypass = {} /\ core = [power |-> FALSE, entry |-> FALSE, on |-> FALSE]
      /\ policy = [d \in Domain |-> "OFF"] /\ status = policy
      /\ pc = "idle" /\ req = NoReq /\ ret = "ok" /\ answer = NoAnswer
  BY Zenon DEF Init, PowerInit
<1>2. ProgInv
  <2>1. CASE stage = "S1"
    <3>1. Prog(stage) = S1Main
      BY <2>1 DEF Prog
    <3>2. Len(Prog(stage)) = 13
      BY <3>1, ProgS1, Zenon
    <3>3. stage \in Stages /\ 1 \in 1..13
      BY <2>1 DEF Stages
    <3> QED
      BY <1>1, <3>2, <3>3, Zenon DEF ProgInv
  <2>2. CASE stage = "XIP"
    <3>1. Prog(stage) = XipMain
      BY <2>2 DEF Prog
    <3>2. Len(Prog(stage)) = 16
      BY <3>1, ProgXip, Zenon
    <3>3. stage \in Stages /\ 1 \in 1..16
      BY <2>2 DEF Stages
    <3> QED
      BY <1>1, <3>2, <3>3, Zenon DEF ProgInv
  <2> QED
    BY <1>1, <2>1, <2>2, Zenon
<1>3. Now.op \in {"power", "gate"}
  BY <1>1, <1>2, NowFacts, Zenon DEF OpFacts, Stages
<1>4. PowerInv
  BY <1>1, Zenon DEF PowerInv, ComingUp, States
<1>5. GateInv /\ AnswerInv
  BY <1>1, SMTT(40) DEF GateInv, AnswerInv, AnswerTellsState, NoAnswer, NoReq, Booting
<1>6. BypassInv
  BY <1>1, Zenon DEF BypassInv, TopClear
<1>7. CoreInv
  BY <1>1, <1>3, Zenon DEF CoreInv, AtEnd, IsClock
<1> QED
  BY <1>2, <1>4, <1>5, <1>6, <1>7 DEF ClocksInv

\* One step of the system, of whichever actor.
LEMMA NextInv == ClocksInv /\ [Next]_vars => ClocksInv'
<1> SUFFICES ASSUME ClocksInv, [Next]_vars PROVE ClocksInv'
  OBVIOUS
<1>1. CASE UNCHANGED vars
  BY <1>1, StutterStep
<1>2. CASE Program
  <2>1. Power \/ StageEnds \/ CheckRecoveryImage \/ Within \/ Ending \/ Failing \/ (SetPpolicy /\ UNCHANGED bootVars)
    BY <1>2, Zenon DEF Program, Within, Ending, Failing
  <2> QED
    BY <2>1, PowerStep, StageEndsStep, KeyStep, WithinStep, EndingStep, FailingStep, ServiceStep, Zenon
<1>3. CASE \E d \in Domain : Follow(d) /\ UNCHANGED bootVars
  BY <1>3, ServiceStep, Zenon
<1>4. CASE \E g \in Gens : Lock(g)
  BY <1>4, LockStep, Zenon
<1>5. CASE \E d \in Service, want \in States :
             stage = "serve" /\ SubsystemSetPower(d, want) /\ UNCHANGED bootVars
  BY <1>5, ServiceStep, Zenon
<1>6. CASE stage = "serve" /\ CheckSupport /\ UNCHANGED bootVars
  BY <1>6, ServiceStep, Zenon
<1>7. CASE CounterWraps /\ UNCHANGED bootVars
  BY <1>7, ServiceStep, Zenon
<1> QED
  BY <1>1, <1>2, <1>3, <1>4, <1>5, <1>6, <1>7, Zenon DEF Next

\* The inductive invariant of the boot, of set_ppolicy and of the power service, from
\* the reset of the chip on.
THEOREM ClocksInvariant == Spec => []ClocksInv
<1>1. Init => ClocksInv
  BY InitInv
<1>2. ClocksInv /\ [Next]_vars => ClocksInv'
  BY NextInv
<1> QED
  BY <1>1, <1>2, PTL DEF Spec

\* top_clkgate lets a clock through only to a domain whose power is confirmed, for any
\* number of requests and whichever of them time out.
THEOREM ClockOnlyWhenPoweredInvariant == Spec => []ClockOnlyWhenPowered
<1>1. ClocksInv => ClockOnlyWhenPowered
  BY Zenon DEF ClocksInv, GateInv, ClockOnlyWhenPowered, On, Booting
<1> QED
  BY <1>1, ClocksInvariant, PTL

\* The answer of service_subsystem_set_power is true when it is given, and stays true
\* until the next request.
THEOREM AnswerTellsStateInvariant == Spec => []AnswerTellsState
<1>1. ClocksInv => AnswerTellsState
  BY Zenon DEF ClocksInv, AnswerInv
<1> QED
  BY <1>1, ClocksInvariant, PTL

\* set_ppolicy keeps the channels next to a domain in bypass for as long as the domain is
\* told to be on and is not, and leaves none in bypass.
THEOREM BypassWhileComingUpInvariant == Spec => []BypassWhileComingUp
<1>1. ClocksInv => BypassWhileComingUp
  <2> SUFFICES ASSUME ClocksInv PROVE BypassWhileComingUp
    OBVIOUS
  <2>1. stage = "serve" /\ pc = "idle" => bypass \cap ChannelsOf("TOP") = {}
    <3>1. stage = "serve" => Now.op = "rest"
      BY NowFacts DEF ClocksInv, Resting
    <3>2. stage = "serve" => ~InTopClock
      BY <3>1 DEF InTopClock, IsClock
    <3> QED
      BY <3>2, Zenon DEF ClocksInv, BypassInv, TopClear
  <2>2. \A d \in Domain : policy[d] = "ON" /\ status[d] = "OFF" => Channels[d] \cap running \subseteq bypass
    BY Zenon DEF ClocksInv, PowerInv, BypassInv, ComingUp
  <2> QED
    BY <2>1, <2>2, Zenon DEF BypassWhileComingUp
<1> QED
  BY <1>1, ClocksInvariant, PTL

\* cpu_start_arm0_core is not reached, in SBL-S3 or in SBL-XIP, before power, clock gate,
\* PLL and every channel of the processor are as the core needs them, and no later
\* request takes any of them away.
THEOREM CoreStartsReadyInvariant == Spec => []CoreStartsReady
<1>1. ClocksInv => CoreStartsReady
  BY Zenon DEF ClocksInv, CoreInv, CoreStartsReady, Ready, On
<1> QED
  BY <1>1, ClocksInvariant, PTL
=============================================================================
