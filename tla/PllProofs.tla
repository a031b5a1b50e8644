------------------------------ MODULE PllProofs ------------------------------
(***************************************************************************)
(* Proofs about the PLLs and the clocks of Clocks, for any domains,        *)
(* channels and dividers and any number of requests.  A PLL that is not    *)
(* locked is in the hands of xxx_set_clock, which has put its channels     *)
(* into bypass, or of otp_get_dump; a failure leaves the bypass as it is.  *)
(***************************************************************************)
EXTENDS ClocksProofs

PllSettings == {PllReset, PllOtp, PllOf["SERV"], PllOf["TOP"], PllOf["LSP1"], PllOf["CPU"]}
ServSettings == {PllOtp, PllOf["SERV"]}

\* service_set_clock has been through.
ServSet == stage \in {"S2", "S3", "serve", "off"} \/ (stage \in {"S1", "XIP"} /\ ip > 10)

PllType ==
  /\ pll \in [Gens -> PllSettings] /\ saved \in {PllReset} \cup ServSettings
  /\ locked \subseteq Gens /\ isRead \in BOOLEAN /\ k \in Nat \ {0}

LockInv ==
  /\ PllChangesUnderBypass
  /\ Now.op = "clock" /\ step = "div" => Now.gen \in locked
  /\ "TOP" \notin locked /\ pll["TOP"].man
       => pc = "idle" /\ (stage = "stopped" \/ (IsClock(Now, "TOP") /\ step = "lock"))

\* In SBL-S2 and SBL-S3 only otp_get_dump touches the service PLL, with the setting
\* to restore at hand.
ServInv ==
  /\ ServSet => pll["SERV"] \in ServSettings
  /\ IsClock(Now, "SERV") /\ step # "call" => pll["SERV"] = PllOf["SERV"]
  /\ ServSet /\ "SERV" \notin locked => Now.op \in {"otp", "key"} /\ saved \in ServSettings /\ ~isRead
  /\ Now.op = "otp" /\ step # "call" => saved \in ServSettings /\ ~isRead
  /\ stage \in {"S1", "XIP"} \/ (stage \in {"S2", "S3"} /\ ip <= 7) => saved = PllReset

\* The clock of the APB during a read of the OTP and otherwise, and the frequency the
\* watchdog knows.
ApbSlow == 22500
ApbFast == 99000

ApbInv ==
  /\ div \in [Channel -> Nat]
  /\ bypass \cap ChannelsOf("SERV") \subseteq Masked["SERV"]
  /\ IsClock(Now, "SERV") /\ step = "div" =>
       \A i \in 1..Len(Table["SERV"]) : i < k /\ Table["SERV"][i].ch = "APB" => div["APB"] = 6
  /\ ServSet => div["APB"] = 6 /\ "APB" \notin bypass
  /\ wdtFreq # 0 => /\ div["APB"] = 6 /\ "APB" \notin bypass /\ pll["SERV"] \in ServSettings
                    /\ stage \in {"S1", "XIP"} => ip > 10
  /\ wdtFreq \in {0, ApbSlow, ApbFast}
  /\ wdtFreq \notin {0, ApbFast} => pll["SERV"] = PllOtp /\ saved \in {PllReset, PllOtp}

OtpInv ==
  /\ Now.op = "otp" /\ step \in {"slow", "read"} => pll["SERV"] = PllOtp
  /\ dctrl => Now.op = "otp" /\ step = "read" /\ "SERV" \in locked
  /\ ServSet /\ ~otpFailed =>
       IF Now.op = "otp" /\ step \in {"slow", "read", "close"}
       THEN saved = PllOf["SERV"] ELSE pll["SERV"] = PllOf["SERV"]

PllInv == PllType /\ LockInv /\ ServInv /\ ApbInv /\ OtpInv

LEMMA Settings ==
  /\ ~PllReset.man /\ PllOtp.man /\ PllOf["SERV"].man
  /\ \A g \in {"SERV", "TOP", "LSP1", "CPU"} : PllOf[g].man
  /\ PllOtp # PllOf["SERV"] /\ PllReset \notin ServSettings
  /\ \A c \in ServSettings : c.man /\ Pll(c.nf, c.nr, c.od) = c
<1>1. /\ ~PllReset.man /\ PllOtp.man /\ PllOf["SERV"].man
      /\ PllOtp # PllOf["SERV"] /\ PllReset \notin ServSettings
  BY DEF PllReset, PllOtp, PllOf, Pll, ServSettings
<1>2. \A g \in {"SERV", "TOP", "LSP1", "CPU"} : PllOf[g].man
  BY DEF PllOf, Pll
<1>3. \A c \in ServSettings : c.man /\ Pll(c.nf, c.nr, c.od) = c
  <2>1. ASSUME NEW a, NEW b, NEW d, NEW c, c = Pll(a, b, d)
        PROVE  c.man /\ Pll(c.nf, c.nr, c.od) = c
    <3>1. c.man /\ c.nf = a /\ c.nr = b /\ c.od = d
      BY <2>1 DEF Pll
    <3> QED
      BY <2>1, <3>1
  <2>2. PllOtp = Pll(59, 0, 11) /\ PllOf["SERV"] = Pll(131, 0, 5)
    BY DEF PllOtp, PllOf
  <2>3. \A a, b, d, c : c = Pll(a, b, d) => c.man /\ Pll(c.nf, c.nr, c.od) = c
    BY <2>1, Zenon
  <2> HIDE DEF Pll
  <2>4. \A c : c = PllOtp \/ c = PllOf["SERV"] => c.man /\ Pll(c.nf, c.nr, c.od) = c
    BY <2>2, <2>3
  <2> QED
    BY <2>4, Zenon DEF ServSettings
<1> QED
  BY <1>1, <1>2, <1>3, Zenon

LEMMA ApbGen ==
  /\ GenOf("APB") = "SERV" /\ "APB" \in Channel
  /\ \A g \in Gens : "APB" \in ChannelsOf(g) => g = "SERV"
<1>1. "SERV" \in Gens /\ "APB" \in ChannelsOf("SERV")
  BY ClocksAssumption, ApbAssumption
<1>2. \A g \in Gens : "APB" \in ChannelsOf(g) => g = "SERV"
  BY <1>1, ClocksAssumption, Zenon
<1> QED
  BY <1>1, <1>2 DEF GenOf, Channel

LEMMA OtherChannel ==
  ASSUME NEW f \in Gens, NEW g \in Gens, f # g, NEW ch \in ChannelsOf(f)
  PROVE  ch \notin Masked[g]
<1>1. ChannelsOf(f) \cap ChannelsOf(g) = {} /\ Masked[g] \subseteq ChannelsOf(g)
  BY ClocksAssumption, Zenon
<1> QED
  BY <1>1

LEMMA ServFreq ==
  /\ PllOut(PllOf["SERV"]) = 594000 /\ PllGetFreq(PllOf["SERV"]) = 594000
  /\ PllOut(PllOtp) = 135000 /\ PllGetFreq(PllOtp) = 135000
BY DEF PllOut, PllGetFreq, PllOf, PllOtp, Pll, XTI

LEMMA ApbRate ==
  ASSUME pll["SERV"] \in ServSettings, div["APB"] = 6, "APB" \notin bypass
  PROVE  /\ Rate("APB") = GetClock("APB")
         /\ pll["SERV"] = PllOtp => Rate("APB") = ApbSlow
         /\ pll["SERV"] = PllOf["SERV"] => Rate("APB") = ApbFast
<1>1. Rate("APB") = PllOut(pll["SERV"]) \div 6 /\ GetClock("APB") = PllGetFreq(pll["SERV"]) \div 6
  BY ApbGen DEF Rate, GetClock
<1>2. 594000 \div 6 = 99000 /\ 135000 \div 6 = 22500
  OBVIOUS
<1> QED
  BY <1>1, <1>2, ServFreq DEF ServSettings, ApbSlow, ApbFast

\* Where the operations on the service PLL are in the programs.
ServFacts(s, o, i) ==
  /\ s \in {"S1", "XIP"} => /\ IsClock(o, "SERV") <=> i = 10
                            /\ o.op \in {"wdt", "end"} => i > 10
                            /\ o.op # "otp"
  /\ s \in {"S2", "S3"} => /\ ~IsClock(o, "SERV")
                           /\ o.op = "wdt" => i <= 7
                           /\ o.op = "otp" <=> i = 8 \/ (s = "S2" /\ i = 12)
  /\ o.op = "key" <=> s = "S2" /\ i = 9
  /\ IsClock(o, "SERV") \/ IsClock(o, "TOP") => o.must
  /\ o.op = "otp" /\ ~o.must => s = "S2" /\ i = 8

LEMMA ServS1 == \A i \in 1..13 : ServFacts("S1", S1Main[i], i)
<1>1. /\ S1Main[10].op = "clock" /\ S1Main[10].gen = "SERV" /\ S1Main[10].must
      /\ S1Main[12].must
  BY DEF S1Main, Uart0, Lsp1Enable, Op
<1>2. \A i \in 1..13 : S1Main[i].op \notin {"otp", "key"} /\ (S1Main[i].op \in {"wdt", "end"} => i > 10)
  BY DEF S1Main, Uart0, Lsp1Enable, Op
<1>3. \A i \in 1..13 : S1Main[i].gen = "SERV" /\ S1Main[i].op = "clock" => i = 10
  BY DEF S1Main, Uart0, Lsp1Enable, Op
<1>4. \A i \in 1..13 : S1Main[i].gen = "TOP" /\ S1Main[i].op = "clock" => i = 12
  BY DEF S1Main, Uart0, Lsp1Enable, Op
<1> QED
  BY <1>1, <1>2, <1>3, <1>4, Zenon DEF ServFacts, IsClock

LEMMA ServS2 == \A i \in 1..13 : ServFacts("S2", S2Main[i], i)
<1>1. S2Main[8].op = "otp" /\ S2Main[12].op = "otp" /\ S2Main[12].must /\ S2Main[9].op = "key"
  BY DEF S2Main, Uart0, Lsp1Enable, Op
<1>2. \A i \in 1..13 : S2Main[i].op = "otp" => i = 8 \/ i = 12
  BY DEF S2Main, Uart0, Lsp1Enable, Op
<1>3. \A i \in 1..13 : (S2Main[i].op = "key" => i = 9) /\ (S2Main[i].op = "wdt" => i <= 7)
  BY DEF S2Main, Uart0, Lsp1Enable, Op
<1>4. \A i \in 1..13 : S2Main[i].op = "clock" => S2Main[i].gen = "LSP1"
  BY DEF S2Main, Uart0, Lsp1Enable, Op
<1>5. \A i \in 1..13 : S2Main[i].op = "otp" /\ ~S2Main[i].must => i = 8
  BY <1>1, <1>2, Zenon
<1>6. ASSUME NEW o, NEW i, o.op = "clock" => o.gen = "LSP1", o.op = "otp" => i = 8 \/ i = 12,
             i = 8 \/ i = 12 => o.op = "otp", o.op = "key" => i = 9, i = 9 => o.op = "key",
             o.op = "otp" /\ ~o.must => i = 8, o.op = "wdt" => i <= 7
      PROVE  ServFacts("S2", o, i)
  BY <1>6 DEF ServFacts, IsClock
<1> TAKE i \in 1..13
<1>7. (i = 8 \/ i = 12 => S2Main[i].op = "otp") /\ (i = 9 => S2Main[i].op = "key")
  BY <1>1, Zenon
<1> QED
  BY <1>2, <1>3, <1>4, <1>5, <1>6, <1>7

LEMMA ServS3 == \A i \in 1..12 : ServFacts("S3", S3Main[i], i)
<1>1. S3Main[8].op = "otp" /\ S3Main[8].must
  BY DEF S3Main, CpuSetClock, Uart0, Lsp1Enable, Op
<1>2. \A i \in 1..12 : S3Main[i].op # "key" /\ (S3Main[i].op = "otp" => i = 8)
  BY DEF S3Main, CpuSetClock, Uart0, Lsp1Enable, Op
<1>3. \A i \in 1..12 : S3Main[i].op = "wdt" => i <= 7
  BY DEF S3Main, CpuSetClock, Uart0, Lsp1Enable, Op
<1>4. \A i \in 1..12 : S3Main[i].op = "clock" => S3Main[i].gen \in {"LSP1", "CPU"}
  BY DEF S3Main, CpuSetClock, Uart0, Lsp1Enable, Op
<1>5. \A i \in 1..12 : S3Main[i].op = "otp" <=> i = 8
  BY <1>1, <1>2, Zenon
<1>6. ASSUME NEW o, NEW i, o.op = "clock" => o.gen \in {"LSP1", "CPU"}, o.op = "otp" <=> i = 8,
             o.op # "key", o.op = "otp" => o.must, o.op = "wdt" => i <= 7
      PROVE  ServFacts("S3", o, i)
  BY <1>6 DEF ServFacts, IsClock
<1> QED
  BY <1>1, <1>2, <1>3, <1>4, <1>5, <1>6, Zenon

LEMMA ServXip == \A i \in 1..16 : ServFacts("XIP", XipMain[i], i)
<1>1. /\ XipMain[10].op = "clock" /\ XipMain[10].gen = "SERV" /\ XipMain[10].must
      /\ XipMain[12].must
  BY DEF XipMain, CpuSetClock, Uart0, Lsp1Enable, Op
<1>2. \A i \in 1..16 : /\ XipMain[i].op \notin {"otp", "key"} /\ (XipMain[i].op \in {"wdt", "end"} => i > 10)
  BY DEF XipMain, CpuSetClock, Uart0, Lsp1Enable, Op
<1>3. \A i \in 1..16 : XipMain[i].gen = "SERV" /\ XipMain[i].op = "clock" => i = 10
  BY DEF XipMain, CpuSetClock, Uart0, Lsp1Enable, Op
<1>4. \A i \in 1..16 : XipMain[i].gen = "TOP" /\ XipMain[i].op = "clock" => i = 12
  BY DEF XipMain, CpuSetClock, Uart0, Lsp1Enable, Op
<1> QED
  BY <1>1, <1>2, <1>3, <1>4, Zenon DEF ServFacts, IsClock

LEMMA PlaceOf ==
  ASSUME NEW s \in Stages, NEW i \in 1..Len(Prog(s))
  PROVE  ServFacts(s, Prog(s)[i], i)
<1>1. CASE s = "S1"
  <2>1. Prog(s) = S1Main /\ Len(S1Main) = 13
    BY <1>1, ProgS1 DEF Prog
  <2> QED
    BY <1>1, <2>1, ServS1, Zenon
<1>2. CASE s = "S2"
  <2>1. Prog(s) = S2Main /\ Len(S2Main) = 13
    BY <1>2, ProgS2, Zenon DEF Prog
  <2> QED
    BY <1>2, <2>1, ServS2, Zenon
<1>3. CASE s = "S3"
  <2>1. Prog(s) = S3Main /\ Len(S3Main) = 12
    BY <1>3, ProgS3, Zenon DEF Prog
  <2> QED
    BY <1>3, <2>1, ServS3, Zenon
<1>4. CASE s = "XIP"
  <2>1. Prog(s) = XipMain /\ Len(XipMain) = 16
    BY <1>4, ProgXip, Zenon DEF Prog
  <2> QED
    BY <1>4, <2>1, ServXip, Zenon
<1> QED
  BY <1>1, <1>2, <1>3, <1>4 DEF Stages

LEMMA Place ==
  ASSUME ProgInv, stage \in Stages
  PROVE  ServFacts(stage, Now, ip) /\ ip \in Nat
<1>1. ip \in 1..Len(Prog(stage)) /\ Now = Prog(stage)[ip]
  BY MainIsProg, Zenon DEF ProgInv, Now
<1>2. ServFacts(stage, Now, ip)
  BY <1>1, PlaceOf, Zenon
<1> QED
  BY <1>1, <1>2

LEMMA PlaceNext ==
  ASSUME ProgInv', stage' \in Stages
  PROVE  ServFacts(stage', Now', ip')
<1>1. ip' \in 1..Len(Prog(stage')) /\ Now' = Prog(stage')[ip']
  BY MainIsProg, Zenon DEF ProgInv, Now
<1> QED
  BY <1>1, PlaceOf, Zenon

\* Before otp_get_dump and after it the service PLL is locked.
LEMMA ServLocked ==
  ASSUME ProgInv, ServInv, Now.op \notin {"otp", "key"}, ServSet
  PROVE  "SERV" \in locked
BY DEF ServInv

\* A channel less does not matter.
LEMMA SameBp ==
  ASSUME PllInv, UNCHANGED <<pll, locked, bypass, saved>>, running' \subseteq running
  PROVE  PllChangesUnderBypass'
BY DEF PllInv, LockInv, PllChangesUnderBypass


\* The step to the next operation, with the clocks as they are.
LEMMA MoveOn ==
  ASSUME ClocksInv, PllInv, pc = "idle", Now.op \in OpNames \ {"end", "key"}, ~IsClock(Now, "SERV"),
         UNCHANGED <<pll, locked, saved, wdtFreq, dctrl, k>>,
         bypass' \subseteq bypass, PllChangesUnderBypass',
         div' \in [Channel -> Nat], div'["APB"] = div["APB"],
         IsClock(Now, "TOP") => "TOP" \in locked,
         Now.op = "otp" =>
           \/ isRead' = TRUE /\ "SERV" \in locked /\ UNCHANGED otpFailed /\ step \in {"call", "restore"}
           \/ ~Now.must /\ otpFailed' = TRUE /\ UNCHANGED isRead /\ step # "call",
         Now.op # "otp" => UNCHANGED <<isRead, otpFailed>>,
         stage' = stage, ip' = ip + 1, step' = "call", ~dctrl
  PROVE  PllInv'
<1>1. stage \in Stages /\ ServFacts(stage, Now, ip) /\ ip \in Nat
  BY NowFacts, Place, Zenon DEF ClocksInv, ProgInv, OpNames
<1>2. ServFacts(stage, Now', ip + 1)
  <2>1. ProgInv'
    BY Advance DEF ClocksInv
  <2> QED
    BY <1>1, <2>1, PlaceNext
<1>3. PllType'
  BY Zenon DEF PllInv, PllType
<1>4. LockInv'
  <2>1. "TOP" \in locked \/ ~pll["TOP"].man
    BY <1>1 DEF PllInv, LockInv, Stages
  <2> QED
    BY <2>1 DEF LockInv
<1>5. ServSet' <=> ServSet
  BY <1>1 DEF ServSet, ServFacts, Stages
<1>6. ServInv'
  <2>1. ServSet' /\ "SERV" \notin locked' => Now'.op \in {"otp", "key"} /\ saved' \in ServSettings /\ ~isRead'
    <3> SUFFICES ASSUME ServSet', "SERV" \notin locked'
                 PROVE  Now'.op \in {"otp", "key"} /\ saved' \in ServSettings /\ ~isRead'
      BY Zenon
    <3>1. Now.op = "otp" /\ saved \in ServSettings /\ ~isRead
      BY <1>5 DEF PllInv, ServInv
    <3>2. ~Now.must /\ isRead' = isRead
      BY <3>1
    <3> QED
      BY <1>1, <1>2, <3>1, <3>2 DEF ServFacts
  <2>2. stage' \in {"S1", "XIP"} \/ (stage' \in {"S2", "S3"} /\ ip' <= 7) => saved' = PllReset
    BY <1>1 DEF PllInv, ServInv
  <2>3. ServSet' => pll'["SERV"] \in ServSettings
    BY <1>5 DEF PllInv, ServInv
  <2> QED
    BY <2>1, <2>2, <2>3 DEF ServInv
<1>7. ApbInv'
  <2>1. ServSet' => div'["APB"] = 6 /\ "APB" \notin bypass'
    BY <1>5, Zenon DEF PllInv, ApbInv
  <2>2. wdtFreq' # 0 => /\ div'["APB"] = 6 /\ "APB" \notin bypass' /\ pll'["SERV"] \in ServSettings
                        /\ stage' \in {"S1", "XIP"} => ip' > 10
    BY <1>1 DEF PllInv, ApbInv
  <2> QED
    BY <2>1, <2>2, Zenon DEF PllInv, ApbInv
<1>8. OtpInv'
  BY <1>5, Zenon DEF PllInv, OtpInv
<1> QED
  BY <1>3, <1>4, <1>6, <1>7, <1>8 DEF PllInv

\* The failure that ends the boot, with the clocks as they are.
LEMMA StopPll ==
  ASSUME ClocksInv, PllInv, pc = "idle", UNCHANGED pc,
         UNCHANGED <<pll, locked, bypass, saved, wdtFreq, dctrl, isRead, k>>,
         div' \in [Channel -> Nat], wdtFreq # 0 => div'["APB"] = 6,
         running' \subseteq running, ~dctrl,
         stage' = "stopped", ip' = 1, step' = "call"
  PROVE  PllInv'
<1>1. Now'.op = "rest" /\ ~ServSet'
  BY MainIsProg, Rests, Zenon DEF Now, Resting, ServSet
<1>2. PllType'
  BY DEF PllInv, PllType
<1>3. LockInv'
  BY <1>1 DEF PllInv, LockInv, PllChangesUnderBypass
<1>4. ServInv'
  BY <1>1 DEF PllInv, ServInv
<1>5. ApbInv'
  BY <1>1, Zenon DEF PllInv, ApbInv, IsClock
<1>6. OtpInv'
  BY <1>1, Zenon DEF PllInv, OtpInv
<1> QED
  BY <1>2, <1>3, <1>4, <1>5, <1>6 DEF PllInv

\* Steps that stay in the operation and leave the service PLL alone.
LEMMA SetClockPll ==
  ASSUME ClocksInv, PllInv, SetClock
  PROVE  PllInv'
<1>1. /\ pc = "idle" /\ Now.op = "clock" /\ step = "call" /\ step' = "lock"
      /\ bypass' = bypass \cup (Masked[Now.gen] \cap running)
      /\ pll' = [pll EXCEPT ![Now.gen] = PllOf[Now.gen]] /\ locked' = locked \ {Now.gen}
      /\ UNCHANGED <<pc, stage, ip, div, running, saved, wdtFreq, dctrl, isRead, otpFailed, k>>
  BY Zenon DEF SetClock, At, Goto, EnableBp, SetPll, powerVars, otpVars, G
<1>2. Now' = Now
  BY <1>1, Zenon DEF Now, Main
<1>3. /\ stage \in Stages /\ ServFacts(stage, Now, ip) /\ ip \in Nat
      /\ Now.gen \in {"SERV", "TOP", "LSP1", "CPU"} /\ Now.gen \in Gens
  <2>1. stage \in Stages
    BY <1>1, NowFacts, Zenon DEF ClocksInv, ProgInv
  <2> QED
    BY <1>1, <2>1, NowFacts, Place, ClocksAssumption, Zenon DEF ClocksInv, OpFacts
<1>4. Now.gen = "SERV" => ~ServSet /\ saved = PllReset
  BY <1>1, <1>3 DEF ServFacts, IsClock, ServSet, Stages, PllInv, ServInv
<1>5. PllType'
  BY <1>1, <1>3, Zenon DEF PllInv, PllType, PllSettings
<1>6. pll \in [Gens -> PllSettings] /\ "SERV" \in Gens /\ "TOP" \in Gens /\ locked \subseteq Gens
  BY ClocksAssumption, Zenon DEF PllInv, PllType
<1>7. LockInv'
  <2>1. PllChangesUnderBypass'
    <3> SUFFICES ASSUME NEW g \in Gens \ locked', pll'[g].man, ~(g = "SERV" /\ saved'.man)
                 PROVE  running' \cap Masked[g] \subseteq bypass'
      BY Zenon DEF PllChangesUnderBypass
    <3>1. CASE g = Now.gen
      BY Zenon, <1>1, <3>1
    <3>2. CASE g # Now.gen
      <4>1. g \in Gens \ locked /\ pll[g].man /\ ~(g = "SERV" /\ saved.man)
        BY <1>1, <1>6, <3>2, Zenon
      <4> QED
        BY <1>1, <4>1, Zenon DEF PllInv, LockInv, PllChangesUnderBypass
    <3> QED
      BY <3>1, <3>2, Zenon
  <2>2. "TOP" \notin locked' /\ pll'["TOP"].man => IsClock(Now, "TOP")
    <3>1. CASE Now.gen = "TOP"
      BY <1>1, <3>1, Zenon DEF IsClock
    <3>2. CASE Now.gen # "TOP"
      BY <1>1, <1>3, <1>6, <3>2, Zenon DEF PllInv, LockInv, Stages
    <3> QED
      BY <3>1, <3>2, Zenon
  <2> QED
    BY <1>1, <1>2, <2>1, <2>2, Zenon DEF LockInv
<1>8. ServSet' <=> ServSet
  BY <1>1, Zenon DEF ServSet
<1>9. Now.gen # "SERV" => pll'["SERV"] = pll["SERV"] /\ ("SERV" \in locked' <=> "SERV" \in locked)
  BY <1>1, <1>6, Zenon
<1>10. ServInv'
  <2>1. Now.gen = "SERV" => pll'["SERV"] = PllOf["SERV"]
    BY Zenon, <1>1, <1>6
  <2> QED
    BY <1>1, <1>2, <1>4, <1>8, <1>9, <2>1, Zenon DEF PllInv, ServInv, IsClock
<1>11. ApbInv'
  <2>1. Now.gen = "SERV" => wdtFreq = 0
    BY <1>1, <1>3 DEF PllInv, ApbInv, ServFacts, IsClock, Stages
  <2>2. bypass' \cap ChannelsOf("SERV") \subseteq Masked["SERV"]
    <3>1. Now.gen # "SERV" => Masked[Now.gen] \cap ChannelsOf("SERV") = {}
      BY <1>3, <1>6, ClocksAssumption, Zenon
    <3> QED
      BY <1>1, <3>1, Zenon DEF PllInv, ApbInv
  <2>3. Now.gen # "SERV" /\ "APB" \notin bypass => "APB" \notin bypass'
    BY <1>1, <1>3, <1>6, ClocksAssumption, ApbAssumption, Zenon
  <2> QED
    BY <1>1, <1>4, <1>8, <1>9, <2>1, <2>2, <2>3, Zenon DEF PllInv, ApbInv
<1>12. OtpInv'
  BY <1>1, <1>2, <1>4, <1>8, <1>9, Zenon DEF PllInv, OtpInv
<1> QED
  BY <1>5, <1>7, <1>10, <1>11, <1>12 DEF PllInv

\* A step within an operation that leaves PLLs, channels and watchdog alone.
LEMMA StayPll ==
  ASSUME ClocksInv, PllInv, pc = "idle", Now.op \in {"clock", "otp", "core"},
         UNCHANGED <<pc, pll, locked, div, running, bypass, stage, ip, saved, wdtFreq, isRead, otpFailed>>,
         k' \in Nat \ {0}, Now' = Now,
         Now.op = "clock" => step = "lock" /\ step' = "div" /\ k' = 1 /\ Now.gen \in locked,
         Now.op = "otp" =>
           \/ step = "slow" /\ step' = "read" /\ "SERV" \in locked
           \/ step = "read" /\ step' = "close" /\ dctrl' = FALSE,
         Now.op # "otp" => UNCHANGED dctrl
  PROVE  PllInv'
<1>1. PllType'
  BY Zenon DEF PllInv, PllType
<1>2. ServSet' <=> ServSet
  BY DEF ServSet
<1>3. LockInv'
  BY Zenon DEF PllInv, LockInv, PllChangesUnderBypass, IsClock
<1>4. ServInv'
  BY <1>2, Zenon DEF PllInv, ServInv, IsClock
<1>5. ApbInv'
  <2>1. IsClock(Now, "SERV") =>
          \A i \in 1..Len(Table["SERV"]) : i < k' /\ Table["SERV"][i].ch = "APB" => div'["APB"] = 6
    BY ClocksAssumption DEF IsClock
  <2> QED
    BY <1>2, <2>1, Zenon DEF PllInv, ApbInv
<1>6. OtpInv'
  BY <1>2 DEF PllInv, OtpInv
<1> QED
  BY <1>1, <1>3, <1>4, <1>5, <1>6, Zenon DEF PllInv

LEMMA WithinPll ==
  ASSUME ClocksInv, PllInv, PllReady \/ OtpOpen \/ OtpClose \/ ClusterOn \/ EntryAddress
  PROVE  PllInv'
<1>1. pc = "idle" /\ Now' = Now /\ UNCHANGED <<pc, stage, ip>>
  BY WithinFacts, Zenon DEF Within, ClocksInv
<1>2. UNCHANGED <<pll, locked, div, running, bypass, saved, wdtFreq, isRead, otpFailed>>
  BY Zenon DEF PllReady, OtpOpen, OtpClose, ClusterOn, EntryAddress, clkVars, pllVars, otpVars
<1>3. k \in Nat \ {0}
  BY DEF PllInv, PllType
<1>4. CASE PllReady
  <2>1. Now.op = "clock" /\ step = "lock" /\ step' = "div" /\ k' = 1 /\ Now.gen \in locked /\ UNCHANGED dctrl
    BY <1>4, Zenon DEF PllReady, At, Goto, G, otpVars
  <2> QED
    BY <1>1, <1>2, <2>1, StayPll
<1>5. CASE OtpOpen
  <2>1. Now.op = "otp" /\ step = "slow" /\ step' = "read" /\ "SERV" \in locked /\ UNCHANGED k
    BY <1>5, Zenon DEF OtpOpen, At, Goto
  <2> QED
    BY <1>1, <1>2, <1>3, <2>1, StayPll, Zenon
<1>6. CASE OtpClose
  <2>1. Now.op = "otp" /\ step = "read" /\ step' = "close" /\ dctrl' = FALSE /\ UNCHANGED k
    BY <1>6, Zenon DEF OtpClose, At, Goto
  <2> QED
    BY Zenon, <1>1, <1>2, <1>3, <2>1, StayPll
<1>7. CASE ClusterOn \/ EntryAddress
  <2>1. Now.op = "core" /\ UNCHANGED <<dctrl, k>>
    BY <1>7, Zenon DEF ClusterOn, EntryAddress, At, otpVars
  <2> QED
    BY <1>1, <1>2, <1>3, <2>1, StayPll, Zenon
<1> QED
  BY <1>4, <1>5, <1>6, <1>7

LEMMA SetDividerPll ==
  ASSUME ClocksInv, PllInv, SetDivider
  PROVE  PllInv'
<1>1. /\ pc = "idle" /\ Now.op = "clock" /\ step = "div" /\ k <= Len(Table[Now.gen])
      /\ div' = [div EXCEPT ![Table[Now.gen][k].ch] = Table[Now.gen][k].div]
      /\ running' = running \cup {Table[Now.gen][k].ch} /\ k' = k + 1
      /\ UNCHANGED <<pc, pll, locked, bypass, stage, ip, step, saved, wdtFreq, isRead, otpFailed, dctrl>>
  BY Zenon DEF SetDivider, At, G, powerVars, pllVars, otpVars
<1>2. Now' = Now /\ stage \in Stages /\ Now.gen \in Gens
  <2>1. Now' = Now
    BY <1>1, Zenon DEF Now, Main
  <2>2. stage \in Stages
    BY <1>1, NowFacts, Zenon DEF ClocksInv, ProgInv
  <2> QED
    BY <1>1, <2>1, <2>2, NowFacts, ClocksAssumption, Zenon DEF ClocksInv, OpFacts
<1>3. /\ k \in DOMAIN Table[Now.gen] /\ Table[Now.gen][k].ch \in ChannelsOf(Now.gen)
      /\ Table[Now.gen][k].ch \in Channel /\ Table[Now.gen][k].div \in Nat
  <2>1. k \in DOMAIN Table[Now.gen]
    BY <1>1, <1>2, ClocksAssumption DEF PllInv, PllType
  <2>2. Table[Now.gen][k].ch \in ChannelsOf(Now.gen)
    BY <2>1, Zenon DEF ChannelsOf
  <2> QED
    BY <1>2, <2>1, <2>2, ApbAssumption, Zenon DEF Channel
<1>4. /\ div' \in [Channel -> Nat] /\ div \in [Channel -> Nat]
      /\ Table[Now.gen][k].ch # "APB" => div'["APB"] = div["APB"]
      /\ Table[Now.gen][k].ch = "APB" => Now.gen = "SERV" /\ div'["APB"] = 6
  <2>1. div \in [Channel -> Nat]
    BY Zenon DEF PllInv, ApbInv
  <2>2. Table[Now.gen][k].ch = "APB" => Now.gen = "SERV"
    BY <1>2, <1>3, ApbGen, Zenon
  <2>3. Table[Now.gen][k].ch = "APB" => Table[Now.gen][k].div = 6
    BY <1>3, <2>2, ApbAssumption, Zenon
  <2> QED
    BY Zenon, <1>1, <1>3, <2>1, <2>2, <2>3, ApbGen
<1>5. PllType'
  BY <1>1 DEF PllInv, PllType
<1>6. ServSet' <=> ServSet
  BY <1>1, Zenon DEF ServSet
<1>7. LockInv'
  <2>1. PllChangesUnderBypass'
    <3> SUFFICES ASSUME NEW g \in Gens \ locked', pll'[g].man, ~(g = "SERV" /\ saved'.man)
                 PROVE  running' \cap Masked[g] \subseteq bypass'
      BY Zenon DEF PllChangesUnderBypass
    <3>1. g # Now.gen
      BY <1>1, Zenon DEF PllInv, LockInv
    <3>2. Table[Now.gen][k].ch \notin Masked[g]
      BY <1>2, <1>3, <3>1, OtherChannel, Zenon
    <3>3. running \cap Masked[g] \subseteq bypass
      BY <1>1, Zenon DEF PllInv, LockInv, PllChangesUnderBypass
    <3> QED
      BY <1>1, <3>2, <3>3, Zenon
  <2> QED
    BY <1>1, <1>2, <2>1, Zenon DEF PllInv, LockInv, IsClock
<1>8. ServInv'
  BY <1>1, <1>2, <1>6, Zenon DEF PllInv, ServInv
<1>9. ApbInv'
  <2>1. ASSUME IsClock(Now, "SERV"), NEW i \in 1..Len(Table["SERV"]), i < k', Table["SERV"][i].ch = "APB"
        PROVE  div'["APB"] = 6
    <3>1. i < k \/ i = k
      BY <1>1, <2>1, ClocksAssumption DEF PllInv, PllType
    <3>2. CASE Table[Now.gen][k].ch = "APB"
      BY <1>4, <3>2, Zenon
    <3>3. CASE Table[Now.gen][k].ch # "APB"
      BY <1>1, <1>4, <2>1, <3>1, <3>3, Zenon DEF PllInv, ApbInv, IsClock
    <3> QED
      BY <3>2, <3>3, Zenon
  <2>2. ServSet \/ wdtFreq # 0 => div'["APB"] = 6
    BY <1>4, Zenon DEF PllInv, ApbInv
  <2>3. ServSet => div'["APB"] = 6 /\ "APB" \notin bypass
    BY <2>2, Zenon DEF PllInv, ApbInv
  <2>4. wdtFreq # 0 => /\ div'["APB"] = 6 /\ "APB" \notin bypass /\ pll["SERV"] \in ServSettings
                       /\ stage \in {"S1", "XIP"} => ip > 10
    BY <2>2, Zenon DEF PllInv, ApbInv
  <2>5. /\ bypass \cap ChannelsOf("SERV") \subseteq Masked["SERV"] /\ wdtFreq \in {0, ApbSlow, ApbFast}
        /\ wdtFreq \notin {0, ApbFast} => pll["SERV"] = PllOtp /\ saved \in {PllReset, PllOtp}
    BY Zenon DEF PllInv, ApbInv
  <2>6. (IsClock(Now, "SERV") /\ step = "div" =>
           \A i \in 1..Len(Table["SERV"]) : i < k /\ Table["SERV"][i].ch = "APB" => div["APB"] = 6)'
    BY <1>2, <2>1, Zenon
  <2>7. UNCHANGED <<bypass, pll, saved, wdtFreq, stage, ip>>
    BY <1>1, Zenon
  <2> QED
    BY <1>4, <1>6, <2>3, <2>4, <2>5, <2>6, <2>7, Zenon DEF ApbInv
<1>10. OtpInv'
  BY <1>1, <1>2, <1>6, Zenon DEF PllInv, OtpInv
<1> QED
  BY <1>5, <1>7, <1>8, <1>9, <1>10, Zenon DEF PllInv

LEMMA FailingPll ==
  ASSUME ClocksInv, PllInv, Failing
  PROVE  PllInv'
<1>1. /\ pc = "idle" /\ Now.op \in {"clock", "otp"} /\ UNCHANGED <<pc, bypass, k>>
      /\ \/ stage' = "stopped" /\ ip' = 1
         \/ ~Now.must /\ stage' = stage /\ ip' = ip + 1
  BY FailingFacts, Zenon DEF ClocksInv
<1>2. step' = "call" /\ UNCHANGED <<pll, locked, saved, wdtFreq, dctrl, isRead>>
  BY Zenon DEF Failing, PllTimeout, DividerTimeout, OtpTimeout, Fails, clkVars, pllVars, otpVars
<1>3. stage \in Stages /\ ServFacts(stage, Now, ip)
  <2>1. stage \in Stages
    BY <1>1, NowFacts, Zenon DEF ClocksInv, ProgInv
  <2> QED
    BY <2>1, Place, Zenon DEF ClocksInv
<1>4. Now.gen \in Gens \/ Now.op = "otp"
  BY <1>1, <1>3, NowFacts, ClocksAssumption, Zenon DEF ClocksInv, OpFacts
<1>5. /\ div' \in [Channel -> Nat] /\ running' \subseteq running
      /\ wdtFreq # 0 => div'["APB"] = 6
      /\ div'["APB"] = div["APB"] \/ IsClock(Now, "SERV")
  <2>1. div \in [Channel -> Nat] /\ (wdtFreq # 0 => div["APB"] = 6)
    BY Zenon DEF PllInv, ApbInv
  <2>2. CASE DividerTimeout
    <3>1. /\ Now.op = "clock" /\ k <= Len(Table[Now.gen])
          /\ div' = [div EXCEPT ![Table[Now.gen][k].ch] = Table[Now.gen][k].div]
          /\ running' = running \ {Table[Now.gen][k].ch}
      BY <2>2, Zenon DEF DividerTimeout, At, G
    <3>2. /\ k \in DOMAIN Table[Now.gen] /\ Table[Now.gen][k].ch \in ChannelsOf(Now.gen)
      <4>1. k \in DOMAIN Table[Now.gen]
        BY <1>4, <3>1, ClocksAssumption DEF PllInv, PllType
      <4> QED
        BY <4>1, Zenon DEF ChannelsOf
    <3>3. Table[Now.gen][k].ch \in Channel /\ Table[Now.gen][k].div \in Nat
      BY <1>4, <3>1, <3>2, ApbAssumption, Zenon DEF Channel
    <3>4. Table[Now.gen][k].ch = "APB" => Now.gen = "SERV"
      BY <1>4, <3>1, <3>2, ApbGen, Zenon
    <3>5. Table[Now.gen][k].ch = "APB" => Table[Now.gen][k].div = 6
      BY <3>2, <3>4, ApbAssumption, Zenon
    <3> QED
      BY <2>1, <3>1, <3>3, <3>4, <3>5, ApbGen, Zenon DEF IsClock
  <2>3. CASE PllTimeout \/ OtpTimeout
    BY <2>1, <2>3, Zenon DEF PllTimeout, OtpTimeout, clkVars
  <2> QED
    BY <2>2, <2>3, Zenon DEF Failing
<1>6. Now.op = "otp" => step # "call" /\ otpFailed' = TRUE /\ ~dctrl
  BY Zenon DEF Failing, PllTimeout, DividerTimeout, OtpTimeout, At, PllInv, OtpInv
<1>7. Now.op # "otp" => UNCHANGED otpFailed /\ ~dctrl
  BY Zenon DEF Failing, PllTimeout, DividerTimeout, OtpTimeout, At, PllInv, OtpInv, otpVars
<1>8. CASE stage' = "stopped" /\ ip' = 1
  BY <1>1, <1>2, <1>5, <1>6, <1>7, <1>8, StopPll, Zenon
<1>9. CASE ~Now.must /\ stage' = stage /\ ip' = ip + 1
  <2>1. ~IsClock(Now, "SERV") /\ ~IsClock(Now, "TOP")
    BY <1>3, <1>9, Zenon DEF ServFacts
  <2>2. PllChangesUnderBypass'
    BY <1>1, <1>2, <1>5, SameBp, Zenon
  <2> QED
    BY <1>1, <1>2, <1>5, <1>6, <1>7, <1>9, <2>1, <2>2, MoveOn, Zenon DEF OpNames
<1> QED
  BY <1>1, <1>8, <1>9, Zenon

\* The end of service_set_clock: from here on the clock of the APB is known.
LEMMA EndServPll ==
  ASSUME ClocksInv, PllInv, EndBypass, IsClock(Now, "SERV")
  PROVE  PllInv'
<1>1. /\ pc = "idle" /\ Now.op = "clock" /\ Now.gen = "SERV" /\ step = "div"
      /\ k > Len(Table["SERV"]) /\ bypass' = bypass \ Masked["SERV"]
      /\ step' = "call" /\ ip' = ip + 1
      /\ UNCHANGED <<stage, pll, locked, div, running, k, saved, wdtFreq, isRead, otpFailed, dctrl>>
  BY Zenon DEF EndBypass, At, G, Done, SyncAndDisableBp, pllVars, otpVars, IsClock
<1>2. stage \in {"S1", "XIP"} /\ ip = 10 /\ ServFacts(stage, Now', 11)
  <2>1. stage \in Stages
    BY <1>1, NowFacts, Zenon DEF ClocksInv, ProgInv
  <2>2. ServFacts(stage, Now, ip)
    BY <2>1, Place, Zenon DEF ClocksInv
  <2>3. stage \in {"S1", "XIP"} /\ ip = 10
    BY <1>1, <2>1, <2>2, Zenon DEF ServFacts, Stages
  <2>4. ProgInv'
    BY <1>1, Advance, Zenon DEF ClocksInv, OpNames
  <2> QED
    BY <1>1, <2>1, <2>3, <2>4, PlaceNext
<1>3. /\ Now'.op # "otp" /\ ServSet' /\ saved = PllReset /\ "SERV" \in locked /\ wdtFreq = 0
      /\ pll["SERV"] = PllOf["SERV"] /\ ~dctrl /\ ~IsClock(Now', "SERV")
  BY <1>1, <1>2 DEF ServFacts, ServSet, PllInv, ServInv, LockInv, ApbInv, OtpInv, IsClock
<1>4. div["APB"] = 6 /\ "APB" \notin bypass'
  <2>1. PICK i \in DOMAIN Table["SERV"] : Table["SERV"][i].ch = "APB"
    BY ApbAssumption, Zenon DEF ChannelsOf
  <2>2. i \in 1..Len(Table["SERV"]) /\ i < k
    BY <1>1, <2>1, ClocksAssumption DEF PllInv, PllType
  <2>3. div["APB"] = 6
    BY <1>1, <2>1, <2>2, Zenon DEF PllInv, ApbInv, IsClock
  <2> QED
    BY <1>1, <2>3, ApbAssumption, Zenon DEF PllInv, ApbInv
<1>5. PllType'
  BY <1>1, Zenon DEF PllInv, PllType
<1>6. LockInv'
  <2>1. PllChangesUnderBypass'
    <3> SUFFICES ASSUME NEW g \in Gens \ locked', pll'[g].man, ~(g = "SERV" /\ saved'.man)
                 PROVE  running' \cap Masked[g] \subseteq bypass'
      BY Zenon DEF PllChangesUnderBypass
    <3>1. g # "SERV" /\ "SERV" \in Gens
      BY <1>1, <1>3, ClocksAssumption
    <3>2. Masked[g] \cap Masked["SERV"] = {}
      <4>1. Masked["SERV"] \subseteq ChannelsOf("SERV")
        BY <3>1, ClocksAssumption, Zenon
      <4> QED
        BY <3>1, <4>1, OtherChannel, Zenon
    <3>3. running \cap Masked[g] \subseteq bypass
      BY <1>1, Zenon DEF PllInv, LockInv, PllChangesUnderBypass
    <3> QED
      BY <1>1, <3>2, <3>3, Zenon
  <2>2. "TOP" \in locked \/ ~pll["TOP"].man
    BY <1>1, <1>2, Zenon DEF PllInv, LockInv
  <2> QED
    BY <1>1, <2>1, <2>2, Zenon DEF LockInv
<1>7. ServInv'
  BY <1>1, <1>2, <1>3, Zenon DEF ServInv, ServSettings
<1>8. ApbInv'
  BY <1>1, <1>3, <1>4, Zenon DEF PllInv, ApbInv
<1>9. OtpInv'
  BY <1>1, <1>3, Zenon DEF OtpInv
<1> QED
  BY <1>5, <1>6, <1>7, <1>8, <1>9, Zenon DEF PllInv

LEMMA EndBypassPll ==
  ASSUME ClocksInv, PllInv, EndBypass, ~IsClock(Now, "SERV")
  PROVE  PllInv'
<1>1. /\ pc = "idle" /\ Now.op = "clock" /\ step = "div" /\ bypass' = bypass \ Masked[Now.gen]
      /\ step' = "call" /\ ip' = ip + 1
      /\ UNCHANGED <<stage, pll, locked, div, running, k, saved, wdtFreq, isRead, otpFailed, dctrl>>
  BY Zenon DEF EndBypass, At, G, Done, SyncAndDisableBp, pllVars, otpVars
<1>2. Now.gen \in locked /\ Now.gen \in Gens /\ ~dctrl /\ div \in [Channel -> Nat]
  BY <1>1, Zenon DEF PllInv, LockInv, PllType, OtpInv, ApbInv
<1>3. PllChangesUnderBypass'
  <2> SUFFICES ASSUME NEW g \in Gens \ locked', pll'[g].man, ~(g = "SERV" /\ saved'.man)
               PROVE  running' \cap Masked[g] \subseteq bypass'
    BY Zenon DEF PllChangesUnderBypass
  <2>1. g # Now.gen
    BY <1>1, <1>2, Zenon
  <2>2. Masked[g] \cap Masked[Now.gen] = {}
    <3>1. Masked[Now.gen] \subseteq ChannelsOf(Now.gen)
      BY <1>2, ClocksAssumption, Zenon
    <3> QED
      BY <1>2, <2>1, <3>1, OtherChannel, Zenon
  <2>3. running \cap Masked[g] \subseteq bypass
    BY <1>1, Zenon DEF PllInv, LockInv, PllChangesUnderBypass
  <2> QED
    BY Zenon, <1>1, <2>2, <2>3
<1> QED
  BY <1>1, <1>2, <1>3, MoveOn, Zenon DEF OpNames, IsClock

LEMMA WdtPll ==
  ASSUME ClocksInv, PllInv, Wdt0HwEnable
  PROVE  PllInv'
<1>1. /\ pc = "idle" /\ Now.op = "wdt" /\ wdtFreq' = GetClock("APB")
      /\ step' = "call" /\ ip' = ip + 1
      /\ UNCHANGED <<stage, pll, locked, div, running, bypass, k, saved, isRead, otpFailed, dctrl>>
  BY Zenon DEF Wdt0HwEnable, At, Done, clkVars, pllVars, otpVars
<1>2. stage \in Stages /\ ServFacts(stage, Now, ip) /\ ip \in Nat /\ ServFacts(stage, Now', ip + 1)
  <2>1. stage \in Stages
    BY <1>1, NowFacts, Zenon DEF ClocksInv, ProgInv
  <2>2. ServFacts(stage, Now, ip) /\ ip \in Nat
    BY <2>1, Place, Zenon DEF ClocksInv
  <2>3. ProgInv'
    BY <1>1, Advance, Zenon DEF ClocksInv, OpNames
  <2> QED
    BY <1>1, <2>1, <2>2, <2>3, PlaceNext, Zenon
<1>3. /\ ServSet /\ ServSet' /\ saved = PllReset /\ "SERV" \in locked /\ ~dctrl
      /\ stage \in {"S1", "XIP"} => ip > 10
  BY <1>1, <1>2 DEF ServFacts, ServSet, Stages, PllInv, ServInv, OtpInv
<1>4. pll["SERV"] \in ServSettings /\ div["APB"] = 6 /\ "APB" \notin bypass
  BY <1>3, Zenon DEF PllInv, ServInv, ApbInv
<1>5. wdtFreq' \in {ApbSlow, ApbFast} /\ (wdtFreq' # ApbFast => pll["SERV"] = PllOtp)
  BY <1>1, <1>4, ApbRate, Zenon DEF ServSettings
<1>6. PllType'
  BY <1>1, Zenon DEF PllInv, PllType
<1>7. LockInv'
  <2>1. "TOP" \in locked \/ ~pll["TOP"].man
    BY <1>1, <1>2, Zenon DEF PllInv, LockInv, IsClock, Stages
  <2> QED
    BY <1>1, <2>1, SameBp, Zenon DEF LockInv
<1>8. ServInv'
  <2>1. stage' \in {"S2", "S3"} => ip \in 1..7
    BY <1>1, <1>2 DEF ServFacts, ClocksInv, ProgInv
  <2> QED
    BY <1>1, <1>3, <1>4, <2>1, Zenon DEF ServInv
<1>9. ApbInv'
  BY <1>1, <1>2, <1>3, <1>4, <1>5 DEF PllInv, ApbInv
<1>10. OtpInv'
  BY <1>1, <1>3, Zenon DEF PllInv, OtpInv
<1> QED
  BY <1>6, <1>7, <1>8, <1>9, <1>10, Zenon DEF PllInv

\* The other operations that end, and service_enable_xxx, which begins.
LEMMA EndingPll ==
  ASSUME ClocksInv, PllInv, GateAll \/ OtpCached \/ OtpDone \/ CoreOn \/ Power
  PROVE  PllInv'
<1>1. /\ pc = "idle" /\ Now.op \in {"gate", "otp", "core", "power"}
      /\ step' = "call" /\ ip' = ip + 1
      /\ UNCHANGED <<stage, pll, locked, div, running, bypass, k, saved, wdtFreq, dctrl>>
  BY Zenon DEF GateAll, OtpCached, OtpDone, CoreOn, Power, ServiceEnable, Call, At, Done, clkVars, pllVars,
               otpVars
<1>2. Now.op # "otp" => UNCHANGED <<isRead, otpFailed>>
  BY Zenon DEF GateAll, OtpCached, OtpDone, CoreOn, Power, At, otpVars
<1>3. Now.op = "otp" => isRead' = TRUE /\ "SERV" \in locked /\ UNCHANGED otpFailed /\ step \in {"call", "restore"}
  <2> SUFFICES ASSUME Now.op = "otp"
               PROVE  isRead' = TRUE /\ "SERV" \in locked /\ UNCHANGED otpFailed /\ step \in {"call", "restore"}
    BY Zenon
  <2>1. CASE OtpDone
    BY <2>1, Zenon DEF OtpDone, At
  <2>2. CASE OtpCached
    <3>1. isRead = TRUE /\ UNCHANGED <<isRead, otpFailed>> /\ step = "call"
      BY <2>2, Zenon DEF OtpCached, At, otpVars, PllInv, PllType
    <3>2. ServSet
      <4>1. stage \in Stages
        BY NowFacts, Zenon DEF ClocksInv, ProgInv
      <4>2. ServFacts(stage, Now, ip)
        BY <4>1, Place DEF ClocksInv
      <4> QED
        BY <4>1, <4>2, Zenon DEF ServFacts, ServSet, Stages
    <3> QED
      BY <3>1, <3>2, Zenon DEF PllInv, ServInv
  <2> QED
    BY <2>1, <2>2, Zenon DEF GateAll, CoreOn, Power, At
<1>4. ~dctrl /\ div \in [Channel -> Nat]
  BY <1>1, <1>3, Zenon DEF PllInv, OtpInv, ApbInv
<1>5. PllChangesUnderBypass'
  BY <1>1, SameBp, Zenon
<1> QED
  BY <1>1, <1>2, <1>3, <1>4, <1>5, MoveOn, Zenon DEF OpNames, IsClock

\* otp_get_dump changes the PLL, and puts it back.
LEMMA OtpPll ==
  ASSUME ClocksInv, PllInv, OtpSlow \/ OtpRestore
  PROVE  PllInv'
<1>1. /\ pc = "idle" /\ Now.op = "otp" /\ Now' = Now /\ locked' = locked \ {"SERV"}
      /\ \/ /\ step = "call" /\ step' = "slow" /\ ~isRead /\ pll' = [pll EXCEPT !["SERV"] = PllOtp]
            /\ saved' = IF pll["SERV"].man THEN pll["SERV"] ELSE saved
         \/ /\ step = "close" /\ step' = "restore" /\ pll' = [pll EXCEPT !["SERV"] = Pll(saved.nf, saved.nr, saved.od)]
            /\ saved' = saved
      /\ UNCHANGED <<pc, stage, ip, div, running, bypass, k, wdtFreq, isRead, otpFailed, dctrl>>
  BY WithinFacts, Zenon DEF OtpSlow, OtpRestore, At, Goto, SetPll, otpVars, ClocksInv, Within
<1>2. stage \in Stages /\ ServFacts(stage, Now, ip) /\ ip \in Nat
  <2>1. stage \in Stages
    BY <1>1, NowFacts, Zenon DEF ClocksInv, ProgInv
  <2> QED
    BY <2>1, Place, Zenon DEF ClocksInv
<1>3. ServSet /\ ServSet' /\ stage \in {"S2", "S3"} /\ ip > 7
  BY <1>1, <1>2 DEF ServFacts, ServSet, Stages
<1>4. pll["SERV"] \in ServSettings /\ pll["SERV"].man /\ pll \in [Gens -> PllSettings] /\ "SERV" \in Gens
  BY <1>3, Settings, ClocksAssumption, Zenon DEF PllInv, PllType, ServInv
<1>5. CASE step = "call" /\ step' = "slow" /\ ~isRead /\ pll' = [pll EXCEPT !["SERV"] = PllOtp]
           /\ saved' = IF pll["SERV"].man THEN pll["SERV"] ELSE saved
  <2>1. saved' = pll["SERV"] /\ saved'.man /\ pll'["SERV"] = PllOtp
    BY <1>4, <1>5, Zenon
  <2>2. \A g \in Gens : g # "SERV" => pll'[g] = pll[g]
    BY <1>4, <1>5, Zenon
  <2>3. PllType'
    BY <1>1, <1>4, <1>5, <2>1, Zenon DEF PllInv, PllType, PllSettings
  <2>4. LockInv'
    <3>1. PllChangesUnderBypass'
      BY <1>1, <2>1, <2>2, Zenon DEF PllInv, LockInv, PllChangesUnderBypass
    <3>2. pll'["TOP"] = pll["TOP"]
      BY <2>2, ClocksAssumption, Zenon
    <3> QED
      BY <1>1, <3>1, <3>2, Zenon DEF PllInv, LockInv, IsClock
  <2>5. ServInv'
    <3>1. PllOtp \in ServSettings
      BY Zenon DEF ServSettings
    <3>2. ~(stage \in {"S1", "XIP"} \/ (stage \in {"S2", "S3"} /\ ip <= 7)) /\ ~IsClock(Now, "SERV")
      BY <1>1, <1>2, <1>3 DEF IsClock
    <3> QED
      BY <1>1, <1>4, <1>5, <2>1, <3>1, <3>2 DEF ServInv
  <2>6. ApbInv'
    <3>1. wdtFreq \notin {0, ApbFast} => saved' = PllOtp
      BY <2>1, Zenon DEF PllInv, ApbInv
    <3> QED
      BY <1>1, <1>3, <2>1, <3>1, Zenon DEF PllInv, ApbInv, IsClock, ServSettings
  <2>7. OtpInv'
    BY <1>1, <1>3, <1>5, <2>1, Zenon DEF PllInv, OtpInv
  <2> QED
    BY <2>3, <2>4, <2>5, <2>6, <2>7, Zenon DEF PllInv
<1>6. CASE step = "close" /\ step' = "restore" /\ pll' = [pll EXCEPT !["SERV"] = Pll(saved.nf, saved.nr, saved.od)]
           /\ saved' = saved
  <2>1. saved \in ServSettings /\ ~isRead
    BY <1>1, <1>6, Zenon DEF PllInv, ServInv
  <2>2. saved.man /\ pll'["SERV"] = saved
    BY <1>4, <1>6, <2>1, Settings, Zenon
  <2>3. \A g \in Gens : g # "SERV" => pll'[g] = pll[g]
    BY <1>4, <1>6, Zenon
  <2>4. PllType'
    BY <1>1, <1>4, <1>6, <2>1, <2>2, Zenon DEF PllInv, PllType, PllSettings, ServSettings
  <2>5. LockInv'
    <3>1. PllChangesUnderBypass'
      BY <1>1, <1>6, <2>2, <2>3, Zenon DEF PllInv, LockInv, PllChangesUnderBypass
    <3>2. pll'["TOP"] = pll["TOP"]
      BY Zenon, <2>3, ClocksAssumption
    <3> QED
      BY <1>1, <3>1, <3>2, Zenon DEF PllInv, LockInv, IsClock
  <2>6. ServInv'
    BY <1>1, <1>3, <1>6, <2>1, <2>2, Zenon DEF PllInv, ServInv, IsClock
  <2>7. ApbInv'
    <3>1. wdtFreq \notin {0, ApbFast} => saved = PllOtp
      BY <2>1, Settings, Zenon DEF PllInv, ApbInv
    <3>2. ~IsClock(Now, "SERV")
      BY <1>1, Zenon DEF IsClock
    <3>3. /\ div \in [Channel -> Nat] /\ bypass \cap ChannelsOf("SERV") \subseteq Masked["SERV"]
          /\ div["APB"] = 6 /\ "APB" \notin bypass /\ wdtFreq \in {0, ApbSlow, ApbFast}
      BY <1>3, Zenon DEF PllInv, ApbInv
    <3>4. stage \notin {"S1", "XIP"}
      BY <1>3, Zenon
    <3>5. UNCHANGED <<div, bypass, wdtFreq, stage, saved>> /\ Now' = Now /\ pll'["SERV"] = saved
      BY <1>1, <1>6, <2>2
    <3> QED
      BY <2>1, <3>1, <3>2, <3>3, <3>4, <3>5, Zenon DEF ApbInv
  <2>8. OtpInv'
    BY <1>1, <1>3, <1>6, <2>2, Zenon DEF PllInv, OtpInv
  <2> QED
    BY <2>4, <2>5, <2>6, <2>7, <2>8, Zenon DEF PllInv
<1> QED
  BY <1>1, <1>5, <1>6, Zenon

\* The pin of the key is set up only if the OTP was read, with the service PLL locked.
LEMMA KeyPll ==
  ASSUME ClocksInv, PllInv, CheckRecoveryImage
  PROVE  PllInv'
<1>1. /\ ProgInv' /\ pc = "idle" /\ Now.op = "key" /\ stage = "S2" /\ ip = 9
      /\ stage' = stage /\ ((isRead /\ ip' = 10) \/ ip' = 12) /\ step' = "call"
      /\ UNCHANGED <<powerVars, clkVars, k, wdtFreq, otpVars>>
  BY KeyFacts, Zenon DEF ClocksInv
<1>2. UNCHANGED <<pc, pll, locked, div, running, bypass, k, saved, wdtFreq, isRead, otpFailed, dctrl>>
  BY <1>1, Zenon DEF powerVars, clkVars, pllVars, otpVars
<1>3. ServFacts("S2", Now', ip')
  BY <1>1, PlaceNext, Zenon DEF Stages
<1>4. ServSet /\ ServSet'
  BY <1>1, Zenon DEF ServSet
<1>5. /\ ~IsClock(Now', "SERV") /\ (Now'.op = "otp" <=> ip' = 12)
      /\ ~(ip' <= 7) /\ stage' \notin {"S1", "XIP"}
  BY <1>1, <1>3 DEF ServFacts
<1>6. PllType'
  BY <1>2, Zenon DEF PllInv, PllType
<1>7. LockInv'
  <2>1. "TOP" \in locked \/ ~pll["TOP"].man
    BY <1>1 DEF PllInv, LockInv, IsClock
  <2> QED
    BY <1>1, <1>2, <2>1, SameBp DEF LockInv
<1>8. ServInv'
  <2>1. "SERV" \notin locked => saved \in ServSettings /\ ~isRead
    BY <1>4, Zenon DEF PllInv, ServInv
  <2>2. pll["SERV"] \in ServSettings
    BY <1>4, Zenon DEF PllInv, ServInv
  <2> QED
    BY <1>1, <1>2, <1>5, <2>1, <2>2, Zenon DEF ServInv
<1>9. ApbInv'
  BY <1>1, <1>2, <1>4, <1>5, Zenon DEF PllInv, ApbInv
<1>10. OtpInv'
  BY <1>1, <1>2, <1>4, Zenon DEF PllInv, OtpInv
<1> QED
  BY <1>6, <1>7, <1>8, <1>9, <1>10, Zenon DEF PllInv

LEMMA StageEndsPll ==
  ASSUME ClocksInv, PllInv, StageEnds
  PROVE  PllInv'
<1>1. /\ pc = "idle" /\ Now.op = "end" /\ ip' = 1 /\ <<stage, stage'>> \in Ends
      /\ stage' = Now.gen /\ Now'.op \in {"power", "rest"} /\ step = "call"
  BY StageEndsFacts, Zenon DEF ClocksInv, StageEnds, At
<1>2. /\ UNCHANGED <<step, pc, pll, locked, div, running, bypass, k, dctrl, otpFailed>>
      /\ wdtFreq' = IF Now.gen = "serve" THEN wdtFreq ELSE 0
      /\ isRead' = (Now.gen = "serve" /\ isRead)
      /\ saved' = IF Now.gen = "serve" THEN saved ELSE PllReset
  BY Zenon DEF StageEnds, G, powerVars, clkVars, pllVars
<1>3. ServSet /\ ServSet' /\ stage' \in {"S2", "S3", "serve", "off"} /\ stage \in Stages
  <2>1. stage \in Stages
    BY <1>1, Zenon DEF Ends, Stages
  <2>2. ServFacts(stage, Now, ip)
    BY <2>1, Place, Zenon DEF ClocksInv
  <2> QED
    BY <1>1, <2>1, <2>2, Zenon DEF ServFacts, ServSet, Ends
<1>4. "SERV" \in locked /\ pll["SERV"] \in ServSettings /\ ~dctrl /\ div["APB"] = 6 /\ "APB" \notin bypass
  BY <1>1, <1>3, Zenon DEF PllInv, ServInv, OtpInv, ApbInv
<1>5. PllType'
  <2>1. isRead' \in BOOLEAN
    BY <1>2, Zenon
  <2> QED
    BY <1>2, <2>1, Zenon DEF PllInv, PllType
<1>6. LockInv'
  <2>1. "TOP" \in locked \/ ~pll["TOP"].man
    BY <1>1, <1>3, Zenon DEF PllInv, LockInv, IsClock, Stages
  <2>2. PllChangesUnderBypass'
    BY <1>2, <1>4, Zenon DEF PllInv, LockInv, PllChangesUnderBypass
  <2> QED
    BY <1>1, <1>2, <2>1, <2>2, Zenon DEF LockInv
<1>7. ServInv'
  BY <1>1, <1>2, <1>3, <1>4, Zenon DEF PllInv, ServInv, IsClock
<1>8. ApbInv'
  BY <1>1, <1>2, <1>3, <1>4, Zenon DEF PllInv, ApbInv, IsClock
<1>9. OtpInv'
  <2>1. ~otpFailed => pll["SERV"] = PllOf["SERV"]
    BY <1>1, <1>3, Zenon DEF PllInv, OtpInv
  <2> QED
    BY <1>1, <1>2, <1>4, <2>1, Zenon DEF OtpInv
<1> QED
  BY <1>5, <1>6, <1>7, <1>8, <1>9, Zenon DEF PllInv

\* set_ppolicy and the regulators: only bypasses of the interconnect end, and not while
\* top_set_clock runs.
LEMMA ServicePll ==
  ASSUME ClocksInv, PllInv, UNCHANGED bootVars,
         \/ SetPpolicy
         \/ (\E d \in Domain : Follow(d)) \/ CounterWraps
         \/ stage = "serve" /\ (CheckSupport \/ \E d \in Service, want \in States : SubsystemSetPower(d, want))
  PROVE  PllInv'
<1>1. /\ UNCHANGED <<pll, locked, div, stage, ip, step, k, saved, wdtFreq, isRead, otpFailed, dctrl>>
      /\ Now' = Now
  BY Zenon DEF bootVars, pllVars, progVars, otpVars, Now, Main
<1>2. running' = running
  BY Zenon DEF SetPpolicy, Switch, PollDone, PollTimeout, SwitchOff, PollOff, Settle, Gate, Follow, CounterWraps, CheckSupport,
               SubsystemSetPower, Call
<1>3. /\ bypass' \ bypass \subseteq ChannelsOf("TOP") /\ bypass \ bypass' \subseteq ChannelsOf("TOP")
      /\ bypass \ bypass' # {} => pc # "idle"
      /\ pc = "idle" => UNCHANGED pc \/ stage = "serve"
  <2>1. pc # "idle" => Mask \subseteq ChannelsOf("TOP")
    BY ClocksAssumption, Zenon DEF Mask, Dom, ClocksInv, PowerInv
  <2>2. CASE Switch
    BY <2>1, <2>2, Zenon DEF Switch, EnableBp
  <2>3. CASE Settle
    BY <2>1, <2>3, Zenon DEF Settle, SyncAndDisableBp
  <2>4. CASE PollDone \/ PollTimeout \/ SwitchOff \/ PollOff \/ Gate
    BY <2>4, Zenon DEF PollDone, PollTimeout, SwitchOff, PollOff, Gate
  <2>5. CASE (\E d \in Domain : Follow(d)) \/ CounterWraps
    BY <2>5, Zenon DEF Follow, CounterWraps
  <2>6. CASE stage = "serve" /\ (CheckSupport \/ \E d \in Service, want \in States : SubsystemSetPower(d, want))
    BY <2>6, Zenon DEF CheckSupport, SubsystemSetPower, Call
  <2> QED
    BY <2>2, <2>3, <2>4, <2>5, <2>6, Zenon DEF SetPpolicy
<1>4. "SERV" \in Gens /\ "TOP" \in Gens /\ ChannelsOf("SERV") \cap ChannelsOf("TOP") = {}
  BY ClocksAssumption, Zenon
<1>5. PllType'
  BY <1>1, Zenon DEF PllInv, PllType
<1>6. ServSet' <=> ServSet
  BY <1>1, Zenon DEF ServSet
<1>7. LockInv'
  <2>1. PllChangesUnderBypass'
    <3> SUFFICES ASSUME NEW g \in Gens \ locked', pll'[g].man, ~(g = "SERV" /\ saved'.man)
                 PROVE  running' \cap Masked[g] \subseteq bypass'
      BY Zenon DEF PllChangesUnderBypass
    <3>1. running \cap Masked[g] \subseteq bypass
      BY <1>1, Zenon DEF PllInv, LockInv, PllChangesUnderBypass
    <3>2. CASE g = "TOP"
      <4>1. bypass \ bypass' = {}
        BY <1>1, <1>3, <3>2, Zenon DEF PllInv, LockInv
      <4> QED
        BY <1>2, <3>1, <4>1, Zenon
    <3>3. CASE g # "TOP"
      <4>1. Masked[g] \cap ChannelsOf("TOP") = {}
        BY <3>3, OtherMask, Zenon
      <4> QED
        BY <1>2, <1>3, <3>1, <4>1, Zenon
    <3> QED
      BY <3>2, <3>3, Zenon
  <2>2. stage = "serve" => ~IsClock(Now, "TOP")
    BY NowFacts, Zenon DEF ClocksInv, Resting, IsClock
  <2> QED
    BY <1>1, <1>3, <2>1, <2>2, Zenon DEF PllInv, LockInv
<1>8. ServInv'
  BY <1>1, <1>6, Zenon DEF PllInv, ServInv
<1>9. ApbInv'
  <2>1. /\ bypass' \cap ChannelsOf("SERV") = bypass \cap ChannelsOf("SERV")
        /\ "APB" \in bypass' <=> "APB" \in bypass
    BY <1>3, <1>4, ApbAssumption, Zenon
  <2> QED
    BY <1>1, <1>6, <2>1, Zenon DEF PllInv, ApbInv
<1>10. OtpInv'
  BY <1>1, <1>6, Zenon DEF PllInv, OtpInv
<1> QED
  BY <1>5, <1>7, <1>8, <1>9, <1>10, Zenon DEF PllInv

LEMMA LockPll ==
  ASSUME ClocksInv, PllInv, \/ \E g \in Gens : Lock(g)
                            \/ UNCHANGED vars
  PROVE  PllInv'
<1>1. /\ UNCHANGED <<pc, pll, div, running, bypass, stage, ip, step, k, saved, wdtFreq, isRead, otpFailed, dctrl>>
      /\ locked \subseteq locked' /\ locked' \subseteq Gens /\ Now' = Now
  <2>1. locked \subseteq Gens
    BY Zenon DEF PllInv, PllType
  <2>2. /\ UNCHANGED <<pc, pll, div, running, bypass, stage, ip, step, k, saved, wdtFreq, isRead, otpFailed, dctrl>>
        /\ locked \subseteq locked' /\ locked' \subseteq Gens
    BY <2>1, Zenon DEF Lock, vars, powerVars, clkVars, pllVars, progVars, otpVars
  <2> QED
    BY <2>2, Zenon DEF Now, Main
<1>2. PllType'
  BY <1>1, Zenon DEF PllInv, PllType
<1>3. ServSet' <=> ServSet
  BY <1>1, Zenon DEF ServSet
<1>4. LockInv'
  <2>1. PllChangesUnderBypass'
    BY <1>1, Zenon DEF PllInv, LockInv, PllChangesUnderBypass
  <2> QED
    BY <1>1, <2>1, Zenon DEF PllInv, LockInv
<1>5. ServInv'
  <2>1. UNCHANGED <<pll, stage, ip, step, saved, isRead>> /\ Now' = Now /\ locked \subseteq locked'
    BY <1>1, Zenon
  <2> QED
    BY <2>1, <1>3, Zenon DEF PllInv, ServInv, IsClock
<1>6. ApbInv'
  <2>1. UNCHANGED <<div, bypass, step, k, wdtFreq, pll, stage, ip, saved>> /\ Now' = Now
    BY <1>1, Zenon
  <2> QED
    BY <2>1, <1>3, Zenon DEF PllInv, ApbInv, IsClock
<1>7. OtpInv'
  <2>1. UNCHANGED <<pll, step, saved, dctrl, otpFailed>> /\ Now' = Now /\ locked \subseteq locked'
    BY <1>1, Zenon
  <2> QED
    BY <2>1, <1>3, Zenon DEF PllInv, OtpInv
<1> QED
  BY <1>2, <1>4, <1>5, <1>6, <1>7, Zenon DEF PllInv

LEMMA InitPll == Init => PllInv
<1> SUFFICES ASSUME Init PROVE PllInv
  BY Zenon
<1>1. /\ stage \in {"S1", "XIP"} /\ ip = 1 /\ step = "call" /\ k = 1 /\ bypass = {}
      /\ pll = [g \in Gens |-> PllReset] /\ locked = {} /\ div = [ch \in Channel |-> 1]
      /\ wdtFreq = 0 /\ saved = PllReset /\ isRead = FALSE /\ dctrl = FALSE
  BY Zenon DEF Init
<1>2. Now.op \in {"power", "gate"}
  BY <1>1, InitInv, NowFacts, Zenon DEF ClocksInv, OpFacts, Stages
<1>3. \A g \in Gens : ~pll[g].man
  BY <1>1, Settings, Zenon
<1>4. PllType
  <2>1. PllReset \in PllSettings
    BY Zenon DEF PllSettings
  <2>2. pll \in [Gens -> PllSettings]
    BY <1>1, <2>1, Zenon
  <2>3. isRead \in BOOLEAN
    BY <1>1, Zenon
  <2> QED
    BY <1>1, <2>2, <2>3 DEF PllType
<1>5. LockInv
  BY <1>1, <1>2, <1>3, ClocksAssumption, Zenon DEF LockInv, PllChangesUnderBypass
<1>6. ~ServSet
  BY <1>1 DEF ServSet
<1>7. ServInv /\ ApbInv /\ OtpInv
  BY <1>1, <1>2, <1>6, Zenon DEF ServInv, ApbInv, OtpInv, IsClock
<1> QED
  BY <1>4, <1>5, <1>7, Zenon DEF PllInv

LEMMA NextPll == ClocksInv /\ PllInv /\ [Next]_vars => PllInv'
<1> SUFFICES ASSUME ClocksInv, PllInv, [Next]_vars PROVE PllInv'
  BY Zenon
<1>1. CASE UNCHANGED vars
  BY <1>1, LockPll
<1>2. CASE Program
  <2>1. \/ GateAll \/ OtpCached \/ OtpDone \/ CoreOn \/ Power
        \/ PllReady \/ OtpOpen \/ OtpClose \/ ClusterOn \/ EntryAddress
        \/ SetClock \/ SetDivider \/ EndBypass \/ Wdt0HwEnable \/ OtpSlow \/ OtpRestore \/ StageEnds
        \/ CheckRecoveryImage \/ Failing \/ (SetPpolicy /\ UNCHANGED bootVars)
    BY <1>2, Zenon DEF Program, Failing
  <2> QED
    BY <2>1, EndingPll, WithinPll, SetClockPll, SetDividerPll, EndServPll, EndBypassPll, WdtPll, OtpPll,
       StageEndsPll, KeyPll, FailingPll, ServicePll, Zenon
<1>3. CASE \E d \in Domain : Follow(d) /\ UNCHANGED bootVars
  BY <1>3, ServicePll, Zenon
<1>4. CASE \E g \in Gens : Lock(g)
  BY <1>4, LockPll, Zenon
<1>5. CASE \E d \in Service, want \in States :
             stage = "serve" /\ SubsystemSetPower(d, want) /\ UNCHANGED bootVars
  BY <1>5, ServicePll, Zenon
<1>6. CASE stage = "serve" /\ CheckSupport /\ UNCHANGED bootVars
  BY <1>6, ServicePll, Zenon
<1>7. CASE CounterWraps /\ UNCHANGED bootVars
  BY <1>7, ServicePll, Zenon
<1> QED
  BY <1>1, <1>2, <1>3, <1>4, <1>5, <1>6, <1>7, Zenon DEF Next

\* The inductive invariant of the PLLs and of the clock of the APB, on top of the one of
\* the boot.
THEOREM PllInvariant == Spec => []PllInv
<1>1. Init => ClocksInv /\ PllInv
  BY InitInv, InitPll, Zenon
<1>2. ClocksInv /\ PllInv /\ [Next]_vars => ClocksInv' /\ PllInv'
  BY NextInv, NextPll, Zenon
<1> QED
  BY <1>1, <1>2, PTL DEF Spec

\* xxx_set_clock leaves no running channel of its masks on a PLL that is not locked,
\* whatever tables and masks the generators have and whichever wait fails.
THEOREM PllChangesUnderBypassInvariant == Spec => []PllChangesUnderBypass
<1>1. PllInv => PllChangesUnderBypass
  BY Zenon DEF PllInv, LockInv
<1> QED
  BY <1>1, PllInvariant, PTL

\* The clock of the APB is one of two while service_set_clock is done, 99 MHz and that of
\* a read of the OTP, and a watchdog set up after a failed read counts the slower one.
THEOREM ApbWithinWatchdogInvariant == Spec => []ApbWithinWatchdog
<1>1. PllInv => ApbWithinWatchdog
  <2> SUFFICES ASSUME PllInv, wdtFreq > 0 PROVE Rate("APB") <= wdtFreq
    BY Zenon DEF ApbWithinWatchdog
  <2>1. /\ wdtFreq \in {ApbSlow, ApbFast} /\ (wdtFreq # ApbFast => pll["SERV"] = PllOtp)
        /\ div["APB"] = 6 /\ "APB" \notin bypass /\ pll["SERV"] \in ServSettings
    BY DEF PllInv, ApbInv
  <2>2. Rate("APB") \in {ApbSlow, ApbFast} /\ (pll["SERV"] = PllOtp => Rate("APB") = ApbSlow)
    BY <2>1, ApbRate, Zenon DEF ServSettings
  <2>3. ApbSlow = 22500 /\ ApbFast = 99000
    BY DEF ApbSlow, ApbFast
  <2> QED
    BY <2>1, <2>2, <2>3
<1> QED
  BY <1>1, PllInvariant, PTL

\* otp_enable_read has slowed the APB down, with the PLL locked, before it opens the
\* access, and otp_disable_read closes it before it restores the PLL.
THEOREM OtpReadSlowInvariant == Spec => []OtpReadSlow
<1>1. ClocksInv /\ PllInv => OtpReadSlow
  <2> SUFFICES ASSUME ClocksInv, PllInv PROVE OtpReadSlow
    BY Zenon
  <2>1. ASSUME dctrl PROVE "SERV" \in locked /\ Rate("APB") < 25000
    <3>1. Now.op = "otp" /\ step = "read" /\ "SERV" \in locked /\ pll["SERV"] = PllOtp
      BY <2>1, Zenon DEF PllInv, OtpInv
    <3>2. ServSet
      <4>1. stage \in Stages
        BY <3>1, NowFacts, Zenon DEF ClocksInv, ProgInv
      <4>2. ServFacts(stage, Now, ip)
        BY <4>1, Place, Zenon DEF ClocksInv
      <4> QED
        BY <3>1, <4>1, <4>2, Zenon DEF ServFacts, ServSet, Stages
    <3>3. div["APB"] = 6 /\ "APB" \notin bypass
      BY <3>2, Zenon DEF PllInv, ApbInv
    <3>4. Rate("APB") = ApbSlow
      BY <3>1, <3>3, ApbRate, Zenon DEF ServSettings
    <3> QED
      BY <3>1, <3>4 DEF ApbSlow
  <2>2. stage = "serve" /\ ~otpFailed => pll["SERV"] = PllOf["SERV"]
    <3>1. stage = "serve" => Now.op = "rest" /\ ServSet
      BY NowFacts, Zenon DEF ClocksInv, Resting, ServSet
    <3> QED
      BY <3>1, Zenon DEF PllInv, OtpInv
  <2> QED
    BY <2>1, <2>2 DEF OtpReadSlow
<1> QED
  BY <1>1, ClocksInvariant, PllInvariant, PTL
=============================================================================
