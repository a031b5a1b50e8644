--------------------------- MODULE StartupProofs ---------------------------
(***************************************************************************)
(* Proofs about Startup for any number of FIFOs, slots, wraps, requests    *)
(* and buffers.                                                            *)
(***************************************************************************)
EXTENDS Startup, TLAPS

Loop == 13 + 2 * Fifos

(***************************************************************************)
(* Where the operations are in the programs.                               *)
(***************************************************************************)
InS2(i, o) ==
  /\ o.op = "startup" <=> i = 1
  /\ o.op = "timerReset" <=> i = 2
  /\ o.op = "irqInit" <=> i = 3
  /\ o.op = "enable" <=> i = 4
  /\ o.op = "store" <=> i = 5
  /\ o.op = "eoi" <=> i = 6
  /\ o.op = "unmask" <=> i = 7
  /\ o.op = "register" <=> i = 8
  /\ o.op = "mapRange" <=> i = 9
  /\ o.op = "load" <=> i = 10
  /\ o.op = "jump" <=> i = 11
  /\ i \in {4, 5} => o.id = Timer7
  /\ i = 5 => o = Op("store", Timer7)
  /\ o.op \notin {"iommuReset", "iommuInit", "mboxReset", "ipcStart", "startArm", "loop"}

InS3(i, o) ==
  /\ o.op = "startup" <=> i = 1
  /\ o.op = "irqInit" <=> i = 2
  /\ o.op = "enable" => (i = 3 /\ o.id = Timer7) \/ (o.id \in Fifo /\ i = 9 + 2 * o.id)
  /\ o.op = "store" => (i = 4 /\ o.id = Timer7) \/ (o.id \in Fifo /\ i = 10 + 2 * o.id)
  /\ i = 3 => o = Op("enable", Timer7)
  /\ i = 4 => o = Op("store", Timer7)
  /\ o.op = "eoi" <=> i = 5
  /\ o.op = "unmask" <=> i = 6
  /\ o.op = "register" <=> i = 7
  /\ o.op = "iommuReset" <=> i = 8
  /\ o.op = "iommuInit" <=> i = 9
  /\ o.op = "mboxReset" <=> i = 10
  /\ i \in 11..(10 + 2 * Fifos) => o.op \in {"enable", "store"}
  /\ o.op = "ipcStart" <=> i = 11 + 2 * Fifos
  /\ o.op = "startArm" <=> i = 12 + 2 * Fifos
  /\ o.op = "loop" <=> i = Loop
  /\ o.op \notin {"timerReset", "mapRange", "load", "jump"}

LEMMA S2Place == ASSUME NEW i \in 1..11 PROVE InS2(i, S2Main[i])
BY DEF S2Main, AttachTimer, Op, InS2, Timer7

\* irq_attach_handler for one FIFO after the other, in two steps each.
Attaches == [k \in 1..(2 * Fifos) |-> Op(IF k % 2 = 1 THEN "enable" ELSE "store", (k + 1) \div 2)]

OpNames == {"startup", "irqInit", "enable", "store", "eoi", "unmask", "register", "iommuReset", "iommuInit",
            "mboxReset", "ipcStart", "startArm", "loop"}
Ops == [op : OpNames, id : Int]

LEMMA AttachesSeq == Attaches \in Seq(Ops) /\ Len(Attaches) = 2 * Fifos
<1>1. 2 * Fifos \in Nat
  BY StartupAssumption
<1>2. \A k \in 1..(2 * Fifos) : Op(IF k % 2 = 1 THEN "enable" ELSE "store", (k + 1) \div 2) \in Ops
  BY <1>1 DEF Op, Ops, OpNames
<1> QED
  BY <1>1, <1>2 DEF Attaches

\* r is s followed by t.
Joined(S, s, t, r) ==
  /\ r \in Seq(S) /\ Len(r) = Len(s) + Len(t)
  /\ \A i \in 1..Len(s) : r[i] = s[i]
  /\ \A i \in 1..Len(t) : r[Len(s) + i] = t[i]

LEMMA Concat ==
  ASSUME NEW S, NEW s \in Seq(S), NEW t \in Seq(S)
  PROVE  Joined(S, s, t, s \o t)
BY DEF Joined

Reset == << Op("mboxReset", 0) >>

LEMMA ResetSeq == Reset \in Seq(Ops) /\ Len(Reset) = 1 /\ Reset[1] = Op("mboxReset", 0)
BY DEF Reset, Op, Ops, OpNames

LEMMA MboxPlace ==
  /\ MboxInit \in Seq(Ops) /\ Len(MboxInit) = 1 + 2 * Fifos
  /\ MboxInit[1] = Op("mboxReset", 0)
  /\ \A k \in 1..(2 * Fifos) : MboxInit[1 + k] = Attaches[k]
<1>1. MboxInit = Reset \o Attaches
  BY DEF MboxInit, Attaches, Reset
<1>2. Joined(Ops, Reset, Attaches, MboxInit)
  BY <1>1, ResetSeq, AttachesSeq, Concat
<1> QED
  BY <1>2, ResetSeq, AttachesSeq DEF Joined

First9 == << Op("startup", 0), Op("irqInit", 0) >> \o AttachTimer \o << Op("iommuReset", 0), Op("iommuInit", 0) >>
Last3 == << Op("ipcStart", 0), Op("startArm", 0), Op("loop", 0) >>

LEMMA First9Seq == First9 \in Seq(Ops) /\ Len(First9) = 9
BY DEF First9, AttachTimer, Op, Ops, OpNames, Timer7

LEMMA First9Place == \A i \in 1..9 : InS3(i, First9[i])
BY StartupAssumption DEF First9, AttachTimer, Op, InS3, Timer7, Fifo, Loop

LEMMA Last3Place == Last3 \in Seq(Ops) /\ Len(Last3) = 3
BY DEF Last3, Op, Ops, OpNames

LEMMA S3Parts ==
  /\ \A i \in 1..9 : S3Main[i] = First9[i]
  /\ \A i \in 1..(1 + 2 * Fifos) : S3Main[9 + i] = MboxInit[i]
  /\ \A i \in 1..3 : S3Main[10 + 2 * Fifos + i] = Last3[i]
<1>1. S3Main = (First9 \o MboxInit) \o Last3
  BY DEF S3Main, First9, Last3
<1>2. 2 * Fifos \in Nat
  BY StartupAssumption
<1>3. PICK F : F = First9 \o MboxInit
  BY Zenon
<1>4. Joined(Ops, First9, MboxInit, F)
  BY <1>3, First9Seq, MboxPlace, Concat
<1>5. F \in Seq(Ops) /\ Len(F) = 10 + 2 * Fifos
  BY <1>2, <1>4, First9Seq, MboxPlace DEF Joined
<1>6. Joined(Ops, F, Last3, S3Main)
  BY <1>1, <1>3, <1>5, Last3Place, Concat, Zenon
<1>7. /\ \A i \in 1..9 : F[i] = First9[i]
      /\ \A i \in 1..(1 + 2 * Fifos) : F[9 + i] = MboxInit[i]
  BY <1>4, First9Seq, MboxPlace DEF Joined
<1>8. /\ \A i \in 1..(10 + 2 * Fifos) : S3Main[i] = F[i]
      /\ \A i \in 1..3 : S3Main[10 + 2 * Fifos + i] = Last3[i]
  BY <1>5, <1>6, Last3Place DEF Joined
<1> QED
  BY <1>2, <1>7, <1>8

LEMMA S3Place == ASSUME NEW i \in 1..Loop PROVE InS3(i, S3Main[i])
<1>0. 2 * Fifos \in Nat /\ Fifos \in Nat
  BY StartupAssumption
<1>1. CASE i \in 1..9
  BY <1>1, S3Parts, First9Place, Zenon
<1>2. CASE i = 10
  <2>1. S3Main[10] = Op("mboxReset", 0)
    BY <1>0, S3Parts, MboxPlace
  <2> QED
    BY <1>0, <1>2, <2>1 DEF InS3, Op, Loop
<1>3. CASE i \in 11..(10 + 2 * Fifos)
  <2>1. i - 10 \in 1..(2 * Fifos) /\ i = 9 + (1 + (i - 10))
    BY <1>0, <1>3
  <2>2. S3Main[i] = Op(IF (i - 10) % 2 = 1 THEN "enable" ELSE "store", (i - 9) \div 2)
    <3>1. 1 + (i - 10) \in 1..(1 + 2 * Fifos)
      BY <1>0, <2>1
    <3>2. S3Main[i] = MboxInit[1 + (i - 10)]
      BY <2>1, <3>1, S3Parts
    <3>3. MboxInit[1 + (i - 10)] = Attaches[i - 10]
      BY <2>1, MboxPlace
    <3> QED
      BY <2>1, <3>2, <3>3 DEF Attaches
  <2>3. CASE (i - 10) % 2 = 1
    <3>1. S3Main[i] = Op("enable", (i - 9) \div 2) /\ (i - 9) \div 2 \in Fifo /\ i = 9 + 2 * ((i - 9) \div 2)
      BY <1>0, <1>3, <2>2, <2>3 DEF Fifo
    <3> QED
      BY <1>0, <1>3, <3>1 DEF InS3, Op, Loop
  <2>4. CASE (i - 10) % 2 # 1
    <3>1. S3Main[i] = Op("store", (i - 9) \div 2) /\ (i - 9) \div 2 \in Fifo /\ i = 10 + 2 * ((i - 9) \div 2)
      BY <1>0, <1>3, <2>2, <2>4 DEF Fifo
    <3> QED
      BY <1>0, <1>3, <3>1 DEF InS3, Op, Loop
  <2> QED
    BY <2>3, <2>4
<1>4. CASE i \in (11 + 2 * Fifos)..Loop
  <2>1. /\ S3Main[11 + 2 * Fifos] = Op("ipcStart", 0) /\ S3Main[12 + 2 * Fifos] = Op("startArm", 0)
        /\ S3Main[13 + 2 * Fifos] = Op("loop", 0)
    BY <1>0, S3Parts DEF Last3
  <2> QED
    BY <1>0, <1>4, <2>1 DEF InS3, Op, Loop
<1> QED
  BY <1>0, <1>1, <1>2, <1>3, <1>4 DEF Loop
-----------------------------------------------------------------------------
(***************************************************************************)
(* The invariant.                                                          *)
(***************************************************************************)

\* Where the program is; panic is reached from two places.
ProgInv ==
  /\ stage \in {"S2", "S3", "panic"} /\ pc \in Int
  /\ stage = "S2" => pc \in 1..11
  /\ stage = "S3" => pc \in 1..Loop
  /\ stage = "panic" => pc \in {9, Loop}
  /\ isr \in {"out", "claimed"} /\ flush \in BOOLEAN
  /\ flush => (stage = "S2" /\ pc = 9) \/ (stage = "S3" /\ pc = Loop)

\* The cache agrees with the table but between a change and the invalidation, and is
\* empty when the table is made anew.
CacheInv ==
  /\ DOMAIN cache \subseteq Slot
  /\ ~flush => \A s \in DOMAIN cache : cache[s] = table[s].to
  /\ stage = "S3" /\ pc = 9 => DOMAIN cache = {} /\ ~xlat
  /\ xlat \/ (stage = "S3" /\ pc = 9)

\* What the table has been filled with so far.
TableInv ==
  /\ table \in [Slot -> [user : BOOLEAN, to : Int]]
  /\ stage = "S2" =>
       /\ at \in DdrFirst..(DdrLast + 1) /\ \A s \in DdrFirst..(at - 1) : table[s].to = Ddr + s
       /\ pc > 9 => at = DdrLast + 1
  /\ todo \in Seq(Int)
  /\ stage = "S2" \/ pc # Loop => todo = <<>> /\ win = NoWin
  /\ stage = "S3" /\ pc > 9 => \A s \in Slot : s # win => table[s] = Entry(FALSE, s)
  /\ stage = "S3" /\ win # NoWin => win \in Slot /\ todo # <<>> /\ table[win].to = Head(todo)

\* Who may interrupt, and who answers.
IrqInv ==
  /\ handlers \in [Source -> {NoHandler, "irq_timer_handler", "irq_mailbox_handler"}]
  /\ handlers[Timer7] # "irq_mailbox_handler" /\ \A f \in Fifo : handlers[f] # "irq_timer_handler"
  /\ ens \subseteq Source
  /\ isr = "claimed" => ie /\ id \in ens /\ Line(id)
  /\ (stage = "S2" /\ pc <= 3) \/ (stage = "S3" /\ pc = 2) => ~ie
  /\ stage = "S2" /\ pc > 3 => ens \subseteq {Timer7}
  /\ stage # "S2" /\ pc <= 10 => ens \subseteq {Timer7}
  /\ (stage = "S2" /\ pc = 4) \/ (stage = "S3" /\ pc = 3) => ens = {}
  /\ (stage = "S2" /\ pc > 5) \/ (stage = "S3" /\ (pc = 1 \/ pc > 4)) \/ stage = "panic"
       => handlers[Timer7] = "irq_timer_handler"
  /\ stage # "S2" => \A f \in Fifo : pc > 10 + 2 * f => handlers[f] = "irq_mailbox_handler"

\* Doorbells are silent until the server listens.
BellInv ==
  /\ bells \in [Fifo -> BOOLEAN] /\ nodes \in Seq({"risc0_ipc_irq_handler"}) /\ ~dropped
  /\ stage = "S3" /\ pc \in 11..(12 + 2 * Fifos) => \A f \in Fifo : ~bells[f]
  /\ stage # "S2" /\ pc > 11 + 2 * Fifos => nodes # <<>>

Pending == IF wrapped THEN 1 ELSE 0
Missed == wraps - high - Pending

\* One wrap may be lost where a stage acknowledges what it finds.
TimeInv ==
  /\ wraps \in Int /\ high \in Int
  /\ stage = "S2" => Missed \in 0..(IF pc <= 6 THEN 0 ELSE 1)
  /\ stage = "S3" => Missed \in 0..(IF pc <= 5 THEN 1 ELSE 2)

Inv == ProgInv /\ CacheInv /\ TableInv /\ IrqInv /\ BellInv /\ TimeInv

-----------------------------------------------------------------------------
(***************************************************************************)
(* What the place in the program says about the operation, and back.       *)
(***************************************************************************)
LEMMA LoopFacts == Fifos \in Nat /\ Loop \in Nat /\ Loop >= 13 /\ Loop = 13 + 2 * Fifos
BY StartupAssumption DEF Loop

LEMMA Place ==
  ASSUME ProgInv, stage # "panic"
  PROVE  (stage = "S2" => InS2(pc, Now)) /\ (stage = "S3" => InS3(pc, Now))
<1>1. stage = "S2" => InS2(pc, Now)
  BY S2Place DEF ProgInv, Now, Program
<1>2. stage = "S3" => InS3(pc, Now)
  BY S3Place DEF ProgInv, Now, Program
<1> QED
  BY <1>1, <1>2

In(s, i) == stage = s /\ pc = i

LEMMA IrqPlaces ==
  ASSUME ProgInv
  PROVE  /\ At("startup") => In("S2", 1) \/ In("S3", 1)
         /\ At("timerReset") => In("S2", 2)
         /\ At("irqInit") => In("S2", 3) \/ In("S3", 2)
         /\ At("enable") => \/ (In("S2", 4) \/ In("S3", 3)) /\ Now.id = Timer7
                            \/ Now.id \in Fifo /\ In("S3", 9 + 2 * Now.id)
         /\ At("store") => \/ (In("S2", 5) \/ In("S3", 4)) /\ Now.id = Timer7
                           \/ Now.id \in Fifo /\ In("S3", 10 + 2 * Now.id)
         /\ At("eoi") => In("S2", 6) \/ In("S3", 5)
         /\ At("unmask") => In("S2", 7) \/ In("S3", 6)
         /\ At("register") => In("S2", 8) \/ In("S3", 7)
<1> SUFFICES ASSUME stage # "panic"
             PROVE  /\ Now.op = "startup" => In("S2", 1) \/ In("S3", 1)
                    /\ Now.op = "timerReset" => In("S2", 2)
                    /\ Now.op = "irqInit" => In("S2", 3) \/ In("S3", 2)
                    /\ Now.op = "enable" => \/ (In("S2", 4) \/ In("S3", 3)) /\ Now.id = Timer7
                                            \/ Now.id \in Fifo /\ In("S3", 9 + 2 * Now.id)
                    /\ Now.op = "store" => \/ (In("S2", 5) \/ In("S3", 4)) /\ Now.id = Timer7
                                           \/ Now.id \in Fifo /\ In("S3", 10 + 2 * Now.id)
                    /\ Now.op = "eoi" => In("S2", 6) \/ In("S3", 5)
                    /\ Now.op = "unmask" => In("S2", 7) \/ In("S3", 6)
                    /\ Now.op = "register" => In("S2", 8) \/ In("S3", 7)
  BY DEF At
<1>1. CASE stage = "S2"
  BY <1>1, Place DEF InS2, In
<1>2. CASE stage = "S3"
  BY <1>2, Place, Zenon DEF InS3, In
<1> QED
  BY <1>1, <1>2, Zenon DEF ProgInv

LEMMA OtherPlaces ==
  ASSUME ProgInv
  PROVE  /\ At("mapRange") => In("S2", 9)
         /\ At("load") => In("S2", 10)
         /\ At("jump") => In("S2", 11)
         /\ At("iommuReset") => In("S3", 8)
         /\ At("iommuInit") => In("S3", 9)
         /\ At("mboxReset") => In("S3", 10)
         /\ At("ipcStart") => In("S3", 11 + 2 * Fifos)
         /\ At("startArm") => In("S3", 12 + 2 * Fifos)
         /\ At("loop") => In("S3", Loop)
<1> SUFFICES ASSUME stage # "panic"
             PROVE  /\ Now.op = "mapRange" => In("S2", 9)
                    /\ Now.op = "load" => In("S2", 10)
                    /\ Now.op = "jump" => In("S2", 11)
                    /\ Now.op = "iommuReset" => In("S3", 8)
                    /\ Now.op = "iommuInit" => In("S3", 9)
                    /\ Now.op = "mboxReset" => In("S3", 10)
                    /\ Now.op = "ipcStart" => In("S3", 11 + 2 * Fifos)
                    /\ Now.op = "startArm" => In("S3", 12 + 2 * Fifos)
                    /\ Now.op = "loop" => In("S3", Loop)
  BY DEF At
<1>1. CASE stage = "S2"
  BY <1>1, Place DEF InS2, In
<1>2. CASE stage = "S3"
  BY <1>2, Place DEF InS3, In
<1> QED
  BY <1>1, <1>2 DEF ProgInv

\* No core runs before the main loop.
LEMMA ArmOnAtLoop == ASSUME ProgInv, ArmOn PROVE In("S3", Loop)
<1>1. PICK k \in 1..(pc - 1) : S3Main[k].op = "startArm"
  BY DEF ArmOn, Program
<1>2. stage = "S3" /\ pc \in 1..Loop
  BY DEF ArmOn, ProgInv
<1>3. k \in 1..Loop /\ k < pc
  BY <1>1, <1>2, LoopFacts
<1>4. k = 12 + 2 * Fifos
  BY <1>1, <1>3, S3Place, Zenon DEF InS3
<1> QED
  BY <1>2, <1>3, <1>4, LoopFacts DEF In
-----------------------------------------------------------------------------
(***************************************************************************)
(* Steps that only go on in the program, and steps that leave the          *)
(* interrupts alone.                                                       *)
(***************************************************************************)

\* A step of the set-up leaves the tables alone.
LEMMA GoKeeps ==
  ASSUME ProgInv, CacheInv, TableInv, Go, ~flush, isr' = isr,
         \/ stage = "S2" /\ pc < 11 /\ (pc = 9 => at > DdrLast)
         \/ stage = "S3" /\ pc < Loop /\ pc \notin {8, 9}
  PROVE  ProgInv' /\ CacheInv' /\ TableInv'
<1>1. /\ pc' = pc + 1 /\ stage' = stage /\ flush' = flush /\ at' = at /\ todo' = todo /\ win' = win
      /\ xlat' = xlat /\ table' = table /\ cache' = cache /\ pc \in Int
  BY DEF Go, iommuVars, ProgInv
<1>2. ProgInv'
  BY <1>1, LoopFacts DEF ProgInv
<1>3. CacheInv'
  BY <1>1 DEF CacheInv, Slot
<1>4. TableInv'
  <2>1. (stage = "S2" /\ pc = 9) => at = DdrLast + 1
    BY StartupAssumption DEF TableInv, Slot
  <2> QED
    BY <1>1, <2>1, LoopFacts DEF TableInv, Slot, Entry, NoWin, ProgInv
<1> QED
  BY <1>2, <1>3, <1>4

\* The interrupts, the doorbells and the time stay as they are.
Quiet == IrqInv /\ BellInv /\ TimeInv

LEMMA IrqKept ==
  ASSUME ProgInv, Quiet, UNCHANGED irqVars,
         \/ stage' = stage /\ pc' = pc
         \/ stage' = "panic" /\ pc' = pc /\ (In("S2", 9) \/ In("S3", Loop))
  PROVE  Quiet'
<1>1. /\ ie' = ie /\ ens' = ens /\ handlers' = handlers /\ isr' = isr /\ id' = id /\ masked' = masked
      /\ wrapped' = wrapped /\ high' = high /\ wraps' = wraps /\ bells' = bells /\ nodes' = nodes
      /\ dropped' = dropped /\ pc' = pc /\ pc \in Int
  BY Zenon DEF irqVars, cpuVars, isrVars, timerVars, mboxVars, ProgInv
<1>2. IrqInv'
  BY <1>1, LoopFacts DEF Quiet, IrqInv, Line, Source, Fifo, In
<1>3. BellInv'
  BY <1>1, LoopFacts DEF Quiet, BellInv, In
<1>4. TimeInv'
  BY <1>1 DEF Quiet, TimeInv, Missed, Pending
<1> QED
  BY <1>2, <1>3, <1>4 DEF Quiet

-----------------------------------------------------------------------------
(***************************************************************************)
(* The steps.                                                              *)
(***************************************************************************)
LEMMA EmptyFacts == DOMAIN Empty = {} /\ <<>> \in Seq(Int) /\ <<>> \in Seq({"risc0_ipc_irq_handler"})
BY DEF Empty

LEMMA InitInv == Init => Inv
<1> SUFFICES ASSUME Init PROVE Inv
  OBVIOUS
<1>1. ProgInv
  <2>1. stage = "S2" /\ pc = 1 /\ flush = FALSE /\ isr = "out"
    BY DEF Init
  <2>2. flush \in BOOLEAN /\ ~flush
    BY <2>1, Zenon
  <2>3. stage = "S2" /\ pc \in 1..11 /\ pc \in Int /\ isr = "out"
    BY <2>1
  <2> QED
    BY <2>2, <2>3 DEF ProgInv
<1>2. CacheInv
  BY EmptyFacts, Zenon DEF Init, CacheInv
<1>3. TableInv
  <2>1. DefaultTables \in [Slot -> [user : BOOLEAN, to : Int]]
    BY DEF DefaultTables, Entry, Slot
  <2>2. table \in [Slot -> [user : BOOLEAN, to : Int]]
    BY <2>1, StartupAssumption, Zenon DEF Init, Entry
  <2>3. at \in DdrFirst..(DdrLast + 1) /\ DdrFirst..(at - 1) = {}
    BY StartupAssumption DEF Init, Slot
  <2>4. stage = "S2" /\ pc = 1 /\ todo = <<>> /\ win = NoWin
    BY DEF Init
  <2> QED
    BY <2>2, <2>3, <2>4, EmptyFacts DEF TableInv
<1>4. IrqInv
  BY DEF Init, IrqInv, Source, Fifo, Timer7, NoHandler
<1>5. BellInv
  BY EmptyFacts DEF Init, BellInv
<1>6. TimeInv
  BY DEF Init, TimeInv, Missed, Pending
<1> QED
  BY <1>1, <1>2, <1>3, <1>4, <1>5, <1>6 DEF Inv

\* The set-up of the interrupts.
LEMMA StartupsStep == ASSUME Inv, Startups PROVE Inv'
<1>1. (In("S2", 1) \/ In("S3", 1)) /\ isr = "out" /\ ~flush
  BY IrqPlaces, Zenon DEF Inv, Startups, At
<1>2. /\ ie' = FALSE /\ handlers' = [i \in Source |-> NoHandler] /\ ens' = ens /\ isr' = isr /\ wrapped' = wrapped
      /\ high' = high /\ wraps' = wraps /\ bells' = bells /\ nodes' = <<>> /\ dropped' = dropped /\ stage' = stage /\ pc' = pc + 1
  BY DEF Startups, StartupCode, Go, isrVars
<1>3. ProgInv' /\ CacheInv' /\ TableInv'
  BY <1>1, <1>2, GoKeeps, LoopFacts DEF Inv, In, Startups
<1>4. IrqInv'
  BY <1>1, <1>2 DEF Inv, IrqInv, In, Source, Fifo, Timer7, NoHandler
<1>5. BellInv'
  BY <1>1, <1>2, LoopFacts, EmptyFacts DEF Inv, BellInv, In
<1>6. TimeInv'
  BY <1>1, <1>2 DEF Inv, TimeInv, Missed, Pending, In
<1> QED
  BY <1>3, <1>4, <1>5, <1>6 DEF Inv

LEMMA ResetsStep == ASSUME Inv, Resets PROVE Inv'
<1>1. In("S2", 2) /\ isr = "out" /\ ~flush
  BY IrqPlaces, Zenon DEF Inv, Resets, At
<1>2. /\ ie' = ie /\ handlers' = handlers /\ ens' = ens /\ isr' = isr /\ wrapped' = wrapped
      /\ high' = 0 /\ wraps' = (IF wrapped THEN 1 ELSE 0) /\ bells' = bells /\ nodes' = nodes /\ dropped' = dropped
      /\ stage' = stage /\ pc' = pc + 1
  BY DEF Resets, TimerReset, Go, isrVars, cpuVars, mboxVars
<1>3. ProgInv' /\ CacheInv' /\ TableInv'
  BY <1>1, <1>2, GoKeeps, LoopFacts DEF Inv, In, Resets
<1>4. IrqInv'
  BY <1>1, <1>2 DEF Inv, IrqInv, In
<1>5. BellInv'
  BY <1>1, <1>2, Zenon DEF Inv, BellInv, In
<1>6. TimeInv'
  BY <1>1, <1>2 DEF Inv, TimeInv, Missed, Pending, In
<1> QED
  BY <1>3, <1>4, <1>5, <1>6 DEF Inv

LEMMA InitsStep == ASSUME Inv, Inits PROVE Inv'
<1>1. (In("S2", 3) \/ In("S3", 2)) /\ isr = "out" /\ ~flush
  BY IrqPlaces, Zenon DEF Inv, Inits, At
<1>2. /\ ens' = {} /\ handlers' = handlers /\ isr' = isr /\ wrapped' = wrapped
      /\ high' = high /\ wraps' = wraps /\ bells' = bells /\ nodes' = nodes /\ dropped' = dropped
      /\ stage' = stage /\ pc' = pc + 1
  BY DEF Inits, IrqInit, Go, isrVars, timerVars, mboxVars
<1>3. ProgInv' /\ CacheInv' /\ TableInv'
  BY <1>1, <1>2, GoKeeps, LoopFacts DEF Inv, In, Inits
<1>4. IrqInv'
  BY <1>1, <1>2 DEF Inv, IrqInv, In, Source, Fifo
<1>5. BellInv'
  BY <1>1, <1>2, LoopFacts DEF Inv, BellInv, In
<1>6. TimeInv'
  BY <1>1, <1>2 DEF Inv, TimeInv, Missed, Pending, In
<1> QED
  BY <1>3, <1>4, <1>5, <1>6 DEF Inv

LEMMA EnablesStep == ASSUME Inv, Enables PROVE Inv'
<1>1. /\ \/ (In("S2", 4) \/ In("S3", 3)) /\ Now.id = Timer7
         \/ Now.id \in Fifo /\ In("S3", 9 + 2 * Now.id)
      /\ isr = "out" /\ ~flush
  BY IrqPlaces, Zenon DEF Inv, Enables, At
<1>2. /\ ens' = ens \cup {Now.id} /\ ie' = ie /\ handlers' = handlers /\ isr' = isr /\ wrapped' = wrapped
      /\ high' = high /\ wraps' = wraps /\ bells' = bells /\ nodes' = nodes /\ dropped' = dropped
      /\ stage' = stage /\ pc' = pc + 1
  BY Zenon DEF Enables, AttachEnable, Go, isrVars, timerVars, mboxVars
<1>3. ProgInv' /\ CacheInv' /\ TableInv'
  BY <1>1, <1>2, GoKeeps, LoopFacts DEF Inv, In, Enables, Fifo
<1>4. IrqInv'
  <2>1. CASE Now.id = Timer7
    BY <1>1, <1>2, <2>1, LoopFacts DEF Inv, IrqInv, In, Source, Fifo, Timer7
  <2>2. CASE Now.id \in Fifo /\ In("S3", 9 + 2 * Now.id)
    <3>1. stage' = "S3" /\ pc > 10 /\ pc' > 10 /\ Now.id \in Int /\ pc' = 10 + 2 * Now.id
      BY <1>2, <2>2, LoopFacts DEF In, Fifo
    <3>2. \A f \in Fifo : pc' > 10 + 2 * f => pc > 10 + 2 * f
      BY <2>2, <3>1, LoopFacts DEF In, Fifo
    <3>3. ens' \subseteq Source
      BY <1>2, <2>2, Zenon DEF Inv, IrqInv, Source
    <3> HIDE DEF Fifo
    <3> QED
      BY <1>1, <1>2, <2>2, <3>1, <3>2, <3>3 DEF Inv, IrqInv, In, Source
  <2> QED
    BY <1>1, <2>1, <2>2
<1>5. BellInv'
  <2>1. stage = "S3" /\ pc' \in 11..(12 + 2 * Fifos) => pc \in 11..(12 + 2 * Fifos)
    BY <1>1, <1>2, LoopFacts DEF In, Fifo
  <2>2. stage # "S2" /\ pc' > 11 + 2 * Fifos => pc > 11 + 2 * Fifos
    BY <1>1, <1>2, LoopFacts DEF In, Fifo
  <2> QED
    BY <1>2, <2>1, <2>2, Zenon DEF Inv, BellInv
<1>6. TimeInv'
  BY <1>1, <1>2, LoopFacts DEF Inv, TimeInv, Missed, Pending, In, Fifo
<1> QED
  BY <1>3, <1>4, <1>5, <1>6 DEF Inv

LEMMA StoresStep == ASSUME Inv, Stores PROVE Inv'
<1>1. /\ \/ (In("S2", 5) \/ In("S3", 4)) /\ Now.id = Timer7
         \/ Now.id \in Fifo /\ In("S3", 10 + 2 * Now.id)
      /\ isr = "out" /\ ~flush
  BY IrqPlaces, Zenon DEF Inv, Stores, At
<1>2. /\ handlers' = [handlers EXCEPT ![Now.id] =
                        IF Now.id = Timer7 THEN "irq_timer_handler" ELSE "irq_mailbox_handler"]
      /\ ens' = ens /\ ie' = ie /\ isr' = isr /\ wrapped' = wrapped
      /\ high' = high /\ wraps' = wraps /\ bells' = bells /\ nodes' = nodes /\ dropped' = dropped
      /\ stage' = stage /\ pc' = pc + 1
  BY DEF Stores, AttachStore, Go, isrVars, timerVars, mboxVars
<1>3. ProgInv' /\ CacheInv' /\ TableInv'
  BY <1>1, <1>2, GoKeeps, LoopFacts DEF Inv, In, Stores, Fifo
<1>4. IrqInv'
  <2>1. CASE Now.id = Timer7
    BY <1>1, <1>2, <2>1, LoopFacts DEF Inv, IrqInv, In, Source, Fifo, Timer7
  <2>2. CASE Now.id \in Fifo /\ In("S3", 10 + 2 * Now.id)
    BY <1>1, <1>2, <2>2, LoopFacts DEF Inv, IrqInv, In, Source, Fifo, Timer7
  <2> QED
    BY <1>1, <2>1, <2>2
<1>5. BellInv'
  <2>1. stage = "S3" /\ pc' \in 11..(12 + 2 * Fifos) => pc \in 11..(12 + 2 * Fifos)
    BY <1>1, <1>2, LoopFacts DEF In, Fifo
  <2>2. stage # "S2" /\ pc' > 11 + 2 * Fifos => pc > 11 + 2 * Fifos
    BY <1>1, <1>2, LoopFacts DEF In, Fifo
  <2> QED
    BY <1>2, <2>1, <2>2, Zenon DEF Inv, BellInv
<1>6. TimeInv'
  BY <1>1, <1>2, LoopFacts DEF Inv, TimeInv, Missed, Pending, In, Fifo
<1> QED
  BY <1>3, <1>4, <1>5, <1>6 DEF Inv

LEMMA EoisStep == ASSUME Inv, Eois PROVE Inv'
<1>1. (In("S2", 6) \/ In("S3", 5)) /\ isr = "out" /\ ~flush
  BY IrqPlaces, Zenon DEF Inv, Eois, At
<1>2. /\ wrapped' = FALSE /\ ie' = ie /\ ens' = ens /\ handlers' = handlers /\ isr' = isr
      /\ high' = high /\ wraps' = wraps /\ bells' = bells /\ nodes' = nodes /\ dropped' = dropped
      /\ stage' = stage /\ pc' = pc + 1
  BY Zenon DEF Eois, TimerEoi, Go, isrVars, cpuVars, mboxVars
<1>3. ProgInv' /\ CacheInv' /\ TableInv'
  BY <1>1, <1>2, GoKeeps, LoopFacts DEF Inv, In, Eois
<1>4. IrqInv'
  BY <1>1, <1>2 DEF Inv, IrqInv, In, Source, Fifo
<1>5. BellInv'
  BY <1>1, <1>2, LoopFacts DEF Inv, BellInv, In
<1>6. TimeInv'
  BY <1>1, <1>2 DEF Inv, TimeInv, Missed, Pending, In
<1> QED
  BY <1>3, <1>4, <1>5, <1>6 DEF Inv

\* lsp1_timers_init_irq and timer_register_hw: the timer interrupt is let through.
LEMMA TimerOnStep == ASSUME Inv, Unmasks \/ Registers PROVE Inv'
<1>1. (In("S2", 7) \/ In("S3", 6) \/ In("S2", 8) \/ In("S3", 7)) /\ isr = "out" /\ ~flush /\ Go
  BY IrqPlaces, Zenon DEF Inv, Unmasks, Registers, At
<1>2. /\ wrapped' = wrapped /\ ie' = ie /\ ens' = ens /\ handlers' = handlers /\ isr' = isr
      /\ high' = high /\ wraps' = wraps /\ bells' = bells /\ nodes' = nodes /\ dropped' = dropped
      /\ stage' = stage /\ pc' = pc + 1
  BY Zenon DEF Unmasks, Registers, TimerUnmask, TimerRegister, Go, isrVars, cpuVars, mboxVars
<1>3. ProgInv' /\ CacheInv' /\ TableInv'
  BY <1>1, <1>2, GoKeeps, LoopFacts DEF Inv, In
<1>4. IrqInv'
  BY <1>1, <1>2 DEF Inv, IrqInv, In, Source, Fifo
<1>5. BellInv'
  BY <1>1, <1>2, LoopFacts DEF Inv, BellInv, In
<1>6. TimeInv'
  BY <1>1, <1>2 DEF Inv, TimeInv, Missed, Pending, In
<1> QED
  BY <1>3, <1>4, <1>5, <1>6 DEF Inv

\* mbox_reset silences the doorbells.
LEMMA MboxResetsStep == ASSUME Inv, MboxResets PROVE Inv'
<1>1. In("S3", 10) /\ isr = "out" /\ ~flush
  BY OtherPlaces, Zenon DEF Inv, MboxResets, At
<1>2. /\ wrapped' = wrapped /\ ie' = ie /\ ens' = ens /\ handlers' = handlers /\ isr' = isr
      /\ high' = high /\ wraps' = wraps /\ bells' = [f \in Fifo |-> FALSE] /\ nodes' = nodes
      /\ dropped' = dropped
      /\ stage' = stage /\ pc' = pc + 1
  BY Zenon DEF MboxResets, MboxReset, Go, isrVars, cpuVars, timerVars
<1>3. ProgInv' /\ CacheInv' /\ TableInv'
  BY <1>1, <1>2, GoKeeps, LoopFacts DEF Inv, In, MboxResets
<1>4. IrqInv'
  BY <1>1, <1>2, LoopFacts DEF Inv, IrqInv, In, Source, Fifo
<1>5. BellInv'
  BY <1>1, <1>2, LoopFacts DEF Inv, BellInv, In
<1>6. TimeInv'
  BY <1>1, <1>2 DEF Inv, TimeInv, Missed, Pending, In
<1> QED
  BY <1>3, <1>4, <1>5, <1>6 DEF Inv

\* risc0_ipc_init: the list of handlers is not empty from here on.
LEMMA IpcStartStep == ASSUME Inv, IpcStart PROVE Inv'
<1>1. In("S3", 11 + 2 * Fifos) /\ isr = "out" /\ ~flush
  BY OtherPlaces, Zenon DEF Inv, IpcStart, At
<1>2. /\ wrapped' = wrapped /\ ie' = ie /\ ens' = ens /\ handlers' = handlers /\ isr' = isr
      /\ high' = high /\ wraps' = wraps /\ bells' = bells /\ dropped' = dropped
      /\ stage' = stage /\ pc' = pc + 1
      /\ nodes' = IF \E i \in DOMAIN nodes : nodes[i] = "risc0_ipc_irq_handler" THEN nodes
                  ELSE Append(nodes, "risc0_ipc_irq_handler")
  BY Zenon DEF IpcStart, MboxAttach, Go, isrVars, cpuVars, timerVars
<1>3. ProgInv' /\ CacheInv' /\ TableInv'
  BY <1>1, <1>2, GoKeeps, LoopFacts DEF Inv, In, IpcStart
<1>4. IrqInv'
  BY <1>1, <1>2, LoopFacts DEF Inv, IrqInv, In, Source, Fifo
<1>5. BellInv'
  <2>1. nodes' # <<>> /\ nodes' \in Seq({"risc0_ipc_irq_handler"})
    <3>1. nodes \in Seq({"risc0_ipc_irq_handler"})
      BY DEF Inv, BellInv
    <3>2. CASE \E i \in DOMAIN nodes : nodes[i] = "risc0_ipc_irq_handler"
      BY <1>2, <3>1, <3>2
    <3>3. CASE ~\E i \in DOMAIN nodes : nodes[i] = "risc0_ipc_irq_handler"
      BY <1>2, <3>1, <3>3
    <3> QED
      BY <3>2, <3>3
  <2> QED
    BY <1>1, <1>2, <2>1, LoopFacts DEF Inv, BellInv, In
<1>6. TimeInv'
  BY <1>1, <1>2, LoopFacts DEF Inv, TimeInv, Missed, Pending, In
<1> QED
  BY <1>3, <1>4, <1>5, <1>6 DEF Inv

\* The end of setup_ddr_regions, the load of the image and the start of the ARM core.
LEMMA PlainStep == ASSUME Inv, MapRangeEnds \/ Load \/ StartArm PROVE Inv'
<1>1. /\ (In("S2", 9) /\ at > DdrLast) \/ In("S2", 10) \/ In("S3", 12 + 2 * Fifos)
      /\ isr = "out" /\ ~flush /\ Go /\ UNCHANGED irqVars
  BY OtherPlaces, Zenon DEF Inv, MapRangeEnds, Load, StartArm, At
<1>2. /\ wrapped' = wrapped /\ ie' = ie /\ ens' = ens /\ handlers' = handlers /\ isr' = isr
      /\ high' = high /\ wraps' = wraps /\ bells' = bells /\ nodes' = nodes /\ dropped' = dropped
      /\ stage' = stage /\ pc' = pc + 1
  BY <1>1, Zenon DEF Go, irqVars, isrVars, cpuVars, timerVars, mboxVars
<1>3. ProgInv' /\ CacheInv' /\ TableInv'
  BY <1>1, <1>2, GoKeeps, LoopFacts DEF Inv, In
<1>4. IrqInv'
  BY <1>1, <1>2, LoopFacts DEF Inv, IrqInv, In, Source, Fifo
<1>5. BellInv'
  BY <1>1, <1>2, LoopFacts DEF Inv, BellInv, In
<1>6. TimeInv'
  BY <1>1, <1>2, LoopFacts DEF Inv, TimeInv, Missed, Pending, In
<1> QED
  BY <1>3, <1>4, <1>5, <1>6, Zenon DEF Inv

\* SBL-S3 begins with what SBL-S2 has left.
LEMMA JumpStep == ASSUME Inv, Jump PROVE Inv'
<1>1. In("S2", 11) /\ isr = "out" /\ ~flush
  BY OtherPlaces, Zenon DEF Inv, Jump, At
<1>2. /\ wrapped' = wrapped /\ ie' = ie /\ ens' = ens /\ handlers' = handlers /\ isr' = isr
      /\ high' = high /\ wraps' = wraps /\ bells' = bells /\ nodes' = nodes /\ dropped' = dropped
      /\ stage' = "S3" /\ pc' = 1
      /\ flush' = flush /\ at' = at /\ todo' = todo /\ win' = win
      /\ xlat' = xlat /\ table' = table /\ cache' = cache
  BY Zenon DEF Jump, irqVars, isrVars, cpuVars, timerVars, mboxVars, iommuVars
<1>3. ProgInv'
  BY <1>1, <1>2, LoopFacts DEF Inv, ProgInv
<1>4. CacheInv'
  BY <1>1, <1>2 DEF Inv, CacheInv, In, Slot
<1>5. TableInv'
  BY <1>1, <1>2, LoopFacts DEF Inv, TableInv, In, Slot
<1>6. IrqInv'
  BY <1>1, <1>2, LoopFacts DEF Inv, IrqInv, In, Source, Fifo
<1>7. BellInv'
  BY <1>1, <1>2, LoopFacts DEF Inv, BellInv, In
<1>8. TimeInv'
  BY <1>1, <1>2 DEF Inv, TimeInv, Missed, Pending, In
<1> QED
  BY <1>3, <1>4, <1>5, <1>6, <1>7, <1>8, Zenon DEF Inv

\* One slot of the memory for the image is mapped, or the slot is taken.
LEMMA MapRangeStep == ASSUME Inv, MapRange PROVE Inv'
<1>1. In("S2", 9) /\ isr = "out" /\ ~flush /\ at <= DdrLast /\ pc' = pc /\ todo' = todo /\ win' = win
      /\ UNCHANGED irqVars /\ isr' = isr
  BY OtherPlaces, Zenon DEF Inv, MapRange, At, irqVars, isrVars
<1>2. CASE table[at].user
  <2>1. stage' = "panic" /\ flush' = flush /\ at' = at /\ xlat' = xlat /\ table' = table /\ cache' = cache
    BY <1>2, Zenon DEF MapRange, iommuVars
  <2>2. Quiet'
    BY <1>1, <2>1, IrqKept, Zenon DEF Inv, Quiet
  <2>3. ProgInv'
    BY <1>1, <2>1, Zenon DEF Inv, ProgInv, In
  <2>4. CacheInv'
    BY <1>1, <2>1, Zenon DEF Inv, CacheInv, In, Slot
  <2>5. TableInv'
    BY <1>1, <2>1, LoopFacts, Zenon DEF Inv, TableInv, In, Slot
  <2> QED
    BY <2>2, <2>3, <2>4, <2>5, Zenon DEF Inv, Quiet
<1>3. CASE ~table[at].user
  <2>1. /\ stage' = stage /\ flush' = TRUE /\ at' = at + 1 /\ xlat' = xlat /\ cache' = cache
        /\ table' = [table EXCEPT ![at] = Entry(TRUE, Ddr + at)]
    BY <1>3, Zenon DEF MapRange, IommuMapSlot, SetEntry
  <2>2. Quiet'
    BY <1>1, <2>1, IrqKept, Zenon DEF Inv, Quiet
  <2>3. ProgInv'
    <3>1. flush' \in BOOLEAN
      BY <2>1, Zenon
    <3> QED
      BY <1>1, <2>1, <3>1, Zenon DEF Inv, ProgInv, In
  <2>4. CacheInv'
    BY <1>1, <2>1, Zenon DEF Inv, CacheInv, In, Slot
  <2>5. TableInv'
    <3>1. at \in Slot /\ at \in DdrFirst..DdrLast /\ Ddr + at \in Int
      <4>1. at \in DdrFirst..(DdrLast + 1)
        BY <1>1, Zenon DEF Inv, TableInv, In
      <4> QED
        BY <1>1, <4>1, StartupAssumption DEF Slot
    <3>2. table' \in [Slot -> [user : BOOLEAN, to : Int]]
      BY <2>1, <3>1, Zenon DEF Inv, TableInv, Entry
    <3>3. at' \in DdrFirst..(DdrLast + 1)
      BY <2>1, <3>1, StartupAssumption DEF Slot
    <3>4. ASSUME NEW s \in DdrFirst..(at' - 1) PROVE table'[s].to = Ddr + s
      <4>1. s \in Slot /\ (s = at \/ s \in DdrFirst..(at - 1))
        BY <2>1, <3>1, StartupAssumption DEF Slot
      <4> QED
        BY <1>1, <2>1, <3>1, <4>1, Zenon DEF Inv, TableInv, In, Entry
    <3>5. stage' = "S2" /\ pc' = 9 /\ todo' = <<>> /\ win' = NoWin
      BY <1>1, <2>1, Zenon DEF Inv, TableInv, In, NoWin
    <3>6. ~(pc' > 9) /\ pc' # Loop /\ todo' \in Seq(Int)
      BY <3>5, LoopFacts, EmptyFacts
    <3> QED
      BY <3>2, <3>3, <3>4, <3>5, <3>6, Zenon DEF TableInv
  <2> QED
    BY <2>2, <2>3, <2>4, <2>5, Zenon DEF Inv, Quiet
<1> QED
  BY <1>2, <1>3

\* iommu_cache_invalidate
LEMMA InvalidateStep == ASSUME Inv, Invalidate PROVE Inv'
<1>1. /\ UNCHANGED irqVars /\ stage' = stage /\ pc' = pc /\ at' = at /\ todo' = todo /\ win' = win /\ flush' = FALSE
      /\ cache' = Empty /\ xlat' = xlat /\ table' = table /\ isr' = isr /\ flush
  BY Zenon DEF Invalidate, IommuCacheInvalidate, irqVars, isrVars
<1>2. Quiet'
  BY <1>1, IrqKept DEF Inv, Quiet
<1>3. ProgInv'
  <2>1. flush' \in BOOLEAN /\ ~flush'
    BY <1>1, Zenon
  <2> QED
    BY <1>1, <2>1, Zenon DEF Inv, ProgInv
<1>4. CacheInv'
  BY <1>1, EmptyFacts, LoopFacts, Zenon DEF Inv, CacheInv, ProgInv
<1>5. TableInv'
  BY <1>1, Zenon DEF Inv, TableInv, Slot
<1> QED
  BY <1>2, <1>3, <1>4, <1>5 DEF Inv, Quiet

\* iommu_reset and iommu_init
LEMMA NewTablesStep == ASSUME Inv, ResetsIommu \/ InitsIommu PROVE Inv'
<1>1. /\ (In("S3", 8) /\ xlat' = FALSE /\ cache' = Empty /\ table' = table)
         \/ (In("S3", 9) /\ table' = DefaultTables /\ xlat' = TRUE /\ cache' = cache)
      /\ UNCHANGED irqVars /\ ~flush
      /\ stage' = stage /\ pc' = pc + 1 /\ flush' = flush /\ at' = at /\ todo' = todo /\ win' = win
  BY OtherPlaces, Zenon DEF Inv, ResetsIommu, InitsIommu, IommuReset, IommuInit, At
<1>2. /\ wrapped' = wrapped /\ masked' = masked /\ ie' = ie /\ ens' = ens /\ handlers' = handlers /\ isr' = isr
      /\ high' = high /\ wraps' = wraps /\ bells' = bells /\ nodes' = nodes /\ dropped' = dropped /\ id' = id
  BY <1>1, Zenon DEF irqVars, isrVars, cpuVars, timerVars, mboxVars
<1>3. ProgInv'
  BY <1>1, <1>2, LoopFacts DEF Inv, ProgInv, In
<1>4. CacheInv'
  <2>1. CASE In("S3", 8) /\ xlat' = FALSE /\ cache' = Empty
    BY <1>1, <2>1, EmptyFacts DEF CacheInv, In
  <2>2. CASE In("S3", 9) /\ xlat' = TRUE /\ cache' = cache
    BY <1>1, <2>2 DEF Inv, CacheInv, In
  <2> QED
    BY <1>1, <2>1, <2>2, Zenon
<1>5. TableInv'
  <2>1. CASE In("S3", 8) /\ table' = table
    BY <1>1, <2>1, LoopFacts DEF Inv, TableInv, In
  <2>2. CASE In("S3", 9) /\ table' = DefaultTables
    <3>1. table' \in [Slot -> [user : BOOLEAN, to : Int]] /\ \A s \in Slot : table'[s] = Entry(FALSE, s)
      BY <2>2 DEF DefaultTables, Entry, Slot
    <3>2. stage' = "S3" /\ pc' = 10 /\ todo' = <<>> /\ win' = NoWin
      BY <1>1, <2>2, LoopFacts DEF Inv, TableInv, In
    <3> QED
      BY <3>1, <3>2, EmptyFacts, Zenon DEF TableInv
  <2> QED
    BY <1>1, <2>1, <2>2, Zenon
<1>6. IrqInv'
  <2>1. stage' = "S3" /\ pc \in {8, 9} /\ pc' \in {9, 10} /\ stage = "S3"
    BY <1>1, <1>2 DEF In
  <2>2. \A f \in Fifo : ~(pc' > 10 + 2 * f)
    BY <2>1 DEF Fifo
  <2>3. isr' = "claimed" => Line(id)'
    BY <1>2, Zenon DEF Inv, IrqInv, Line
  <2> QED
    BY <1>2, <2>1, <2>2, <2>3 DEF Inv, IrqInv
<1>7. BellInv'
  BY <1>1, <1>2, LoopFacts DEF Inv, BellInv, In
<1>8. TimeInv'
  BY <1>1, <1>2 DEF Inv, TimeInv, Missed, Pending, In
<1> QED
  BY <1>3, <1>4, <1>5, <1>6, <1>7, <1>8 DEF Inv

\* A request is taken, with interrupts disabled.
LEMMA ServeStep == ASSUME Inv, NEW b \in Seq(Int), Serve(b) PROVE Inv'
<1>1. /\ In("S3", Loop) /\ todo = <<>> /\ isr = "out"
      /\ ie' = FALSE /\ todo' = b /\ ens' = ens /\ handlers' = handlers /\ isr' = isr
      /\ wrapped' = wrapped /\ high' = high /\ wraps' = wraps /\ bells' = bells /\ nodes' = nodes /\ dropped' = dropped
      /\ stage' = stage /\ pc' = pc /\ flush' = flush /\ at' = at /\ win' = win
      /\ xlat' = xlat /\ table' = table /\ cache' = cache
  BY OtherPlaces, Zenon DEF Inv, Serve, At, isrVars, timerVars, iommuVars
<1>2. ProgInv'
  BY <1>1, Zenon DEF Inv, ProgInv
<1>3. CacheInv'
  BY <1>1, Zenon DEF Inv, CacheInv
<1>4. TableInv'
  BY <1>1, Zenon DEF Inv, TableInv, In
<1>5. IrqInv'
  <2>1. ~ie' /\ isr' # "claimed"
    BY <1>1, Zenon
  <2> QED
    BY <1>1, <2>1, Zenon DEF Inv, IrqInv
<1>6. BellInv'
  BY <1>1, Zenon DEF Inv, BellInv
<1>7. TimeInv'
  BY <1>1, Zenon DEF Inv, TimeInv, Missed, Pending
<1> QED
  BY <1>2, <1>3, <1>4, <1>5, <1>6, <1>7, Zenon DEF Inv

\* iommu_map opens a window, or finds no slot.
LEMMA OpenWindowStep == ASSUME Inv, OpenWindow PROVE Inv'
<1>1. /\ In("S3", Loop) /\ todo # <<>> /\ win = NoWin /\ isr = "out" /\ ~flush /\ UNCHANGED irqVars /\ isr' = isr
      /\ pc' = pc /\ at' = at /\ todo' = todo
  BY OtherPlaces, Zenon DEF Inv, OpenWindow, At, irqVars, isrVars
<1>2. CASE FreeSlot \in Slot
  <2>1. /\ table' = [table EXCEPT ![FreeSlot] = Entry(TRUE, Head(todo))] /\ xlat' = xlat /\ cache' = cache
        /\ win' = FreeSlot /\ flush' = TRUE /\ stage' = stage
    BY <1>2, Zenon DEF OpenWindow, IommuMap, SetEntry
  <2>2. Quiet'
    BY <1>1, <2>1, IrqKept, Zenon DEF Inv, Quiet
  <2>3. ProgInv'
    <3>1. flush' \in BOOLEAN
      BY <2>1, Zenon
    <3> QED
      BY <1>1, <2>1, <3>1, Zenon DEF Inv, ProgInv, In
  <2>4. CacheInv'
    BY <1>1, <2>1, LoopFacts, Zenon DEF Inv, CacheInv, In
  <2>5. TableInv'
    <3>1. Head(todo) \in Int /\ todo \in Seq(Int) /\ table \in [Slot -> [user : BOOLEAN, to : Int]]
      BY <1>1 DEF Inv, TableInv
    <3>2. table' \in [Slot -> [user : BOOLEAN, to : Int]]
      BY <1>2, <2>1, <3>1, Zenon DEF Entry
    <3>3. ASSUME NEW s \in Slot, s # win' PROVE table'[s] = Entry(FALSE, s)
      <4>1. s # win
        BY StartupAssumption, <1>1 DEF NoWin, Slot
      <4>2. stage = "S3" /\ pc > 9
        BY <1>1, LoopFacts DEF In
      <4>3. table[s] = Entry(FALSE, s)
        BY <4>1, <4>2, Zenon DEF Inv, TableInv
      <4> QED
        BY <2>1, <3>1, <3>3, <4>3, Zenon
    <3>4. win' \in Slot /\ table'[win'].to = Head(todo')
      BY <1>1, <1>2, <2>1, <3>1, Zenon DEF Entry
    <3>5. stage' = "S3" /\ pc' = Loop /\ todo' # <<>> /\ todo' \in Seq(Int)
      BY <1>1, <2>1, <3>1, Zenon DEF In
    <3> QED
      BY <3>2, <3>3, <3>4, <3>5, Zenon DEF TableInv
  <2> QED
    BY <2>2, <2>3, <2>4, <2>5, Zenon DEF Inv, Quiet
<1>3. CASE FreeSlot \notin Slot
  <2>1. stage' = "panic" /\ flush' = flush /\ xlat' = xlat /\ table' = table /\ cache' = cache /\ win' = win
    BY <1>3, Zenon DEF OpenWindow, iommuVars
  <2>2. Quiet'
    BY <1>1, <2>1, IrqKept, Zenon DEF Inv, Quiet
  <2>3. ProgInv'
    BY <1>1, <2>1, Zenon DEF Inv, ProgInv, In
  <2>4. CacheInv'
    BY <1>1, <2>1, LoopFacts DEF Inv, CacheInv, In
  <2>5. TableInv'
    BY <1>1, <2>1, Zenon DEF Inv, TableInv, In
  <2> QED
    BY <2>2, <2>3, <2>4, <2>5, Zenon DEF Inv, Quiet
<1> QED
  BY <1>2, <1>3

\* iommu_unmap closes it.
LEMMA CloseWindowStep == ASSUME Inv, CloseWindow PROVE Inv'
<1>1. /\ In("S3", Loop) /\ win # NoWin /\ isr = "out" /\ ~flush /\ UNCHANGED irqVars /\ isr' = isr
      /\ pc' = pc /\ at' = at /\ stage' = stage /\ flush' = TRUE /\ win' = NoWin /\ todo' = Tail(todo)
      /\ table' = [table EXCEPT ![win] = Entry(FALSE, win)] /\ xlat' = xlat /\ cache' = cache
  BY OtherPlaces, Zenon DEF Inv, CloseWindow, IommuUnmap, SetEntry, At, irqVars, isrVars
<1>2. Quiet'
  BY <1>1, IrqKept, Zenon DEF Inv, Quiet
<1>3. ProgInv'
  <2>1. flush' \in BOOLEAN
    BY <1>1, Zenon
  <2> QED
    BY <1>1, <2>1, Zenon DEF Inv, ProgInv, In
<1>4. CacheInv'
  BY <1>1, LoopFacts, Zenon DEF Inv, CacheInv, In
<1>5. TableInv'
  <2>1. /\ todo \in Seq(Int) /\ todo # <<>> /\ win \in Slot /\ table \in [Slot -> [user : BOOLEAN, to : Int]]
        /\ win \in Int
    BY <1>1 DEF Inv, TableInv, In, Slot
  <2>2. table' \in [Slot -> [user : BOOLEAN, to : Int]]
    BY <1>1, <2>1, Zenon DEF Entry
  <2>3. ASSUME NEW s \in Slot PROVE table'[s] = Entry(FALSE, s)
    <3>1. stage = "S3" /\ pc > 9
      BY <1>1, LoopFacts DEF In
    <3>2. s = win \/ table[s] = Entry(FALSE, s)
      BY <3>1, Zenon DEF Inv, TableInv
    <3> QED
      BY <1>1, <2>1, <3>2, Zenon
  <2>4. stage' = "S3" /\ pc' = Loop /\ todo' \in Seq(Int) /\ win' = NoWin
    BY <1>1, <2>1 DEF In
  <2> QED
    BY <2>2, <2>3, <2>4, Zenon DEF TableInv
<1> QED
  BY <1>2, <1>3, <1>4, <1>5, Zenon DEF Inv, Quiet

LEMMA ServedStep == ASSUME Inv, Served PROVE Inv'
<1>1. /\ In("S3", Loop) /\ isr = "out"
      /\ ens' = ens /\ handlers' = handlers /\ isr' = isr
      /\ wrapped' = wrapped /\ high' = high /\ wraps' = wraps /\ bells' = bells /\ nodes' = nodes /\ dropped' = dropped
      /\ stage' = stage /\ pc' = pc /\ flush' = flush /\ at' = at /\ win' = win /\ todo' = todo
      /\ xlat' = xlat /\ table' = table /\ cache' = cache
  BY OtherPlaces, Zenon DEF Inv, Served, At, isrVars, timerVars, iommuVars, mboxVars
<1>2. ProgInv'
  BY <1>1, Zenon DEF Inv, ProgInv
<1>3. CacheInv'
  BY <1>1, Zenon DEF Inv, CacheInv
<1>4. TableInv'
  BY <1>1, Zenon DEF Inv, TableInv, In
<1>5. IrqInv'
  <2>1. stage = "S3" /\ pc # 2 /\ isr' # "claimed"
    BY <1>1, LoopFacts DEF In
  <2> QED
    BY <1>1, <2>1, Zenon DEF Inv, IrqInv
<1>6. BellInv'
  BY <1>1, Zenon DEF Inv, BellInv
<1>7. TimeInv'
  BY <1>1, Zenon DEF Inv, TimeInv, Missed, Pending
<1> QED
  BY <1>2, <1>3, <1>4, <1>5, <1>6, <1>7, Zenon DEF Inv
-----------------------------------------------------------------------------
\* A claimed doorbell finds its handler and a list that is not empty.
LEMMA ClaimedFifo ==
  ASSUME ProgInv, IrqInv, BellInv, isr = "claimed", id \in Fifo
  PROVE  handlers[id] = "irq_mailbox_handler" /\ nodes # <<>>
<1>1. id \in ens /\ ie /\ bells[id] /\ id # Timer7 /\ id \in 1..Fifos
  BY DEF IrqInv, Line, Fifo, Timer7
<1>2. stage # "S2" /\ pc > 10
  BY <1>1 DEF IrqInv, ProgInv
<1>3. pc = Loop
  BY <1>1, <1>2, LoopFacts DEF ProgInv, BellInv
<1> QED
  BY <1>1, <1>2, <1>3, LoopFacts DEF IrqInv, BellInv

\* The processor and the devices leave the program where it is.
LEMMA ProgKept ==
  ASSUME ProgInv, CacheInv, TableInv, isr' \in {"out", "claimed"}, UNCHANGED <<iommuVars, progVars>>
  PROVE  ProgInv' /\ CacheInv' /\ TableInv'
<1>1. /\ stage' = stage /\ pc' = pc /\ flush' = flush /\ at' = at /\ win' = win /\ todo' = todo
      /\ xlat' = xlat /\ table' = table /\ cache' = cache
  BY Zenon DEF iommuVars, progVars
<1>2. ProgInv'
  BY <1>1, Zenon DEF ProgInv
<1>3. CacheInv'
  BY <1>1, Zenon DEF CacheInv
<1>4. TableInv'
  BY <1>1, Zenon DEF TableInv
<1> QED
  BY <1>2, <1>3, <1>4, Zenon

LEMMA IrqEnterStep == ASSUME Inv, IrqEnter, UNCHANGED <<iommuVars, progVars, rings>> PROVE Inv'
<1>1. /\ isr' = "claimed" /\ ie /\ id' \in ens /\ Line(id')
      /\ ie' = ie /\ ens' = ens /\ handlers' = handlers /\ masked' = masked
      /\ wrapped' = wrapped /\ high' = high /\ wraps' = wraps /\ bells' = bells /\ nodes' = nodes /\ dropped' = dropped
      /\ stage' = stage /\ pc' = pc
  BY Zenon DEF IrqEnter, Requests, cpuVars, timerVars, mboxVars, progVars
<1>2. ProgInv' /\ CacheInv' /\ TableInv'
  BY <1>1, ProgKept, Zenon DEF Inv
<1>3. IrqInv'
  BY <1>1, Zenon DEF Inv, IrqInv, Line
<1>4. BellInv'
  BY <1>1, Zenon DEF Inv, BellInv
<1>5. TimeInv'
  BY <1>1, Zenon DEF Inv, TimeInv, Missed, Pending
<1> QED
  BY <1>2, <1>3, <1>4, <1>5, Zenon DEF Inv

LEMMA IrqHandleStep == ASSUME Inv, IrqHandle, UNCHANGED <<iommuVars, progVars, rings>> PROVE Inv'
<1>1. /\ isr = "claimed" /\ isr' = "out" /\ ie' = ie /\ ens' = ens /\ handlers' = handlers
      /\ stage' = stage /\ pc' = pc
  BY Zenon DEF IrqHandle, cpuVars, progVars
<1>2. ProgInv' /\ CacheInv' /\ TableInv'
  BY <1>1, ProgKept, Zenon DEF Inv
<1>3. IrqInv'
  BY <1>1, Zenon DEF Inv, IrqInv
<1>4. id \in Source /\ Line(id)
  BY <1>1, Zenon DEF Inv, IrqInv
<1>5. CASE handlers[id] = "irq_timer_handler"
  <2>1. id = Timer7 /\ wrapped
    BY <1>4, <1>5, Zenon DEF Inv, IrqInv, Source, Line
  <2>2. /\ bells' = bells /\ nodes' = nodes /\ dropped' = dropped /\ wraps' = wraps
        /\ \/ high' = high + 1 /\ wrapped' = FALSE
           \/ high' = high /\ wrapped' = wrapped
    BY <1>5, Zenon DEF IrqHandle, IrqTimerHandler, mboxVars
  <2>3. TimeInv'
    <3>1. Pending = 1
      BY <2>1, Zenon DEF Pending
    <3>2. CASE high' = high + 1 /\ wrapped' = FALSE
      <4>1. Pending' = 0
        BY <3>2, Zenon DEF Pending
      <4>2. Missed' = Missed /\ high' \in Int
        BY <2>2, <3>1, <3>2, <4>1 DEF Inv, TimeInv, Missed
      <4> QED
        BY <1>1, <2>2, <4>2, Zenon DEF Inv, TimeInv
    <3>3. CASE high' = high /\ wrapped' = wrapped
      BY <1>1, <2>2, <3>3, Zenon DEF Inv, TimeInv, Missed, Pending
    <3> QED
      BY <2>2, <3>2, <3>3, Zenon
  <2>4. BellInv'
    BY <1>1, <2>2, Zenon DEF Inv, BellInv
  <2> QED
    BY <1>2, <1>3, <2>3, <2>4, Zenon DEF Inv
<1>6. CASE handlers[id] = "irq_mailbox_handler"
  <2>1. id \in Fifo
    BY <1>4, <1>6, Zenon DEF Inv, IrqInv, Source
  <2>2. nodes # <<>>
    BY <1>1, <2>1, ClaimedFifo, Zenon DEF Inv
  <2>3. /\ bells' = [bells EXCEPT ![id] = FALSE] /\ nodes' = nodes /\ ~dropped'
        /\ wraps' = wraps /\ high' = high /\ wrapped' = wrapped
    BY <1>6, <2>2, Zenon DEF Inv, BellInv, IrqHandle, IrqMailboxHandler, timerVars
  <2>4. TimeInv'
    BY <1>1, <2>3, Zenon DEF Inv, TimeInv, Missed, Pending
  <2>5. BellInv'
    BY <1>1, <2>1, <2>3, Zenon DEF Inv, BellInv
  <2> QED
    BY <1>2, <1>3, <2>4, <2>5, Zenon DEF Inv
<1>7. CASE handlers[id] \notin {"irq_timer_handler", "irq_mailbox_handler"}
  <2>1. /\ bells' = bells /\ nodes' = nodes /\ dropped' = dropped
        /\ wraps' = wraps /\ high' = high /\ wrapped' = wrapped
    BY <1>7, Zenon DEF IrqHandle, timerVars, mboxVars
  <2>2. TimeInv'
    BY <1>1, <2>1, Zenon DEF Inv, TimeInv, Missed, Pending
  <2>3. BellInv'
    BY <1>1, <2>1, Zenon DEF Inv, BellInv
  <2> QED
    BY <1>2, <1>3, <2>2, <2>3, Zenon DEF Inv
<1> QED
  BY <1>5, <1>6, <1>7

LEMMA WrapStep == ASSUME Inv, Wrap, UNCHANGED <<iommuVars, progVars, rings>> PROVE Inv'
<1>1. /\ ~wrapped /\ wrapped' = TRUE /\ wraps' = wraps + 1 /\ isr' = isr /\ id' = id /\ masked' = masked
      /\ ie' = ie /\ ens' = ens /\ handlers' = handlers
      /\ high' = high /\ bells' = bells /\ nodes' = nodes /\ dropped' = dropped
      /\ stage' = stage /\ pc' = pc
  BY Zenon DEF Wrap, cpuVars, isrVars, mboxVars, progVars
<1>2. ProgInv' /\ CacheInv' /\ TableInv'
  BY <1>1, ProgKept, Zenon DEF Inv, ProgInv
<1>3. IrqInv'
  BY <1>1, Zenon DEF Inv, IrqInv, Line
<1>4. BellInv'
  BY <1>1, Zenon DEF Inv, BellInv
<1>5. TimeInv'
  BY <1>1 DEF Inv, TimeInv, Missed, Pending
<1> QED
  BY <1>2, <1>3, <1>4, <1>5, Zenon DEF Inv

LEMMA FillStep == ASSUME Inv, NEW s \in Slot, Fill(s), UNCHANGED <<irqVars, progVars, rings>> PROVE Inv'
<1>1. /\ xlat /\ cache' = [t \in DOMAIN cache \cup {s} |-> IF t = s THEN table[s].to ELSE cache[t]]
      /\ xlat' = xlat /\ table' = table
      /\ stage' = stage /\ pc' = pc /\ flush' = flush /\ at' = at /\ win' = win /\ todo' = todo
      /\ UNCHANGED irqVars /\ isr' = isr
  BY Zenon DEF Fill, progVars, irqVars, isrVars
<1>2. Quiet'
  BY <1>1, IrqKept, Zenon DEF Inv, Quiet
<1>3. ProgInv'
  BY <1>1, Zenon DEF Inv, ProgInv
<1>4. CacheInv'
  BY <1>1, Zenon DEF Inv, CacheInv
<1>5. TableInv'
  BY <1>1, Zenon DEF Inv, TableInv
<1> QED
  BY <1>2, <1>3, <1>4, <1>5, Zenon DEF Inv, Quiet

LEMMA RingStep == ASSUME Inv, NEW f \in Fifo, Ring(f) PROVE Inv'
<1>1. /\ In("S3", Loop) /\ bells' = [bells EXCEPT ![f] = TRUE]
      /\ ie' = ie /\ ens' = ens /\ handlers' = handlers /\ isr' = isr /\ id' = id /\ masked' = masked
      /\ wrapped' = wrapped /\ high' = high /\ wraps' = wraps /\ nodes' = nodes /\ dropped' = dropped
      /\ stage' = stage /\ pc' = pc /\ UNCHANGED <<iommuVars, progVars>>
  BY ArmOnAtLoop, Zenon DEF Inv, Ring, cpuVars, isrVars, timerVars, progVars
<1>2. ProgInv' /\ CacheInv' /\ TableInv'
  BY <1>1, ProgKept, Zenon DEF Inv, ProgInv
<1>3. IrqInv'
  BY <1>1, Zenon DEF Inv, IrqInv, Line, BellInv, Source, Fifo
<1>4. BellInv'
  <2>1. bells' \in [Fifo -> BOOLEAN]
    BY <1>1, Zenon DEF Inv, BellInv
  <2>2. pc \notin 11..(12 + 2 * Fifos)
    BY <1>1, LoopFacts DEF In
  <2> QED
    BY <1>1, <2>1, <2>2, Zenon DEF Inv, BellInv
<1>5. TimeInv'
  BY <1>1, Zenon DEF Inv, TimeInv, Missed, Pending
<1> QED
  BY <1>2, <1>3, <1>4, <1>5, Zenon DEF Inv

-----------------------------------------------------------------------------
LEMMA NextInv == Inv /\ [Next]_vars => Inv'
<1> SUFFICES ASSUME Inv, [Next]_vars PROVE Inv'
  BY Zenon
<1>1. CASE Startups \/ Resets \/ Inits \/ Enables \/ Stores \/ Eois \/ Unmasks \/ Registers
  BY <1>1, StartupsStep, ResetsStep, InitsStep, EnablesStep, StoresStep, EoisStep, TimerOnStep, Zenon
<1>2. CASE MapRange \/ MapRangeEnds \/ Load \/ Jump \/ Invalidate \/ ResetsIommu \/ InitsIommu
  BY <1>2, MapRangeStep, PlainStep, JumpStep, InvalidateStep, NewTablesStep, Zenon
<1>3. CASE MboxResets \/ IpcStart \/ StartArm \/ OpenWindow \/ CloseWindow \/ Served
  BY <1>3, MboxResetsStep, IpcStartStep, PlainStep, OpenWindowStep, CloseWindowStep, ServedStep, Zenon
<1>4. CASE Serve(<<>>)
  BY <1>4, ServeStep, EmptyFacts, Zenon
<1>5. ASSUME NEW b \in Buffers, Serve(<<b>>) PROVE Inv'
  <2>1. <<b>> \in Seq(Int)
    BY StartupAssumption
  <2> QED
    BY <1>5, <2>1, ServeStep, Zenon
<1>6. ASSUME NEW b \in Buffers, NEW c \in Buffers, Serve(<<b, c>>) PROVE Inv'
  <2>1. <<b, c>> \in Seq(Int)
    BY StartupAssumption
  <2> QED
    BY <1>6, <2>1, ServeStep, Zenon
<1>7. CASE (IrqEnter \/ IrqHandle \/ Wrap) /\ UNCHANGED <<iommuVars, progVars, rings>>
  BY <1>7, IrqEnterStep, IrqHandleStep, WrapStep, Zenon
<1>8. ASSUME NEW s \in Slot, Fill(s), UNCHANGED <<irqVars, progVars, rings>> PROVE Inv'
  BY <1>8, FillStep, Zenon
<1>9. ASSUME NEW f \in Fifo, Ring(f) PROVE Inv'
  BY <1>9, RingStep, Zenon
<1>10. CASE UNCHANGED vars
  <2>1. UNCHANGED irqVars /\ UNCHANGED <<iommuVars, progVars>> /\ isr' = isr /\ stage' = stage /\ pc' = pc
    BY <1>10, Zenon DEF vars, irqVars, isrVars, progVars
  <2>2. Quiet'
    BY <2>1, IrqKept, Zenon DEF Inv, Quiet
  <2>3. ProgInv' /\ CacheInv' /\ TableInv'
    BY <2>1, ProgKept, Zenon DEF Inv, ProgInv
  <2> QED
    BY <2>2, <2>3, Zenon DEF Inv, Quiet
<1> QED
  BY <1>1, <1>2, <1>3, <1>4, <1>5, <1>6, <1>7, <1>8, <1>9, <1>10, Zenon DEF Next

LEMMA InvInvariant == Spec => []Inv
BY InitInv, NextInv, PTL DEF Spec

\* irq_handler never claims a source without a handler, but the timer between the two
\* steps of the irq_attach_handler that takes it over.
THEOREM HandlerInPlaceInvariant == Spec => []HandlerInPlace
<1>1. Inv => HandlerInPlace
  <2> SUFFICES ASSUME Inv, isr = "claimed", handlers[id] = NoHandler
               PROVE  id = Timer7 /\ Now = Op("store", Timer7)
    BY Zenon DEF HandlerInPlace
  <2>1. id = Timer7
    <3>1. id \notin Fifo
      BY ClaimedFifo, Zenon DEF Inv, NoHandler
    <3> QED
      BY <3>1, Zenon DEF Inv, IrqInv, Source
  <2>2. In("S2", 5) \/ In("S3", 4)
    BY <2>1, SMTT(30) DEF Inv, IrqInv, ProgInv, In, NoHandler
  <2> QED
    BY <2>1, <2>2, Place, Zenon DEF Inv, InS2, InS3, In
<1> QED
  BY <1>1, InvInvariant, PTL

\* timer_ticks.h is never ahead of the wraps, and behind by at most the one that is
\* pending and one for each lsp1_timers_init_irq that was run.
THEOREM TimeBehindInvariant == Spec => []TimeBehind
<1>1. Inv => TimeBehind
  <2> SUFFICES ASSUME Inv, stage # "panic" PROVE Missed \in 0..(IF stage = "S2" THEN 1 ELSE 2)
    BY Zenon DEF TimeBehind, Missed, Pending
  <2>1. Missed \in Int
    BY DEF Inv, TimeInv, Missed, Pending
  <2> QED
    BY <2>1 DEF Inv, TimeInv, ProgInv
<1> QED
  BY <1>1, InvInvariant, PTL

\* irq_mailbox_handler never clears a doorbell while its list is empty.
THEOREM NoDoorbellDroppedInvariant == Spec => []NoDoorbellDropped
<1>1. Inv => NoDoorbellDropped
  BY Zenon DEF Inv, BellInv, NoDoorbellDropped
<1> QED
  BY <1>1, InvInvariant, PTL

\* What the cache has picked up never leads an access of SBL-S2 or SBL-S3 elsewhere
\* than its table says, and the table says what the program means.
THEOREM WindowsExactInvariant == Spec => []WindowsExact
<1>1. Inv => WindowsExact
  <2> SUFFICES ASSUME Inv PROVE WindowsExact
    OBVIOUS
  <2>1. At("load") \/ At("loop") => \A s \in Slot : Translate(s) = table[s].to
    <3> SUFFICES ASSUME At("load") \/ At("loop"), NEW s \in Slot PROVE Translate(s) = table[s].to
      BY Zenon
    <3>1. ~flush /\ (In("S2", 10) \/ In("S3", Loop))
      BY OtherPlaces, Zenon DEF Inv, At
    <3>2. xlat
      BY <3>1, LoopFacts DEF Inv, CacheInv, In
    <3> QED
      BY <3>1, <3>2, Zenon DEF Inv, CacheInv, Translate
  <2>2. ASSUME At("load"), NEW s \in DdrFirst..DdrLast PROVE Translate(s) = Ddr + s
    <3>1. s \in Slot
      BY StartupAssumption DEF Slot
    <3>2. In("S2", 10)
      BY <2>2, OtherPlaces, Zenon DEF Inv
    <3>3. at = DdrLast + 1 /\ s \in DdrFirst..(at - 1)
      BY <3>2, StartupAssumption DEF Inv, TableInv, In, Slot
    <3>4. table[s].to = Ddr + s
      BY <3>2, <3>3, Zenon DEF Inv, TableInv, In
    <3> QED
      BY <2>1, <2>2, <3>1, <3>4, Zenon
  <2>3. ASSUME At("loop") PROVE stage = "S3" /\ pc > 9
    BY <2>3, OtherPlaces, LoopFacts DEF Inv, In
  <2>4. ASSUME At("loop"), win # NoWin PROVE Translate(win) = Head(todo)
    <3>1. win \in Slot /\ table[win].to = Head(todo)
      BY <2>3, <2>4, Zenon DEF Inv, TableInv
    <3> QED
      BY <2>1, <2>4, <3>1, Zenon
  <2>5. ASSUME At("loop"), todo = <<>>, NEW s \in Slot PROVE Translate(s) = s /\ ~table[s].user
    <3>1. win = NoWin
      BY <2>3, <2>5, Zenon DEF Inv, TableInv
    <3>2. s # win
      BY <3>1, StartupAssumption DEF NoWin, Slot
    <3>3. table[s] = Entry(FALSE, s)
      BY <2>3, <2>5, <3>2, Zenon DEF Inv, TableInv
    <3> QED
      BY <2>1, <2>5, <3>3 DEF Entry
  <2> QED
    BY <2>2, <2>4, <2>5, Zenon DEF WindowsExact
<1> QED
  BY <1>1, InvInvariant, PTL
=============================================================================
