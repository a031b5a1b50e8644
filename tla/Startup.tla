------------------------------- MODULE Startup -------------------------------
(***************************************************************************)
(* SBL-S2 and SBL-S3 on the service processor, as far as they set up       *)
(* interrupts, the system timer, the IOMMU and the mailbox, while          *)
(* interrupts arrive; then the main loop of SBL-S3 with the windows it     *)
(* opens for the answers.  Ipc has the queue and the clients in detail.    *)
(***************************************************************************)
EXTENDS Irq, Iommu

CONSTANTS DdrFirst, DdrLast,  \* slots of DDR_MAP_TO_DDRHIGH_VIRT
          Ddr,                \* block that slot 0 would have among them
          Buffers,            \* blocks of response and dump buffers
          MaxReq              \* bound on the requests

ASSUME StartupAssumption ==
  /\ Fifos \in Nat /\ Slots \in Nat \ {0} /\ MaxWraps \in Nat /\ MaxReq \in Nat
  /\ DdrFirst \in Slot /\ DdrLast \in Slot /\ DdrFirst <= DdrLast
  /\ Ddr \in Int /\ Buffers \subseteq Int

VARIABLES
  stage, pc,   \* the stage, and its place in Program
  flush,       \* iommu_cache_invalidate comes next
  at,          \* slot that setup_ddr_regions maps next
  todo, win,   \* buffers the request at work needs windows for, and its window
  rings        \* doorbells so far

progVars == <<stage, pc, flush, at, todo, win>>
vars == <<irqVars, iommuVars, progVars, rings>>

NoWin == Slots
Op(op, i) == [op |-> op, id |-> i]

\* irq_attach_handler, lsp1_timers_init_irq and timer_register_hw
AttachTimer == << Op("enable", Timer7), Op("store", Timer7), Op("eoi", Timer7),
                  Op("unmask", Timer7), Op("register", Timer7) >>

\* Mutant: the mailbox is reset when its interrupts are attached.
MboxInitResetsLast ==
  [k \in 1..(2 * Fifos) |-> Op(IF k % 2 = 1 THEN "enable" ELSE "store", (k + 1) \div 2)]
    \o << Op("mboxReset", 0) >>

\* mbox_init
MboxInit ==
  << Op("mboxReset", 0) >>
    \o [k \in 1..(2 * Fifos) |-> Op(IF k % 2 = 1 THEN "enable" ELSE "store", (k + 1) \div 2)]

S2Main ==
  << Op("startup", 0), Op("timerReset", 0), Op("irqInit", 0) >> \o AttachTimer
    \o << Op("mapRange", 0), Op("load", 0), Op("jump", 0) >>

\* Mutant: the processor is started before the server listens.
S3MainStartsEarly ==
  << Op("startup", 0), Op("irqInit", 0) >> \o AttachTimer
    \o << Op("iommuReset", 0), Op("iommuInit", 0) >> \o MboxInit
    \o << Op("startArm", 0), Op("ipcStart", 0), Op("loop", 0) >>

S3Main ==
  << Op("startup", 0), Op("irqInit", 0) >> \o AttachTimer
    \o << Op("iommuReset", 0), Op("iommuInit", 0) >> \o MboxInit
    \o << Op("ipcStart", 0), Op("startArm", 0), Op("loop", 0) >>

Program == IF stage = "S2" THEN S2Main ELSE S3Main
Now == Program[pc]

ArmOn == stage = "S3" /\ \E k \in 1..(pc - 1) : Program[k].op = "startArm"

\* The program is at this operation, no handler is running and the cache is dealt with.
At(op) == stage # "panic" /\ isr = "out" /\ ~flush /\ Now.op = op
Go == pc' = pc + 1 /\ UNCHANGED <<stage, flush, at, todo, win, iommuVars, rings>>
-----------------------------------------------------------------------------
\* Steps on the interrupts and the timer.
Startups == At("startup") /\ StartupCode /\ Go
Resets == At("timerReset") /\ TimerReset /\ Go
Inits == At("irqInit") /\ IrqInit /\ Go
Enables == At("enable") /\ AttachEnable(Now.id) /\ Go
Stores ==
  /\ At("store")
  /\ AttachStore(Now.id, IF Now.id = Timer7 THEN "irq_timer_handler" ELSE "irq_mailbox_handler")
  /\ Go
Eois == At("eoi") /\ TimerEoi /\ Go
Unmasks == At("unmask") /\ TimerUnmask /\ Go
Registers == At("register") /\ TimerRegister /\ Go
MboxResets == At("mboxReset") /\ MboxReset /\ Go
IpcStart == At("ipcStart") /\ MboxAttach("risc0_ipc_irq_handler") /\ Go
StartArm == At("startArm") /\ UNCHANGED irqVars /\ Go
-----------------------------------------------------------------------------
\* iommu_map_range in setup_ddr_regions; a slot that is taken ends SBL-S2.
MapRange ==
  /\ At("mapRange") /\ at <= DdrLast
  /\ IF table[at].user
     THEN stage' = "panic" /\ UNCHANGED <<iommuVars, flush, at>>
     ELSE IommuMapSlot(at, Ddr + at) /\ flush' = TRUE /\ at' = at + 1 /\ UNCHANGED stage
  /\ UNCHANGED <<irqVars, pc, todo, win, rings>>

MapRangeEnds == At("mapRange") /\ at > DdrLast /\ UNCHANGED irqVars /\ Go

\* The image is copied to memory.
Load == At("load") /\ UNCHANGED irqVars /\ Go

Jump ==
  /\ At("jump") /\ stage' = "S3" /\ pc' = 1
  /\ UNCHANGED <<irqVars, iommuVars, flush, at, todo, win, rings>>

Invalidate ==
  /\ isr = "out" /\ flush /\ IommuCacheInvalidate /\ flush' = FALSE
  /\ UNCHANGED <<irqVars, stage, pc, at, todo, win, rings>>

ResetsIommu ==
  /\ At("iommuReset") /\ IommuReset /\ pc' = pc + 1
  /\ UNCHANGED <<irqVars, stage, flush, at, todo, win, rings>>

InitsIommu ==
  /\ At("iommuInit") /\ IommuInit /\ pc' = pc + 1
  /\ UNCHANGED <<irqVars, stage, flush, at, todo, win, rings>>
-----------------------------------------------------------------------------
(***************************************************************************)
(* risc0_ipc_handler: with interrupts disabled, a request is executed and, *)
(* if it came with memory for that, answered; a request for the OTP dump   *)
(* has a buffer of its own.  All buffers are beyond the first 4 GiB.       *)
(***************************************************************************)
Serve(buffers) ==
  /\ At("loop") /\ todo = <<>> /\ queued > 0 /\ ie
  /\ queued' = queued - 1 /\ ie' = FALSE /\ todo' = buffers
  /\ UNCHANGED <<im2, ens, pri, handlers, isrVars, timerVars, bells, nodes, dropped>>
  /\ UNCHANGED <<iommuVars, stage, pc, flush, at, win, rings>>

\* iommu_map, which ends SBL-S3 when there is no slot.
OpenWindow ==
  /\ At("loop") /\ todo # <<>> /\ win = NoWin
  /\ IF FreeSlot \in Slot
     THEN IommuMap(FreeSlot, Head(todo)) /\ win' = FreeSlot /\ flush' = TRUE /\ UNCHANGED stage
     ELSE stage' = "panic" /\ UNCHANGED <<iommuVars, win, flush>>
  /\ UNCHANGED <<irqVars, pc, at, todo, rings>>

\* The data are written and iommu_unmap is called.
CloseWindow ==
  /\ At("loop") /\ win # NoWin
  /\ IommuUnmap(win) /\ flush' = TRUE /\ win' = NoWin /\ todo' = Tail(todo)
  /\ UNCHANGED <<irqVars, stage, pc, at, rings>>

Served ==
  /\ At("loop") /\ todo = <<>> /\ ~ie
  /\ ie' = TRUE
  /\ UNCHANGED <<im2, ens, pri, handlers, isrVars, timerVars, mboxVars>>
  /\ UNCHANGED <<iommuVars, stage, pc, flush, at, todo, win, rings>>
-----------------------------------------------------------------------------
\* A core that was started rings the doorbell of its request.
Ring(f) ==
  /\ ArmOn /\ rings < MaxReq /\ ~bells[f]
  /\ rings' = rings + 1 /\ bells' = [bells EXCEPT ![f] = TRUE]
  /\ UNCHANGED <<cpuVars, isrVars, timerVars, nodes, queued, dropped, iommuVars, progVars>>

\* The boot ROM and SBL-S1 have polled the timer with its interrupt masked; what the
\* QLIC and the mailbox hold is not known.  ddrinit has mapped the first slot.
Init ==
  /\ ie = FALSE /\ im2 = FALSE /\ ens \in SUBSET Source /\ pri = Source
  /\ handlers = [i \in Source |-> NoHandler]
  /\ isr = "out" /\ id = Timer7
  /\ masked = TRUE /\ wrapped \in BOOLEAN /\ high = 0 /\ registered = FALSE
  /\ wraps = IF wrapped THEN 1 ELSE 0
  /\ bells \in [Fifo -> BOOLEAN] /\ nodes = <<>> /\ queued = 0 /\ dropped = FALSE
  /\ xlat = TRUE /\ table = [DefaultTables EXCEPT ![0] = Entry(TRUE, Ddr)] /\ cache = Empty
  /\ stage = "S2" /\ pc = 1 /\ flush = FALSE /\ at = DdrFirst /\ todo = <<>> /\ win = NoWin
  /\ rings = 0

Next ==
  \/ Startups \/ Resets \/ Inits \/ Enables \/ Stores \/ Eois \/ Unmasks \/ Registers
  \/ MapRange \/ MapRangeEnds \/ Load \/ Jump \/ Invalidate \/ ResetsIommu \/ InitsIommu
  \/ MboxResets \/ IpcStart \/ StartArm
  \/ Serve(<<>>)
  \/ \E b \in Buffers : Serve(<<b>>)
  \/ \E b, c \in Buffers : Serve(<<b, c>>)
  \/ OpenWindow \/ CloseWindow \/ Served
  \/ (IrqEnter /\ UNCHANGED <<iommuVars, progVars, rings>>)
  \/ (IrqHandle /\ UNCHANGED <<iommuVars, progVars, rings>>)
  \/ (Wrap /\ UNCHANGED <<iommuVars, progVars, rings>>)
  \/ \E s \in Slot : Fill(s) /\ UNCHANGED <<irqVars, progVars, rings>>
  \/ \E f \in Fifo : Ring(f)

Spec == Init /\ [][Next]_vars
-----------------------------------------------------------------------------
\* An interrupt finds its handler: irq_attach_handler enables the source before it
\* stores the handler, which a wrap of the timer may meet while a stage takes the
\* timer over, but no other source at any time.
HandlerInPlace ==
  isr = "claimed" /\ handlers[id] = NoHandler => id = Timer7 /\ Now = Op("store", Timer7)

\* The wraps are counted across the stages: timer_ticks.h is never ahead, and behind
\* by the wrap that is pending and at most one for every stage that took the timer
\* over, whose lsp1_timers_init_irq acknowledges what it finds.
TimeBehind ==
  LET missed == wraps - high - (IF wrapped THEN 1 ELSE 0) IN
  stage # "panic" => missed \in 0..(IF stage = "S2" THEN 1 ELSE 2)

\* No doorbell of a started core is cleared while the list of handlers is empty: its
\* request would stay in the FIFO.
NoDoorbellDropped == ~dropped

\* The program reaches what it means to reach: the memory of the image while it is
\* loaded, the buffer of the client through the window, and itself everywhere else
\* when it is waiting for requests, whatever the cache has picked up before.
WindowsExact ==
  /\ At("load") => \A s \in DdrFirst..DdrLast : Translate(s) = Ddr + s
  /\ At("loop") /\ win # NoWin => Translate(win) = Head(todo)
  /\ At("loop") /\ todo = <<>> => \A s \in Slot : Translate(s) = s /\ ~table[s].user
=============================================================================
