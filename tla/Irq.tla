-------------------------------- MODULE Irq --------------------------------
(***************************************************************************)
(* Interrupts of the service processor: drivers/irq (the QLIC and the      *)
(* table of handlers), the mailbox handler with its list, and the wrap     *)
(* interrupt of the system timer.  The operators change the part of the    *)
(* state named in irqVars; Startup puts them into the order of the stages. *)
(***************************************************************************)
EXTENDS Integers, Sequences

CONSTANTS Fifos,     \* MAILBOX_FIFO_COUNT
          MaxWraps   \* bound on the wraps of the timer

VARIABLES
  ie, im2,           \* CP0_STATUS: IE, and the mask bit of the QLIC
  ens, pri,          \* QLIC: enabled sources, and those with a priority
  handlers,          \* irq_handlers
  isr, id,           \* where irq_handler is, and the source it has claimed
  masked, wrapped,   \* timer 7: IRQ_MASK, and the raw interrupt
  high, registered,  \* timer_ticks.h and timer.registered
  bells,             \* set_irq_read of each FIFO
  nodes,             \* mbox_irq.nodes
  queued,            \* requests the handler of the IPC server has taken
  wraps,             \* history: wraps since timer_reset
  dropped            \* history: a doorbell was cleared and nobody had looked

cpuVars == <<ie, im2, ens, pri, handlers>>
isrVars == <<isr, id>>
timerVars == <<masked, wrapped, high, registered, wraps>>
mboxVars == <<bells, nodes, queued, dropped>>
irqVars == <<cpuVars, isrVars, timerVars, mboxVars>>

Timer7 == 0        \* IRQ_ID_TIMERS0_INT + TIMERS_ID
Fifo == 1..Fifos   \* IRQ_ID_MB0_RRQ_RISC0 and on
Source == Fifo \cup {Timer7}
NoHandler == "none"
-----------------------------------------------------------------------------
(***************************************************************************)
(* Devices.                                                                *)
(***************************************************************************)

\* The counter wraps; it takes too long for a wrap to be still unserved then.
Wrap ==
  /\ wraps < MaxWraps /\ ~wrapped
  /\ wrapped' = TRUE /\ wraps' = wraps + 1
  /\ UNCHANGED <<cpuVars, isrVars, masked, high, registered, mboxVars>>

Line(i) == IF i = Timer7 THEN wrapped /\ ~masked ELSE bells[i]

\* Sources that ask and are enabled, with a priority above the threshold of 0.
Requests == {i \in ens : Line(i) /\ i \in pri}
-----------------------------------------------------------------------------
(***************************************************************************)
(* irq_handler                                                             *)
(***************************************************************************)

\* The interrupt is taken, and the QLIC says which source.
IrqEnter ==
  /\ isr = "out" /\ ie /\ im2
  /\ \E i \in Requests : id' = i
  /\ isr' = "claimed"
  /\ UNCHANGED <<cpuVars, timerVars, mboxVars>>

\* Mutant: the interrupt of the timer is not acknowledged.
IrqTimerHandlerKeeps ==
  /\ high' = IF registered THEN high + 1 ELSE high
  /\ UNCHANGED <<masked, wrapped, registered, wraps, mboxVars>>

\* irq_timer_handler, which does nothing before timer_register_hw is through.
IrqTimerHandler ==
  /\ IF registered THEN high' = high + 1 /\ wrapped' = FALSE ELSE UNCHANGED <<high, wrapped>>
  /\ UNCHANGED <<masked, registered, wraps, mboxVars>>

\* irq_mailbox_handler: the handlers of the list run, the doorbell is cleared.
IrqMailboxHandler ==
  /\ queued' = queued + Len(nodes)
  /\ bells' = [bells EXCEPT ![id] = FALSE]
  /\ dropped' = (dropped \/ nodes = <<>>)
  /\ UNCHANGED <<timerVars, nodes>>

\* The handler, if there is one, runs; then the QLIC is told.
IrqHandle ==
  /\ isr = "claimed" /\ isr' = "out"
  /\ IF handlers[id] = "irq_timer_handler" THEN IrqTimerHandler
     ELSE IF handlers[id] = "irq_mailbox_handler" THEN IrqMailboxHandler
     ELSE UNCHANGED <<timerVars, mboxVars>>
  /\ UNCHANGED <<cpuVars, id>>
-----------------------------------------------------------------------------
(***************************************************************************)
(* What the program does.                                                  *)
(***************************************************************************)

\* _startup: interrupts off, .bss cleared; timer_ticks is not in .bss.
StartupCode ==
  /\ ie' = FALSE /\ im2' = FALSE
  /\ handlers' = [i \in Source |-> NoHandler] /\ registered' = FALSE /\ nodes' = <<>>
  /\ UNCHANGED <<ens, pri, isrVars, masked, wrapped, high, wraps, bells, queued, dropped>>

\* timer_reset
TimerReset ==
  /\ high' = 0 /\ wraps' = IF wrapped THEN 1 ELSE 0
  /\ UNCHANGED <<cpuVars, isrVars, masked, wrapped, registered, mboxVars>>

\* irq_init: the QLIC is emptied before the processor listens.
IrqInit ==
  /\ ens' = {} /\ pri' = {} /\ ie' = TRUE
  /\ UNCHANGED <<im2, handlers, isrVars, timerVars, mboxVars>>

\* irq_attach_handler up to qlic_enable_int_id
AttachEnable(i) ==
  /\ handlers[i] = NoHandler
  /\ im2' = TRUE /\ pri' = pri \cup {i} /\ ens' = ens \cup {i}
  /\ UNCHANGED <<ie, handlers, isrVars, timerVars, mboxVars>>

\* The rest of irq_attach_handler.
AttachStore(i, handler) ==
  /\ handlers' = [handlers EXCEPT ![i] = handler]
  /\ UNCHANGED <<ie, im2, ens, pri, isrVars, timerVars, mboxVars>>

\* lsp1_timers_init_irq: what is pending is acknowledged...
TimerEoi ==
  /\ wrapped' = FALSE
  /\ UNCHANGED <<cpuVars, isrVars, masked, high, registered, wraps, mboxVars>>

\* ... and the interrupt let through.
TimerUnmask ==
  /\ masked' = FALSE
  /\ UNCHANGED <<cpuVars, isrVars, wrapped, high, registered, wraps, mboxVars>>

\* timer_register_hw, after init_irq
TimerRegister ==
  /\ registered' = TRUE
  /\ UNCHANGED <<cpuVars, isrVars, masked, wrapped, high, wraps, mboxVars>>

\* mbox_reset
MboxReset ==
  /\ bells' = [f \in Fifo |-> FALSE]
  /\ UNCHANGED <<cpuVars, isrVars, timerVars, nodes, queued, dropped>>

\* mbox_attach_irq_handler
MboxAttach(handler) ==
  /\ nodes' = IF \E i \in DOMAIN nodes : nodes[i] = handler THEN nodes ELSE Append(nodes, handler)
  /\ UNCHANGED <<cpuVars, isrVars, timerVars, bells, queued, dropped>>
=============================================================================
