------------------------------- MODULE Timer -------------------------------
(***************************************************************************)
(* The system timer: a hardware counter of one word, the number of its     *)
(* wraps in timer_ticks.h, and the delay loop on top of them.  SBL-S1      *)
(* polls the counter and notices a wrap when it reads a smaller value      *)
(* than before; SBL-S2 and SBL-S3 count wraps in an interrupt handler,     *)
(* which a critical section or another handler keeps waiting.              *)
(***************************************************************************)
EXTENDS Integers

CONSTANTS Word,      \* values of the hardware counter, 2^32
          High,      \* values of timer_ticks.h, 2^32
          Delays,    \* delays asked for, in ticks
          Pause,     \* ticks between two reads of a delay loop, at most
          Modes,     \* subset of {"poll", "irq"}
          MaxTime    \* bound on the time that passes

TimerAssumption ==
  /\ Word \in Nat \ {0, 1} /\ High \in Nat \ {0} /\ MaxTime \in Nat
  /\ Pause \in Nat \ {0} /\ Delays \subseteq Nat \ {0}
  /\ \A t \in Delays : t + Pause < Word
  /\ Modes \subseteq {"poll", "irq"}

VARIABLES
  now,           \* ticks since the counter was started
  pending,       \* interrupt of the last wrap is pending
  h, l,          \* timer_ticks
  mode,          \* timer.irq_on
  masked,        \* the delay is called with interrupts disabled
  pc, ticks,     \* __timer_delay_us: where it is, and the length of the delay
  low, start,    \* value read from the counter, and first sample
  readAt, startAt \* history: when the counter was read last, and for the first sample

timerVars == <<now, pending, h, l, mode, masked, pc, ticks, low, start, readAt, startAt>>
callVars == <<mode, masked, ticks, startAt>>

Total == Word * High
-----------------------------------------------------------------------------
\* The counter runs.  Interrupts are not disabled for as long as it takes to
\* wrap, so no wrap is due before the one before it has been served.
CounterTick ==
  /\ now < MaxTime
  /\ LET wraps == (now + 1) % Word = 0 IN
       /\ ~(mode = "irq" /\ pending /\ wraps)
       /\ pc # "idle" => now - readAt < Pause
       /\ pending' = (mode = "irq" /\ (pending \/ wraps))
  /\ now' = now + 1
  /\ UNCHANGED <<callVars, h, l, pc, low, start, readAt>>

\* irq_timer_handler; lsp1_timers_irq_handler acknowledges.
IrqTimerHandler ==
  /\ pending /\ ~masked
  /\ h' = (h + 1) % High
  /\ pending' = FALSE
  /\ UNCHANGED <<callVars, now, l, pc, low, start, readAt>>

\* An interrupt that is pending and enabled is taken before the next step of the
\* program.
Step(from, to) == pc = from /\ pc' = to /\ (pending => masked)

\* A call of timer_delay_us or timer_delay_ms.
Delay(t, m) ==
  /\ Step("idle", "first") /\ ticks' = t /\ masked' = m
  /\ readAt' = now
  /\ UNCHANGED <<now, pending, h, l, mode, low, start, startAt>>

\* __timer_get_ticks, up to the read of the counter.
GetTicks(from, to) ==
  /\ Step(from, to)
  /\ low' = now % Word
  /\ readAt' = now
  /\ UNCHANGED <<callVars, now, pending, h, l, start>>

\* Mutant: a wrap is not noticed without the interrupt.
WrapSeenNever == FALSE

\* Mutant: a wrap is noticed here although the interrupt counts it, too.
WrapSeenAlways == low < l

\* Without the interrupt, a value below the one before tells of a wrap.
WrapSeen == mode = "poll" /\ low < l

\* What __timer_get_ticks leaves in h and returns.
HighWord == IF WrapSeen THEN (h + 1) % High ELSE h
Sample == HighWord * Word + low

FirstSample ==
  /\ Step("firstRead", "again")
  /\ h' = HighWord /\ l' = low
  /\ start' = Sample /\ startAt' = readAt
  /\ UNCHANGED <<now, pending, mode, masked, ticks, low, readAt>>

Elapsed == (Sample - start) % Total

NextSample ==
  /\ Step("nextRead", IF Elapsed < ticks THEN "again" ELSE "done")
  /\ h' = HighWord /\ l' = low
  /\ UNCHANGED <<callVars, now, pending, low, start, readAt>>

Return ==
  /\ Step("done", "idle") /\ masked' = FALSE
  /\ UNCHANGED <<now, pending, h, l, mode, ticks, low, start, readAt, startAt>>

TimerInit ==
  /\ now = 0 /\ pending = FALSE /\ h = 0 /\ l = 0
  /\ mode \in Modes /\ masked = FALSE
  /\ pc = "idle" /\ ticks = 0 /\ low = 0 /\ start = 0 /\ readAt = 0 /\ startAt = 0

TimerNext ==
  \/ CounterTick
  \/ IrqTimerHandler
  \/ \E t \in Delays, m \in BOOLEAN : Delay(t, m)
  \/ GetTicks("first", "firstRead") \/ FirstSample
  \/ GetTicks("again", "nextRead") \/ NextSample
  \/ Return

TimerSpec == TimerInit /\ [][TimerNext]_timerVars
-----------------------------------------------------------------------------
\* timer_delay_ms: "it ensures at least num_msec passed when return".
DelayLongEnough == pc = "done" => readAt - startAt >= ticks

\* The same for SBL-S1, which has no wrap interrupt.
PolledDelayLongEnough == mode = "poll" => DelayLongEnough

\* In the modes with interrupt the wraps are counted: the handler has counted
\* every wrap but the one that is pending (timer_ticks.h).
WrapsCounted ==
  mode = "irq" => (now \div Word) % High = (h + (IF pending THEN 1 ELSE 0)) % High
=============================================================================
