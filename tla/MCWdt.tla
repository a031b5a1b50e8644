------------------------------- MODULE MCWdt -------------------------------
(***************************************************************************)
(* A watchdog of six bits: periods of 4, 8, 16 and 32 ticks.               *)
(***************************************************************************)
EXTENDS Wdt

\* What the service reports as the longest timeout, in seconds.
WithinMax == 0..(MaxTimeoutMs \div Sec)

\* Timeouts whose number of ticks needs more bits than a word has.
BeyondMax == 0..(2^Bits \div (KHz * Sec))

AnyTop == 0..MaxCoef
=============================================================================
