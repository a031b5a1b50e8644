----------------------------- MODULE TimeProofs -----------------------------
(***************************************************************************)
(* Proofs about Timer, Wdt and Bootstage, which share no state.            *)
(*   Timer: every width of the counter and of the high word, any delays    *)
(* and any length of time.                                                 *)
(*   Wdt: every width of the counter, every frequency and every set of     *)
(* timeouts within the maximum that is reported.                           *)
(*   Bootstage: every size of the table and of the memory with room for    *)
(* the stages of the boot loader, and any stages the clients mark.         *)
(* The values of the device are among them.                                *)
(***************************************************************************)
EXTENDS Timer, Wdt, Bootstage, FiniteSetTheorems, TLAPS

-----------------------------------------------------------------------------
(***************************************************************************)
(* Arithmetic with a divisor that is not known.                            *)
(***************************************************************************)
LEMMA AtLeastOnce ==
  ASSUME NEW w \in Nat, w > 0, NEW k \in Int, k >= 1
  PROVE  w * k >= w
OBVIOUS

LEMMA DivModOf ==
  ASSUME NEW n \in Int, NEW w \in Nat, w > 0, NEW q \in Int, NEW r \in Int, q = n \div w, r = n % w
  PROVE  n = w * q + r
OBVIOUS

LEMMA DivMod ==
  ASSUME NEW n \in Int, NEW w \in Nat, w > 0
  PROVE  \E q, r \in Int : q = n \div w /\ r = n % w /\ 0 <= r /\ r < w /\ n = w * q + r
<1>1. PICK q \in Int : q = n \div w
  OBVIOUS
<1>2. PICK r \in Int : r = n % w /\ 0 <= r /\ r < w
  OBVIOUS
<1>3. n = w * q + r
  BY <1>1, <1>2, DivModOf
<1> QED
  BY <1>1, <1>2, <1>3, Zenon

\* Quotient and remainder are the only ones.
LEMMA Unique ==
  ASSUME NEW w \in Nat, w > 0, NEW q \in Int, NEW p \in Int, NEW r \in Int, NEW s \in Int,
         0 <= r, r < w, 0 <= s, s < w, w * q + r = w * p + s
  PROVE  q = p /\ r = s
<1>1. CASE q > p
  <2>1. w * (q - p) >= w
    BY <1>1, AtLeastOnce
  <2>2. w * (q - p) = s - r
    OBVIOUS
  <2> QED
    BY <2>1, <2>2
<1>2. CASE q < p
  <2>1. w * (p - q) >= w
    BY <1>2, AtLeastOnce
  <2>2. w * (p - q) = r - s
    OBVIOUS
  <2> QED
    BY <2>1, <2>2
<1>3. CASE q = p
  BY <1>3
<1> QED
  BY <1>1, <1>2, <1>3

LEMMA QuotientOf ==
  ASSUME NEW n \in Int, NEW w \in Nat, w > 0, NEW q \in Int, NEW r \in Int,
         0 <= r, r < w, n = w * q + r
  PROVE  n \div w = q /\ n % w = r
<1>1. PICK p, s \in Int : p = n \div w /\ s = n % w /\ 0 <= s /\ s < w /\ n = w * p + s
  BY DivMod
<1>2. w * q + r = w * p + s
  BY <1>1
<1>3. q = p /\ r = s
  BY <1>1, <1>2, Unique
<1> QED
  BY <1>1, <1>3

\* A step of the counter.
LEMMA WrapStep ==
  ASSUME NEW n \in Int, NEW w \in Nat, w > 0
  PROVE  (n + 1) \div w = IF (n + 1) % w = 0 THEN n \div w + 1 ELSE n \div w
<1>1. PICK p, s \in Int : p = n \div w /\ s = n % w /\ 0 <= s /\ s < w /\ n = w * p + s
  BY DivMod
<1>2. CASE s + 1 < w
  <2>1. n + 1 = w * p + (s + 1) /\ s + 1 \in Int /\ 0 <= s + 1
    BY <1>1
  <2>2. (n + 1) \div w = p /\ (n + 1) % w = s + 1
    BY <1>1, <1>2, <2>1, QuotientOf
  <2> QED
    BY <1>1, <2>2
<1>3. CASE s + 1 = w
  <2>1. n + 1 = w * (p + 1) + 0 /\ p + 1 \in Int
    BY <1>1, <1>3
  <2>2. (n + 1) \div w = p + 1 /\ (n + 1) % w = 0
    BY <1>1, <2>1, QuotientOf
  <2> QED
    BY <1>1, <2>2
<1> QED
  BY <1>1, <1>2, <1>3

LEMMA ModOfMod ==
  ASSUME NEW n \in Int, NEW w \in Nat, w > 0
  PROVE  (n % w) % w = n % w
<1>1. PICK s \in Int : s = n % w /\ 0 <= s /\ s < w
  BY DivMod
<1>2. s = w * 0 + s
  BY <1>1
<1>3. s % w = s
  BY <1>1, <1>2, QuotientOf
<1> QED
  BY <1>1, <1>3

LEMMA ModPlusOne ==
  ASSUME NEW a \in Int, NEW b \in Int, NEW w \in Nat, w > 0, a % w = b % w
  PROVE  (a + 1) % w = (b + 1) % w
<1>1. PICK p, s \in Int : s = a % w /\ 0 <= s /\ s < w /\ a = w * p + s
  BY DivMod, Zenon
<1>2. PICK q \in Int : b = w * q + s
  BY <1>1, DivMod
<1>3. CASE s + 1 < w
  <2>1. a + 1 = w * p + (s + 1) /\ b + 1 = w * q + (s + 1) /\ s + 1 \in Int /\ 0 <= s + 1
    BY <1>1, <1>2
  <2>2. (a + 1) % w = s + 1
    BY <1>1, <1>3, <2>1, QuotientOf
  <2>3. (b + 1) % w = s + 1
    BY <1>1, <1>2, <1>3, <2>1, QuotientOf
  <2> QED
    BY <2>2, <2>3
<1>4. CASE s + 1 = w
  <2>1. a + 1 = w * (p + 1) + 0 /\ b + 1 = w * (q + 1) + 0 /\ p + 1 \in Int /\ q + 1 \in Int
    BY <1>1, <1>2, <1>4
  <2>2. (a + 1) % w = 0
    BY <1>1, <2>1, QuotientOf
  <2>3. (b + 1) % w = 0
    BY <1>1, <1>2, <2>1, QuotientOf
  <2> QED
    BY <2>2, <2>3
<1> QED
  BY <1>1, <1>3, <1>4
-----------------------------------------------------------------------------
(***************************************************************************)
(* Samples of the polled timer.  At time t the pair (a, b) of the high and *)
(* the low word was stored; s is the sample of time u.  The difference of  *)
(* the samples is that of the times, up to the range of the two words.     *)
(***************************************************************************)
Sampled(t, u, a, b, s) ==
  /\ u <= t /\ b = t % Word
  /\ \E k \in Int : a * Word + b - s = t - u + k * Total

LEMMA TotalPositive ==
  ASSUME TimerAssumption
  PROVE  Word \in Nat /\ Word > 0 /\ High \in Nat /\ High > 0 /\ Total \in Nat /\ Total > 0
<1>1. Word \in Nat /\ Word > 0 /\ High \in Nat /\ High > 0 /\ High \in Int /\ High >= 1
  BY DEF TimerAssumption
<1>2. Word * High >= Word
  BY <1>1, AtLeastOnce
<1> QED
  BY <1>1, <1>2 DEF Total

LEMMA FirstSampled ==
  ASSUME TimerAssumption, NEW a \in Int, NEW t \in Nat, NEW b \in Int, b = t % Word
  PROVE  Sampled(t, t, a, b, a * Word + b)
<1>1. a * Word + b - (a * Word + b) = t - t + 0 * Total
  BY TotalPositive
<1> QED
  BY <1>1 DEF Sampled

\* __timer_get_ticks finds the wrap between two reads less than a period apart.
LEMMA NextSampled ==
  ASSUME TimerAssumption,
         NEW t \in Nat, NEW r \in Nat, NEW u \in Nat, NEW a \in Int, NEW b \in Int, NEW s \in Int,
         NEW c \in Int, NEW e \in Int,
         Sampled(t, u, a, b, s), t <= r, r - t < Word, c = r % Word,
         e = IF c < b THEN (a + 1) % High ELSE a
  PROVE  Sampled(r, u, e, c, s)
<1>0. /\ Word \in Nat /\ Word > 0 /\ High \in Nat /\ High > 0
      /\ t \in Int /\ r \in Int /\ a + 1 \in Int
  BY TotalPositive
<1>1. PICK k \in Int : a * Word + b - s = t - u + k * Total
  BY DEF Sampled
<1>2. PICK p \in Int : 0 <= b /\ b < Word /\ t = Word * p + b
  <2>1. \E p, d \in Int : p = t \div Word /\ d = t % Word /\ 0 <= d /\ d < Word /\ t = Word * p + d
    BY <1>0, DivMod, Zenon
  <2>2. b = t % Word
    BY DEF Sampled
  <2> QED
    BY <2>1, <2>2, Zenon
<1>3. PICK q \in Int : 0 <= c /\ c < Word /\ r = Word * q + c
  <2>1. \E q, d \in Int : q = r \div Word /\ d = r % Word /\ 0 <= d /\ d < Word /\ r = Word * q + d
    BY <1>0, DivMod, Zenon
  <2> QED
    BY <2>1, Zenon
<1>4. r - t = Word * (q - p) + (c - b)
  BY <1>0, <1>2, <1>3
<1>5. q - p >= 0
  <2> SUFFICES ASSUME q - p <= -1 PROVE FALSE
    OBVIOUS
  <2>1. Word * (p - q) >= Word
    BY <1>0, AtLeastOnce
  <2>2. Word * (q - p) = - (Word * (p - q))
    BY <1>0
  <2> QED
    BY <1>0, <1>2, <1>3, <1>4, <2>1, <2>2
<1>6. q - p <= 1
  <2> SUFFICES ASSUME q - p >= 2 PROVE FALSE
    OBVIOUS
  <2>1. Word * (q - p - 1) >= Word
    BY <1>0, AtLeastOnce
  <2>2. Word * (q - p) = Word * (q - p - 1) + Word
    BY <1>0
  <2> QED
    BY <1>0, <1>2, <1>3, <1>4, <2>1, <2>2
<1>7. CASE c < b
  <2>1. q - p = 1
    <3>1. q - p # 0
      BY <1>0, <1>4, <1>7
    <3> QED
      BY <1>5, <1>6, <3>1
  <2>2. r - t = Word + c - b
    BY <1>0, <1>4, <2>1
  <2>3. PICK j \in Int : a + 1 = High * j + e
    <3>1. \E j, d \in Int : j = (a + 1) \div High /\ d = (a + 1) % High /\ 0 <= d /\ d < High /\ a + 1 = High * j + d
      BY <1>0, DivMod, Zenon
    <3>2. e = (a + 1) % High
      BY <1>7
    <3> QED
      BY <3>1, <3>2, Zenon
  <2>4. e * Word = a * Word + Word - j * Total
    <3>1. e = a + 1 - High * j
      BY <1>0, <2>3
    <3>2. (a + 1 - High * j) * Word = a * Word + Word - (High * j) * Word
      BY <1>0
    <3>3. (High * j) * Word = j * (Word * High)
      BY <1>0
    <3> QED
      BY <3>1, <3>2, <3>3 DEF Total
  <2>5. e * Word + c - s = r - u + (k - j) * Total
    BY <1>0, <1>1, <2>2, <2>4, TotalPositive
  <2>6. u <= r
    BY DEF Sampled
  <2> QED
    BY <2>5, <2>6 DEF Sampled
<1>8. CASE c >= b
  <2>1. q - p = 0
    <3>1. q - p # 1
      BY <1>0, <1>4, <1>8
    <3> QED
      BY <1>5, <1>6, <3>1
  <2>2. r - t = c - b
    BY <1>0, <1>4, <2>1
  <2>3. e * Word + c - s = r - u + k * Total
    <3>1. e = a
      BY <1>8
    <3>2. PICK y, z \in Int : y = a * Word /\ z = k * Total
      BY <1>0, TotalPositive
    <3>3. y + b - s = t - u + z
      BY <1>1, <3>2
    <3>4. y + c - s = r - u + z
      BY <1>0, <2>2, <3>3
    <3> QED
      BY <3>1, <3>2, <3>4
  <2>4. u <= r
    BY DEF Sampled
  <2> QED
    BY <2>3, <2>4 DEF Sampled
<1> QED
  BY <1>7, <1>8

\* What the delay loop takes for the time that has passed is no more than has passed.
LEMMA ElapsedPassed ==
  ASSUME TimerAssumption,
         NEW t \in Nat, NEW u \in Nat, NEW a \in Int, NEW b \in Int, NEW s \in Int,
         Sampled(t, u, a, b, s)
  PROVE  ((a * Word + b) - s) % Total <= t - u
<1>0. Word \in Nat /\ Total \in Nat /\ Total > 0
  BY TotalPositive
<1>1. PICK k \in Int : a * Word + b - s = t - u + k * Total
  BY DEF Sampled
<1>2. PICK x \in Int : x = (a * Word + b) - s
  BY <1>0
<1>3. PICK q, d \in Int : q = x \div Total /\ d = x % Total /\ 0 <= d /\ d < Total /\ x = Total * q + d
  BY <1>0, DivMod, Zenon
<1>4. t - u = Total * (q - k) + d
  <2>1. Total * (q - k) = Total * q - k * Total /\ Total * q \in Int /\ k * Total \in Int
    BY <1>0
  <2>2. PICK y \in Int : y = a * Word
    BY <1>0
  <2>3. x = t - u + k * Total
    BY <1>1, <1>2, <2>1, <2>2
  <2>4. PICK v, z \in Int : v = Total * q /\ z = k * Total
    BY <2>1, Zenon
  <2>5. x = v + d /\ x = t - u + z /\ Total * (q - k) = v - z
    BY <1>3, <2>1, <2>3, <2>4, Zenon
  <2>6. t - u = (v - z) + d
    BY <2>5
  <2> QED
    BY <2>5, <2>6, Zenon
<1>5. q - k >= 0
  <2> SUFFICES ASSUME q - k <= -1 PROVE FALSE
    OBVIOUS
  <2>1. Total * (k - q) >= Total
    BY <1>0, AtLeastOnce
  <2>2. Total * (q - k) = - (Total * (k - q))
    BY <1>0
  <2>3. u <= t
    BY DEF Sampled
  <2> QED
    BY <1>0, <1>3, <1>4, <2>1, <2>2, <2>3
<1>6. Total * (q - k) >= 0
  BY <1>0, <1>5
<1>7. d <= t - u
  BY <1>3, <1>4, <1>6, <1>0
<1> QED
  BY <1>2, <1>3, <1>7
-----------------------------------------------------------------------------
(***************************************************************************)
(* The inductive invariant.                                                *)
(***************************************************************************)
Numbers ==
  /\ now \in Nat /\ readAt \in Nat /\ startAt \in Nat
  /\ h \in Int /\ l \in Int /\ low \in Int /\ start \in Int /\ ticks \in Int

\* A wrap is pending only if the interrupt is in use, and WrapsCounted by cases.
Counted ==
  /\ mode \in {"poll", "irq"} /\ pending \in BOOLEAN /\ (pending => mode = "irq")
  /\ mode = "irq" /\ pending => (now \div Word) % High = (h + 1) % High
  /\ mode = "irq" /\ ~pending => (now \div Word) % High = h % High

\* Without the interrupt: a delay looks at the counter at least once in a period, and
\* the words stored are a sample.
Polled ==
  mode = "poll" =>
    /\ pc # "idle" => readAt <= now /\ now - readAt <= Pause /\ Pause < Word
    /\ pc \in {"firstRead", "nextRead"} => low = readAt % Word
    /\ pc = "again" => Sampled(readAt, startAt, h, l, start)
    /\ pc = "nextRead" =>
         \E t \in Nat : t <= readAt /\ readAt - t <= Pause /\ Sampled(t, startAt, h, l, start)
    /\ pc = "done" => readAt - startAt >= ticks

TimerInv == Numbers /\ Counted /\ Polled

LEMMA InitialInv ==
  ASSUME TimerAssumption, TimerInit
  PROVE  TimerInv
<1>1. Numbers
  BY DEF TimerInit, Numbers
<1>2. Counted
  <2>1. mode \in {"poll", "irq"}
    BY Zenon DEF TimerInit, TimerAssumption
  <2>2. 0 = Word * 0 + 0 /\ Word \in Nat /\ Word > 0
    BY TotalPositive
  <2>3. 0 \div Word = 0
    BY <2>2, QuotientOf
  <2>4. (now \div Word) % High = h % High
    BY <2>3 DEF TimerInit
  <2> QED
    BY <2>1, <2>4, Zenon DEF Counted, TimerInit
<1>3. Polled
  BY DEF TimerInit, Polled
<1> QED
  BY <1>1, <1>2, <1>3 DEF TimerInv

LEMMA HighWordType ==
  ASSUME TimerAssumption, Numbers
  PROVE  HighWord \in Int /\ Sample \in Int /\ now % Word \in Int /\ (h + 1) % High \in Int
<1>1. Word \in Nat /\ Word > 0 /\ High \in Nat /\ High > 0
  BY TotalPositive, Zenon
<1>2. (h + 1) % High \in Int
  BY <1>1 DEF Numbers
<1>3. now % Word \in Int
  BY <1>1 DEF Numbers
<1>4. HighWord \in Int
  BY <1>2 DEF Numbers, HighWord
<1>5. Sample \in Int
  BY <1>1, <1>4 DEF Numbers, Sample
<1> QED
  BY <1>2, <1>3, <1>4, <1>5

LEMMA NumbersStep ==
  ASSUME TimerAssumption, Numbers, TimerNext
  PROVE  Numbers'
<1>1. CASE CounterTick
  BY <1>1 DEF CounterTick, Numbers, callVars
<1>2. CASE IrqTimerHandler
  BY <1>2, HighWordType DEF IrqTimerHandler, Numbers, callVars
<1>3. CASE \E t \in Delays, m \in BOOLEAN : Delay(t, m)
  BY <1>3 DEF Delay, Numbers, TimerAssumption
<1>4. CASE GetTicks("first", "firstRead") \/ GetTicks("again", "nextRead")
  BY <1>4, HighWordType DEF GetTicks, Numbers, callVars
<1>5. CASE FirstSample
  BY <1>5, HighWordType DEF FirstSample, Numbers
<1>6. CASE NextSample
  BY <1>6, HighWordType, Zenon DEF NextSample, Numbers, callVars
<1>7. CASE Return
  BY <1>7 DEF Return, Numbers
<1> QED
  BY <1>1, <1>2, <1>3, <1>4, <1>5, <1>6, <1>7 DEF TimerNext

\* The number of wraps after a step of the counter, against a count x of them.
LEMMA CountOneMore ==
  ASSUME TimerAssumption, NEW n \in Int, NEW x \in Int, (n \div Word) % High = x % High
  PROVE  /\ (n + 1) % Word = 0 => ((n + 1) \div Word) % High = (x + 1) % High
         /\ (n + 1) % Word # 0 => ((n + 1) \div Word) % High = x % High
<1>1. Word \in Nat /\ Word > 0 /\ High \in Nat /\ High > 0
  BY TotalPositive
<1>2. PICK q \in Int : q = n \div Word
  BY <1>1
<1>3. (n + 1) \div Word = IF (n + 1) % Word = 0 THEN q + 1 ELSE q
  BY <1>1, <1>2, WrapStep
<1>4. (q + 1) % High = (x + 1) % High
  BY <1>1, <1>2, ModPlusOne
<1> QED
  BY <1>2, <1>3, <1>4, Zenon

LEMMA CountedStep ==
  ASSUME TimerAssumption, TimerInv, TimerNext
  PROVE  Counted'
<1> USE DEF TimerInv
<1>1. CASE CounterTick
  <2>1. now' = now + 1 /\ h' = h /\ mode' = mode /\ now \in Int /\ h \in Int /\ h + 1 \in Int
    BY <1>1 DEF CounterTick, callVars, Numbers
  <2>2. pending' = (mode = "irq" /\ (pending \/ (now + 1) % Word = 0))
    BY <1>1, Zenon DEF CounterTick
  <2>3. ~(mode = "irq" /\ pending /\ (now + 1) % Word = 0)
    BY <1>1, Zenon DEF CounterTick
  <2>4. mode = "irq" /\ pending => (now' \div Word) % High = (h + 1) % High
    <3> SUFFICES ASSUME mode = "irq", pending PROVE ((now + 1) \div Word) % High = (h + 1) % High
      BY <2>1, Zenon
    <3>1. (now \div Word) % High = (h + 1) % High
      BY Zenon DEF Counted
    <3> QED
      BY <2>1, <2>3, <3>1, CountOneMore, Zenon
  <2>5. mode = "irq" /\ ~pending =>
          /\ (now + 1) % Word = 0 => (now' \div Word) % High = (h + 1) % High
          /\ (now + 1) % Word # 0 => (now' \div Word) % High = h % High
    <3> SUFFICES ASSUME mode = "irq", ~pending
                 PROVE  /\ (now + 1) % Word = 0 => ((now + 1) \div Word) % High = (h + 1) % High
                        /\ (now + 1) % Word # 0 => ((now + 1) \div Word) % High = h % High
      BY <2>1, Zenon
    <3>1. (now \div Word) % High = h % High
      BY Zenon DEF Counted
    <3> QED
      BY <2>1, <3>1, CountOneMore, Zenon
  <2> QED
    BY <2>1, <2>2, <2>3, <2>4, <2>5, Zenon DEF Counted
<1>2. CASE IrqTimerHandler
  <2>1. h' = (h + 1) % High /\ now' = now /\ mode' = mode /\ pending /\ pending' = FALSE
    BY <1>2, Zenon DEF IrqTimerHandler, callVars
  <2>2. High \in Nat /\ High > 0 /\ h + 1 \in Int
    BY TotalPositive DEF Numbers
  <2>3. ((h + 1) % High) % High = (h + 1) % High
    BY <2>2, ModOfMod, Zenon
  <2> QED
    BY <2>1, <2>3, Zenon DEF Counted
<1>3. CASE UNCHANGED <<now, pending, h, mode>>
  BY <1>3, Zenon DEF Counted
<1>4. CASE \E t \in Delays, m \in BOOLEAN : Delay(t, m)
  BY <1>3, <1>4, Zenon DEF Delay
<1>5. CASE GetTicks("first", "firstRead") \/ GetTicks("again", "nextRead")
  BY <1>3, <1>5, Zenon DEF GetTicks, callVars
<1>6. CASE FirstSample \/ NextSample
  <2>1. h' = HighWord /\ UNCHANGED <<now, pending, mode>>
    BY <1>6, Zenon DEF FirstSample, NextSample, callVars
  <2>2. mode = "irq" => HighWord = h
    BY DEF HighWord, WrapSeen
  <2> QED
    BY <2>1, <2>2, Zenon DEF Counted
<1>7. CASE Return
  BY <1>3, <1>7, Zenon DEF Return
<1> QED
  BY <1>1, <1>2, <1>4, <1>5, <1>6, <1>7, Zenon DEF TimerNext

LEMMA PolledStep ==
  ASSUME TimerAssumption, TimerInv, TimerNext
  PROVE  Polled'
<1>0. mode' = mode
  BY Zenon DEF TimerNext, CounterTick, IrqTimerHandler, Delay, GetTicks, FirstSample, NextSample, Return, callVars
<1> SUFFICES ASSUME mode = "poll" PROVE Polled'
  BY <1>0, Zenon DEF Polled
<1>1. CASE CounterTick
  <2>1. now' = now + 1 /\ UNCHANGED <<h, l, pc, low, start, readAt, startAt, ticks>>
    BY <1>1 DEF CounterTick, callVars
  <2>2. pc # "idle" => now - readAt < Pause
    BY <1>1, Zenon DEF CounterTick
  <2>3. pc # "idle" => readAt <= now + 1 /\ now + 1 - readAt <= Pause /\ Pause < Word
    BY <2>2 DEF TimerInv, Numbers, Polled, TimerAssumption
  <2>4. pc' # "idle" => readAt' <= now' /\ now' - readAt' <= Pause /\ Pause < Word
    <3>1. pc' = pc /\ readAt' = readAt /\ now' = now + 1
      BY <2>1
    <3> SUFFICES ASSUME pc # "idle" PROVE readAt <= now' /\ now' - readAt <= Pause /\ Pause < Word
      BY <3>1, Zenon
    <3> QED
      BY <2>3, <3>1 DEF TimerInv, Numbers, TimerAssumption
  <2>5. UNCHANGED <<h, l, pc, low, start, readAt, startAt, ticks>>
    BY <2>1
  <2> QED
    BY <2>4, <2>5, Zenon DEF TimerInv, Polled
<1>2. CASE IrqTimerHandler
  BY <1>2, Zenon DEF IrqTimerHandler, TimerInv, Counted
<1>3. CASE \E t \in Delays, m \in BOOLEAN : Delay(t, m)
  <2>1. PICK t \in Delays : pc' = "first" /\ readAt' = now /\ now' = now
    BY <1>3 DEF Delay, Step
  <2>2. Pause < Word /\ now <= now /\ now - now <= Pause
    BY DEF TimerAssumption, TimerInv, Numbers
  <2> QED
    BY <2>1, <2>2, Zenon DEF Polled
<1>4. CASE GetTicks("first", "firstRead")
  <2>1. pc = "first" /\ pc' = "firstRead" /\ readAt' = now /\ now' = now /\ low' = now % Word
    BY <1>4, Zenon DEF GetTicks, Step
  <2>2. Pause < Word /\ now <= now /\ now - now <= Pause
    BY <2>1 DEF TimerAssumption, TimerInv, Numbers, Polled
  <2> QED
    BY <2>1, <2>2, Zenon DEF Polled
<1>5. CASE GetTicks("again", "nextRead")
  <2>1. /\ pc = "again" /\ pc' = "nextRead" /\ readAt' = now /\ now' = now /\ low' = now % Word
        /\ UNCHANGED <<startAt, h, l, start>>
    BY <1>5, Zenon DEF GetTicks, Step, callVars
  <2>2. /\ readAt <= now /\ now - readAt <= Pause /\ Pause < Word
        /\ Sampled(readAt, startAt, h, l, start) /\ readAt \in Nat
    BY <2>1, Zenon DEF TimerInv, Numbers, Polled
  <2>3. now <= now /\ now - now <= Pause
    BY DEF TimerAssumption, TimerInv, Numbers
  <2> QED
    BY <2>1, <2>2, <2>3, Zenon DEF Polled
<1>6. CASE FirstSample
  <2>1. /\ pc = "firstRead" /\ pc' = "again" /\ h' = HighWord /\ l' = low /\ start' = HighWord * Word + low
        /\ startAt' = readAt /\ UNCHANGED <<now, readAt>>
    BY <1>6, Zenon DEF FirstSample, Step, Sample
  <2>2. low = readAt % Word /\ readAt <= now /\ now - readAt <= Pause /\ Pause < Word
    BY <2>1, Zenon DEF TimerInv, Polled
  <2>3. HighWord \in Int /\ readAt \in Nat /\ low \in Int
    BY HighWordType DEF TimerInv, Numbers
  <2>4. Sampled(readAt, readAt, HighWord, low, HighWord * Word + low)
    BY <2>2, <2>3, FirstSampled, Zenon
  <2> QED
    BY <2>1, <2>2, <2>4, Zenon DEF Polled
<1>7. CASE NextSample
  <2>1. /\ pc = "nextRead" /\ pc' = (IF Elapsed < ticks THEN "again" ELSE "done")
        /\ h' = HighWord /\ l' = low /\ UNCHANGED <<now, readAt, startAt, start, ticks>>
    BY <1>7, Zenon DEF NextSample, Step, callVars
  <2>2. PICK t \in Nat : t <= readAt /\ readAt - t <= Pause /\ Sampled(t, startAt, h, l, start)
    BY <2>1, Zenon DEF TimerInv, Polled
  <2>3. low = readAt % Word /\ readAt <= now /\ now - readAt <= Pause /\ Pause < Word
    BY <2>1, Zenon DEF TimerInv, Polled
  <2>4. /\ HighWord \in Int /\ readAt \in Nat /\ startAt \in Nat /\ low \in Int /\ h \in Int /\ l \in Int
        /\ start \in Int /\ ticks \in Int
    BY HighWordType DEF TimerInv, Numbers
  <2>5. readAt - t < Word
    BY <2>2, <2>3, <2>4, TotalPositive DEF TimerAssumption
  <2>6. HighWord = IF low < l THEN (h + 1) % High ELSE h
    BY Zenon DEF HighWord, WrapSeen
  <2>7. Sampled(readAt, startAt, HighWord, low, start)
    <3>1. PICK e \in Int : e = HighWord
      BY <2>4, Zenon
    <3>2. e = IF low < l THEN (h + 1) % High ELSE h
      BY <2>6, <3>1, Zenon
    <3>3. Sampled(readAt, startAt, e, low, start)
      BY <2>2, <2>3, <2>4, <2>5, <3>2, NextSampled
    <3> QED
      BY <3>1, <3>3, Zenon
  <2>8. Elapsed <= readAt - startAt
    <3>1. ((HighWord * Word + low) - start) % Total <= readAt - startAt
      BY <2>4, <2>7, ElapsedPassed, Zenon
    <3>2. Elapsed = ((HighWord * Word + low) - start) % Total
      BY Zenon DEF Elapsed, Sample
    <3> QED
      BY <3>1, <3>2, Zenon
  <2>9. CASE Elapsed < ticks
    BY <2>1, <2>3, <2>7, <2>9, Zenon DEF Polled
  <2>10. CASE ~(Elapsed < ticks)
    <3>1. Elapsed \in Int
      BY <2>4, HighWordType, TotalPositive DEF Elapsed, TimerInv
    <3>2. readAt - startAt >= ticks
      BY <2>4, <2>8, <2>10, <3>1
    <3>3. pc' = "done"
      BY <2>1, <2>10, Zenon
    <3> QED
      BY <2>1, <2>3, <3>2, <3>3, Zenon DEF Polled
  <2> QED
    BY <2>9, <2>10
<1>8. CASE Return
  <2>1. pc' = "idle"
    BY <1>8, Zenon DEF Return, Step
  <2> QED
    BY <2>1, Zenon DEF Polled
<1> QED
  BY <1>1, <1>2, <1>3, <1>4, <1>5, <1>6, <1>7, <1>8 DEF TimerNext

\* The inductive invariant of the timer.
THEOREM TimerInvariant == ASSUME TimerAssumption PROVE TimerSpec => []TimerInv
<1>1. TimerInit => TimerInv
  BY InitialInv
<1>2. TimerInv /\ [TimerNext]_timerVars => TimerInv'
  <2> SUFFICES ASSUME TimerInv, [TimerNext]_timerVars PROVE TimerInv'
    OBVIOUS
  <2>1. CASE TimerNext
    BY <2>1, NumbersStep, CountedStep, PolledStep DEF TimerInv
  <2>2. CASE UNCHANGED timerVars
    BY <2>2, Zenon DEF timerVars, TimerInv, Numbers, Counted, Polled
  <2> QED
    BY <2>1, <2>2
<1> QED
  BY <1>1, <1>2, PTL DEF TimerSpec

\* timer_delay_us and timer_delay_ms of SBL-S1, which polls the counter, never return
\* early, however often the counter and the high word wrap.
THEOREM PolledDelayInvariant == ASSUME TimerAssumption PROVE TimerSpec => []PolledDelayLongEnough
<1>1. TimerInv => PolledDelayLongEnough
  BY Zenon DEF TimerInv, Polled, PolledDelayLongEnough, DelayLongEnough
<1> QED
  BY <1>1, TimerInvariant, PTL

\* irq_timer_handler counts every wrap but the one that is pending, whatever delays run
\* meanwhile.
THEOREM WrapsCountedInvariant == ASSUME TimerAssumption PROVE TimerSpec => []WrapsCounted
<1>1. TimerInv => WrapsCounted
  <2> SUFFICES ASSUME TimerInv, mode = "irq"
               PROVE  (now \div Word) % High = (h + (IF pending THEN 1 ELSE 0)) % High
    BY Zenon DEF WrapsCounted
  <2>1. h + 0 = h
    BY DEF TimerInv, Numbers
  <2>2. CASE pending
    BY <2>2, Zenon DEF TimerInv, Counted
  <2>3. CASE ~pending
    BY <2>1, <2>3, Zenon DEF TimerInv, Counted
  <2> QED
    BY <2>2, <2>3
<1> QED
  BY <1>1, TimerInvariant, PTL
-----------------------------------------------------------------------------
(***************************************************************************)
(* The watchdog.                                                           *)
(***************************************************************************)
\* Clients ask for no more than RISC0_IPC_WDT_FUNC_GET_MAX_TIMEOUT_S reports.
WithinMaximum == \A s \in Timeouts : s * Sec <= MaxTimeoutMs

Flags ==
  /\ stage \in {"S1", "S1 ends", "S2", "S3", "clients"}
  /\ enabled \in BOOLEAN /\ fired \in BOOLEAN
  /\ stage # "S1" /\ build.wdt => enabled
  /\ fired => left = 0

\* The counter was loaded with the period in TOP, but between the start of a stopped
\* watchdog by SBL-S1 and its end, and the period covers what was promised last.
Counters ==
  /\ top \in 0..MaxCoef /\ topInt \in 0..MaxCoef
  /\ left \in Int /\ since \in Int /\ promised \in Int
  /\ stage # "clients" /\ ~build.wdt => promised = 0
  /\ stage # "S1 ends" => left + since = Ticks(top)
  /\ stage = "S1 ends" /\ ~build.wdt => left + since = Ticks(top)
  /\ stage \in {"S3", "clients"} => promised <= Ticks(top)

WdtInv == Flags /\ Counters
-----------------------------------------------------------------------------
(***************************************************************************)
(* Arithmetic.                                                             *)
(***************************************************************************)
LEMMA TicksType ==
  ASSUME NEW i \in 0..MaxCoef
  PROVE  Ticks(i) \in Nat /\ Ticks(i) > 0 /\ Ticks(i) <= Ticks(MaxCoef)
<1>1. Ticks(i) \in Nat \ {0} /\ Ticks(i) <= Ticks(MaxCoef)
  BY PeriodAssumption, Zenon
<1> QED
  BY <1>1

LEMMA MaxCoefType == MaxCoef \in 0..MaxCoef /\ 0 \in 0..MaxCoef
BY WdtAssumption

LEMMA ZeroAdded ==
  ASSUME NEW t \in Nat
  PROVE  t \in Int /\ 0 \in Int /\ 0 <= t /\ t + 0 = t /\ t <= t
OBVIOUS

\* Whole units of b in a.
LEMMA WholeUnits ==
  ASSUME NEW a \in Nat, NEW b \in Nat, b > 0
  PROVE  a \div b \in Nat /\ (a \div b) * b <= a
OBVIOUS

LEMMA LeastExists ==
  ASSUME NEW S, S \subseteq Nat, S # {}
  PROVE  Min(S) \in S /\ \A y \in S : Min(S) <= y
<1>1. PICK x \in S : \A y \in S : ~(<<y, x>> \in OpToRel(<, Nat))
  BY NatLessThanWellFounded, WFMin, Zenon
<1>2. \A y \in S : ~(y < x)
  BY <1>1, Zenon DEF OpToRel
<1>3. \A y \in S : x <= y
  BY <1>2
<1> QED
  BY <1>3, Zenon DEF Min

LEMMA LesserOf ==
  ASSUME NEW a \in Int, NEW b \in Int, a <= b
  PROVE  Min({a, b}) = a
BY DEF Min

\* __wdt_get_timeout_coef chooses a period that is long enough, if there is one.
LEMMA CoefLongEnough ==
  ASSUME NEW ms \in Nat, ms * KHz \in Nat, ms * KHz <= Ticks(MaxCoef)
  PROVE  Coef(ms) \in 0..MaxCoef /\ ms * KHz <= Ticks(Coef(ms))
<1> DEFINE fits == {i \in 0..MaxCoef : Wrap(ms * KHz) <= Ticks(i)} \cup {MaxCoef}
<1>1. Coef(ms) = Min(fits)
  BY Zenon DEF Coef
<1>2. fits \subseteq 0..MaxCoef /\ fits \subseteq Nat /\ fits # {}
  BY MaxCoefType
<1>3. Min(fits) \in fits
  <2> HIDE DEF fits
  <2> QED
    BY <1>2, LeastExists, Zenon
<1>4. Wrap(ms * KHz) = ms * KHz
  <2>1. ms * KHz < 2^Bits /\ 2^Bits \in Nat
    <3>1. Ticks(MaxCoef) \in Nat /\ 2^Bits \in Nat /\ Ticks(MaxCoef) < 2^Bits
      BY TicksType, MaxCoefType, PeriodAssumption
    <3> QED
      BY <3>1
  <2> DEFINE w == 2^Bits
             n == ms * KHz
  <2>2. w \in Nat /\ n \in Nat /\ n < w
    BY <2>1
  <2>3. n % w = n
    <3> HIDE DEF w, n
    <3> QED
      BY <2>2
  <2> QED
    BY <2>3 DEF Wrap
<1> QED
  BY <1>1, <1>2, <1>3, <1>4, Zenon

\* A client's timeout within the maximum gets a period that covers it.
LEMMA RequestCovered ==
  ASSUME WithinMaximum, NEW s \in Timeouts
  PROVE  /\ Coef(Wrap(s * Sec)) \in 0..MaxCoef
         /\ Promise(s * Sec) \in Nat
         /\ Promise(s * Sec) <= Ticks(Coef(Wrap(s * Sec)))
<1> DEFINE ms == s * Sec
           max == MaxTimeoutMs
           T == Ticks(MaxCoef)
           w == 2^Bits
<1>1. s \in Nat /\ Sec \in Nat /\ KHz \in Nat /\ KHz > 0
  BY WdtAssumption
<1>2. T \in Nat /\ w \in Nat /\ T < w
  BY TicksType, MaxCoefType, PeriodAssumption
<1>3. max \in Nat /\ max * KHz <= T
  BY <1>1, <1>2, WholeUnits, Zenon DEF MaxTimeoutMs
<1>4. ms \in Nat /\ ms <= max
  BY <1>1 DEF WithinMaximum
<1> HIDE DEF ms, max, T, w
<1>5. ms * KHz \in Nat /\ max * KHz \in Nat /\ ms * KHz <= max * KHz /\ ms * KHz <= T
  BY <1>1, <1>2, <1>3, <1>4
<1>6. ms < w
  <2>1. max <= max * KHz
    BY <1>1, <1>3
  <2> QED
    BY <1>2, <1>3, <1>4, <1>5, <2>1
<1>7. ms % w = ms
  BY <1>2, <1>4, <1>6
<1>8. Wrap(s * Sec) = ms
  BY <1>7 DEF Wrap, ms, w
<1>9. Coef(ms) \in 0..MaxCoef /\ ms * KHz <= Ticks(Coef(ms))
  BY <1>4, <1>5, CoefLongEnough DEF T
<1>10. Promise(ms) = ms * KHz
  <2>1. Min({ms * KHz, max * KHz}) = ms * KHz
    BY <1>5, LesserOf
  <2> QED
    BY <2>1 DEF Promise, max
<1> QED
  BY <1>5, <1>8, <1>9, <1>10 DEF ms
-----------------------------------------------------------------------------
LEMMA WdtInit == Init => WdtInv
<1> SUFFICES ASSUME Init PROVE WdtInv
  OBVIOUS
<1>1. Flags
  BY Zenon DEF Init, Flags
<1>2. top \in 0..MaxCoef /\ topInt \in 0..MaxCoef
  BY WdtAssumption, MaxCoefType DEF Init
<1>3. left = Ticks(top) /\ left \in Nat
  BY <1>2, TicksType, Zenon DEF Init
<1>4. stage = "S1" /\ since = 0 /\ promised = 0 /\ ~fired
  BY DEF Init
<1>5. Counters
  BY <1>2, <1>3, <1>4 DEF Counters
<1> QED
  BY <1>1, <1>5 DEF WdtInv

LEMMA StageStartsStep ==
  ASSUME WdtInv,
         NEW from, NEW to,
         \/ from = "S1" /\ to = "S1 ends"
         \/ from = "S2" /\ to = "S3"
         \/ from = "S3" /\ to = "clients",
         StageStarts(from, to)
  PROVE  WdtInv'
<1>1. stage = from /\ stage' = to /\ ~fired /\ build' = build /\ fired' = fired
  BY Zenon DEF StageStarts, Alive
<1>2. \/ from = "S1" /\ to = "S1 ends"
      \/ from = "S2" /\ to = "S3"
      \/ from = "S3" /\ to = "clients"
  BY Zenon
<1>3. /\ MaxCoef \in 0..MaxCoef /\ Ticks(MaxCoef) \in Int /\ 0 \in Int
      /\ Ticks(MaxCoef) + 0 = Ticks(MaxCoef) /\ Ticks(MaxCoef) <= Ticks(MaxCoef)
  BY MaxCoefType, TicksType, ZeroAdded, Zenon
<1>4. ~fired'
  BY <1>1, Zenon
<1>5. CASE ~build.wdt
  <2>1. UNCHANGED <<enabled, top, topInt, left, since, promised>>
    BY <1>5, Zenon DEF StageStarts, regs
  <2>2. Flags'
    BY <1>1, <1>2, <1>5, <1>4, <2>1, Zenon DEF WdtInv, Flags
  <2>3. 0 <= Ticks(top)
    <3>1. top \in 0..MaxCoef
      BY Zenon DEF WdtInv, Counters
    <3> QED
      BY <3>1, TicksType, ZeroAdded, Zenon
  <2>4. Counters'
    BY <1>1, <1>2, <1>4, <1>5, <2>1, <2>3, Zenon DEF WdtInv, Counters
  <2> QED
    BY <2>2, <2>4, Zenon DEF WdtInv
<1>6. CASE build.wdt /\ enabled
  <2>1. /\ top' = MaxCoef /\ left' = Ticks(MaxCoef) /\ since' = 0 /\ promised' = Ticks(MaxCoef)
        /\ UNCHANGED <<enabled, topInt>>
    BY <1>6, Zenon DEF StageStarts, WdtStart, WdtReset
  <2>2. Flags'
    BY <1>1, <1>2, <1>6, <1>4, <2>1, Zenon DEF WdtInv, Flags
  <2>3. Counters'
    BY <1>1, <1>2, <1>3, <1>6, <2>1, Zenon DEF WdtInv, Counters
  <2> QED
    BY <2>2, <2>3, Zenon DEF WdtInv
<1>7. CASE build.wdt /\ ~enabled
  <2>1. to = "S1 ends"
    BY <1>1, <1>2, <1>7, Zenon DEF WdtInv, Flags
  <2>2. /\ topInt' = MaxCoef /\ left' = Ticks(MaxCoef) /\ since' = 0 /\ promised' = Ticks(MaxCoef)
        /\ top' = top
    BY <1>7, Zenon DEF StageStarts, WdtStart
  <2>3. enabled' = TRUE
    BY <1>7, Zenon DEF StageStarts, WdtStart
  <2>4. Flags'
    BY <1>1, <2>1, <2>3, Zenon DEF WdtInv, Flags
  <2>5. Counters'
    BY <1>1, <1>3, <1>7, <2>1, <2>2, Zenon DEF WdtInv, Counters
  <2> QED
    BY <2>4, <2>5, Zenon DEF WdtInv
<1> QED
  BY <1>5, <1>6, <1>7, Zenon

LEMMA ResetStep ==
  ASSUME WdtInv, S1Ends \/ ResetInternal \/ IpcPing
  PROVE  WdtInv'
<1>1. /\ UNCHANGED <<build, enabled, top, topInt, fired, promised>> /\ ~fired
      /\ \/ stage = "S1 ends" /\ stage' = "S2"
         \/ stage = "clients" /\ stage' = "clients"
      /\ \/ left' = Ticks(top) /\ since' = 0
         \/ stage = "S1 ends" /\ ~build.wdt /\ UNCHANGED <<left, since>>
  BY Zenon DEF S1Ends, ResetInternal, IpcPing, WdtReset, Alive
<1>2. Flags'
  BY <1>1, Zenon DEF WdtInv, Flags
<1>3. Ticks(top) \in Int /\ 0 \in Int /\ Ticks(top) + 0 = Ticks(top)
  <2>1. top \in 0..MaxCoef
    BY Zenon DEF WdtInv, Counters
  <2> QED
    BY <2>1, TicksType
<1>4. Counters'
  BY <1>1, <1>3, Zenon DEF WdtInv, Counters
<1> QED
  BY <1>2, <1>4, Zenon DEF WdtInv

LEMMA RequestStep ==
  ASSUME WithinMaximum, WdtInv, NEW s \in Timeouts, IpcStart(s) \/ IpcSetTimeout(s)
  PROVE  WdtInv'
<1> DEFINE c == Coef(Wrap(s * Sec))
           p == Promise(s * Sec)
<1>1. c \in 0..MaxCoef /\ p \in Nat /\ p <= Ticks(c)
  BY RequestCovered
<1>2. /\ stage = "clients" /\ stage' = stage /\ ~fired /\ fired' = fired /\ build' = build
      /\ top' = c /\ left' = Ticks(c) /\ since' = 0 /\ promised' = p
  BY Zenon DEF IpcStart, IpcSetTimeout, WdtSetTimeoutMs, WdtReset, Alive
<1>3. topInt' = topInt \/ topInt' = MaxCoef
  BY DEF IpcStart, IpcSetTimeout, WdtSetTimeoutMs
<1>4. enabled' = TRUE \/ enabled' = enabled
  BY Zenon DEF IpcStart, IpcSetTimeout
<1> HIDE DEF c, p
<1>5. Flags'
  BY <1>2, <1>4, Zenon DEF WdtInv, Flags
<1>6. Ticks(c) \in Nat /\ ~fired'
  <2>1. Ticks(c) \in Nat
    BY <1>1, TicksType, Zenon
  <2> QED
    BY <1>2, <2>1, Zenon
<1>7. Counters'
  BY <1>1, <1>2, <1>3, <1>6, MaxCoefType DEF WdtInv, Counters
<1> QED
  BY <1>5, <1>7 DEF WdtInv

LEMMA TickStep ==
  ASSUME WdtInv, Tick
  PROVE  WdtInv'
<1>1. left' = left - 1 /\ since' = since + 1 /\ UNCHANGED <<stage, build, enabled, top, topInt, promised>>
  BY Zenon DEF Tick
<1>2. fired' = (left' = 0)
  BY Zenon DEF Tick
<1>3. Flags'
  BY <1>1, <1>2, Zenon DEF WdtInv, Flags
<1>4. left \in Int /\ since \in Int
  BY Zenon DEF WdtInv, Counters
<1>5. left' \in Int /\ since' \in Int /\ left' + since' = left + since
  <2>1. left' = left - 1 /\ since' = since + 1
    BY <1>1
  <2> QED
    BY <1>4, <2>1
<1>6. Counters'
  BY <1>1, <1>5, Zenon DEF WdtInv, Counters
<1> QED
  BY <1>3, <1>6 DEF WdtInv

\* The inductive invariant of the watchdog.
THEOREM WdtInvariant == ASSUME WithinMaximum PROVE Spec => []WdtInv
<1>1. WdtInv /\ [Next]_vars => WdtInv'
  <2> SUFFICES ASSUME WdtInv, [Next]_vars PROVE WdtInv'
    OBVIOUS
  <2>1. CASE UNCHANGED vars
    BY <2>1, Zenon DEF vars, regs, WdtInv, Flags, Counters
  <2>2. CASE StageStarts("S1", "S1 ends") \/ StageStarts("S2", "S3") \/ StageStarts("S3", "clients")
    <3>1. CASE StageStarts("S1", "S1 ends")
      BY <3>1, StageStartsStep, Zenon
    <3>2. CASE StageStarts("S2", "S3")
      BY <3>2, StageStartsStep, Zenon
    <3>3. CASE StageStarts("S3", "clients")
      BY <3>3, StageStartsStep, Zenon
    <3> QED
      BY <2>2, <3>1, <3>2, <3>3, Zenon
  <2>3. CASE S1Ends \/ ResetInternal \/ IpcPing
    BY <2>3, ResetStep
  <2>4. CASE \E s \in Timeouts : IpcStart(s) \/ IpcSetTimeout(s)
    BY <2>4, RequestStep
  <2>5. CASE Tick
    BY <2>5, TickStep
  <2> QED
    BY <2>1, <2>2, <2>3, <2>4, <2>5, Zenon DEF Next
<1> QED
  BY <1>1, WdtInit, PTL DEF Spec

\* From SBL-S2 on no reset comes before the time promised last has passed without a
\* ping (wdt_start, wdt_set_timeout_ms, wdt_reset).
THEOREM NoEarlyResetInvariant == ASSUME WithinMaximum PROVE Spec => []NoEarlyReset
<1>1. WdtInv => NoEarlyReset
  <2> SUFFICES ASSUME WdtInv, fired, stage \in {"S3", "clients"} PROVE since >= promised
    BY DEF NoEarlyReset
  <2>1. left = 0 /\ left + since = Ticks(top) /\ promised <= Ticks(top)
    BY Zenon DEF WdtInv, Flags, Counters
  <2>2. left \in Int /\ since \in Int /\ promised \in Int
    BY Zenon DEF WdtInv, Counters
  <2> QED
    BY <2>1, <2>2
<1> QED
  BY <1>1, WdtInvariant, PTL

\* No reset comes before the timeout RISC0_IPC_WDT_FUNC_GET_TIMEOUT_S reports.
THEOREM ReportedTimeoutInvariant == ASSUME WithinMaximum PROVE Spec => []ReportedTimeoutHolds
<1>1. WdtInv => ReportedTimeoutHolds
  <2> SUFFICES ASSUME WdtInv, fired, stage = "clients" PROVE since >= (TimeoutMs \div Sec) * Sec * KHz
    BY DEF ReportedTimeoutHolds
  <2> DEFINE T == Ticks(top)
  <2>1. T \in Nat /\ since = T
    BY TicksType DEF WdtInv, Flags, Counters
  <2>2. KHz \in Nat /\ KHz > 0 /\ Sec \in Nat /\ Sec > 0
    BY WdtAssumption
  <2>3. TimeoutMs \in Nat /\ TimeoutMs * KHz <= T
    BY <2>1, <2>2, WholeUnits DEF TimeoutMs
  <2>4. TimeoutMs \div Sec \in Nat /\ (TimeoutMs \div Sec) * Sec <= TimeoutMs
    BY <2>2, <2>3, WholeUnits
  <2> DEFINE n == (TimeoutMs \div Sec) * Sec
             ms == TimeoutMs
  <2>5. n \in Nat /\ ms \in Nat /\ n <= ms /\ ms * KHz <= T
    BY <2>2, <2>3, <2>4
  <2> HIDE DEF n, ms, T
  <2>6. n * KHz <= T
    BY <2>1, <2>2, <2>5
  <2> QED
    BY <2>1, <2>6, Zenon DEF n, ms
<1> QED
  BY <1>1, WdtInvariant, PTL
-----------------------------------------------------------------------------
(***************************************************************************)
(* The time stamps of the boot, for every size of the table and of the     *)
(* memory with room for the stages of the boot loader, and any set of      *)
(* stages the clients mark.                                                *)
(***************************************************************************)
\* The stages of the boot loader in the order of Flow, and how many of them are
\* recorded before each step of it.
Stages == <<"S1_START", "DDRINIT_START", "S2_START", "S2_LOAD_START",
            "S2_LOAD_COMPLETE", "S3_START">>
Before(k) ==
  IF k = 1 THEN 0 ELSE IF k <= 4 THEN 1 ELSE IF k <= 7 THEN 2
  ELSE IF k = 8 THEN 3 ELSE IF k = 9 THEN 4 ELSE IF k <= 12 THEN 5 ELSE 6

Records == [id : Ids, time : Nat]

StampTypes ==
  /\ at \in 1..13 /\ clock \in Nat
  /\ marked \in [Ids -> Nat \cup {Never}]
  /\ table \in Seq(Records)

\* The table has the stages of the boot loader in front, no stage twice and every
\* stage with the time it was reached first.
TableInv ==
  /\ Len(table) <= Count
  /\ Booted => Len(table) >= 6
  /\ ~Booted => Len(table) = Before(at)
  /\ \A i \in 1..6 : i <= Len(table) => table[i].id = Stages[i]
  /\ \A i, j \in 1..Len(table) : table[i].id = table[j].id => i = j
  /\ \A i \in 1..Len(table) : table[i].time = marked[table[i].id]

\* A stage is missing only in a full table.
MissingInv ==
  Len(table) < Count => \A id \in Reached : \E i \in 1..Len(table) : table[i].id = id

\* What a stage finds in the memory is the table the stage before it ended with.
HandedOn ==
  ~Booted /\ Flow[at] = "new stage" =>
    area = [magic |-> TRUE, count |-> Len(table), recs |-> table,
            size |-> HdrBytes + RecBytes * Len(table)]

StampInv == StampTypes /\ TableInv /\ MissingInv /\ HandedOn
-----------------------------------------------------------------------------
LEMMA FlowLength ==
  /\ Len(Flow) = 12 /\ Len(Stages) = 6
  /\ \A i \in 1..6 : Stages[i] \in SblIds
  /\ \A id \in SblIds : \E i \in 1..6 : Stages[i] = id
BY DEF Flow, Stages, SblIds

LEMMA BootedIs ==
  ASSUME StampTypes
  PROVE  (Booted <=> at = 13) /\ (~Booted => at \in 1..12)
BY FlowLength DEF StampTypes, Booted

LEMMA FlowValues ==
  /\ Flow[1] = "S1_START" /\ Flow[2] = "export" /\ Flow[3] = "new stage"
  /\ Flow[4] = "DDRINIT_START" /\ Flow[5] = "export" /\ Flow[6] = "new stage"
  /\ Flow[7] = "S2_START" /\ Flow[8] = "S2_LOAD_START" /\ Flow[9] = "S2_LOAD_COMPLETE"
  /\ Flow[10] = "export" /\ Flow[11] = "new stage" /\ Flow[12] = "S3_START"
BY DEF Flow

LEMMA StageValues ==
  /\ Stages[1] = "S1_START" /\ Stages[2] = "DDRINIT_START" /\ Stages[3] = "S2_START"
  /\ Stages[4] = "S2_LOAD_START" /\ Stages[5] = "S2_LOAD_COMPLETE" /\ Stages[6] = "S3_START"
BY DEF Stages

LEMMA StagesDiffer == \A i, j \in 1..6 : Stages[i] = Stages[j] => i = j
BY StageValues

LEMMA FlowKinds ==
  \A k \in 1..12 : /\ Flow[k] \in SblIds <=> k \in {1, 4, 7, 8, 9, 12}
                   /\ Flow[k] = "export" <=> k \in {2, 5, 10}
                   /\ Flow[k] = "new stage" <=> k \in {3, 6, 11}
<1> SUFFICES ASSUME NEW k \in 1..12
             PROVE  /\ Flow[k] \in SblIds <=> k \in {1, 4, 7, 8, 9, 12}
                    /\ Flow[k] = "export" <=> k \in {2, 5, 10}
                    /\ Flow[k] = "new stage" <=> k \in {3, 6, 11}
  BY Zenon
<1>1. \/ k = 1 \/ k = 2 \/ k = 3 \/ k = 4 \/ k = 5 \/ k = 6
      \/ k = 7 \/ k = 8 \/ k = 9 \/ k = 10 \/ k = 11 \/ k = 12
  OBVIOUS
<1> QED
  BY <1>1, FlowValues DEF SblIds

LEMMA BeforeMarks ==
  ASSUME NEW k \in {1, 4, 7, 8, 9, 12}, NEW b, b = Before(k) + 1
  PROVE  /\ Before(k) \in 0..5 /\ Before(k + 1) = b /\ k + 1 \notin {3, 6, 11}
         /\ k = 1 => b = 1 
         /\ k = 4 => b = 2 
         /\ k = 7 => b = 3
         /\ k = 8 => b = 4 
         /\ k = 9 => b = 5 
         /\ k = 12 => b = 6
BY DEF Before

LEMMA BeforeHands ==
  ASSUME NEW k \in {2, 3, 5, 6, 10, 11}
  PROVE  /\ k + 1 \in 1..12 /\ k + 1 \in 1..13 /\ ~(k + 1 > 12)
         /\ Before(k) \in 0..5 /\ Before(k + 1) = Before(k)
BY DEF Before

LEMMA BeforeNew ==
  ASSUME NEW k \in {3, 6, 11}
  PROVE  k + 1 \notin {3, 6, 11} /\ k + 1 \in 1..12
OBVIOUS

LEMMA FlowMarks ==
  ASSUME NEW k \in 1..12, Flow[k] \in SblIds
  PROVE  /\ Before(k) \in 0..5 /\ Before(k + 1) = Before(k) + 1 /\ Flow[k] = Stages[Before(k) + 1]
         /\ k + 1 \in 1..12 => Flow[k + 1] # "new stage"
<1>1. k \in {1, 4, 7, 8, 9, 12}
  BY FlowKinds, Zenon
<1>2. PICK b : b = Before(k) + 1
  OBVIOUS
<1>3. /\ Before(k) \in 0..5 /\ Before(k + 1) = b /\ k + 1 \notin {3, 6, 11}
      /\ (k = 1 => b = 1) /\ (k = 4 => b = 2) /\ (k = 7 => b = 3)
      /\ (k = 8 => b = 4) /\ (k = 9 => b = 5) /\ (k = 12 => b = 6)
  BY <1>1, <1>2, BeforeMarks
<1>4. k + 1 \in 1..12 => Flow[k + 1] # "new stage"
  BY <1>3, FlowKinds, Zenon
<1>5. Flow[k] = Stages[b]
  <2>1. CASE k = 1
    BY <1>3, <2>1, FlowValues, StageValues, Zenon
  <2>2. CASE k = 4
    BY <1>3, <2>2, FlowValues, StageValues, Zenon
  <2>3. CASE k = 7
    BY <1>3, <2>3, FlowValues, StageValues, Zenon
  <2>4. CASE k = 8
    BY <1>3, <2>4, FlowValues, StageValues, Zenon
  <2>5. CASE k = 9
    BY <1>3, <2>5, FlowValues, StageValues, Zenon
  <2>6. CASE k = 12
    BY <1>3, <2>6, FlowValues, StageValues, Zenon
  <2> QED
    BY <1>1, <2>1, <2>2, <2>3, <2>4, <2>5, <2>6, Zenon
<1> QED
  BY <1>2, <1>3, <1>4, <1>5, Zenon

LEMMA FlowHands ==
  ASSUME NEW k \in 1..12, Flow[k] \in {"export", "new stage"}
  PROVE  /\ k + 1 \in 1..12 /\ k + 1 \in 1..13 /\ ~(k + 1 > 12) /\ Before(k) \in 0..5 /\ Before(k + 1) = Before(k)
         /\ Flow[k] = "new stage" => Flow[k + 1] # "new stage"
<1>1. k \in {2, 3, 5, 6, 10, 11}
  BY FlowKinds, Zenon
<1>2. k + 1 \in 1..12 /\ k + 1 \in 1..13 /\ ~(k + 1 > 12) /\ Before(k) \in 0..5 /\ Before(k + 1) = Before(k)
  BY <1>1, BeforeHands, Zenon
<1>3. Flow[k] = "new stage" => Flow[k + 1] # "new stage"
  BY FlowKinds, BeforeNew, Zenon
<1> QED
  BY <1>2, <1>3, Zenon

LEMMA FlowIs == \A k \in 1..12 : Flow[k] \in SblIds \cup {"export", "new stage"}
<1> SUFFICES ASSUME NEW k \in 1..12
             PROVE  Flow[k] \in SblIds \cup {"export", "new stage"}
  BY Zenon
<1>1. \/ k = 1 \/ k = 2 \/ k = 3 \/ k = 4 \/ k = 5 \/ k = 6
      \/ k = 7 \/ k = 8 \/ k = 9 \/ k = 10 \/ k = 11 \/ k = 12
  OBVIOUS
<1> QED
  BY <1>1, FlowValues DEF SblIds
-----------------------------------------------------------------------------
\* find_id finds the record of a stage, and only that one.
LEMMA NoRecord ==
  ASSUME NEW t \in Seq(Records), NEW id,
         \A i \in 1..Len(t) : t[i].id # id
  PROVE  FindId(t, id) = 0
BY Zenon DEF FindId

LEMMA TheRecord ==
  ASSUME NEW t \in Seq(Records), NEW k \in 1..Len(t),
         \A i, j \in 1..Len(t) : t[i].id = t[j].id => i = j
  PROVE  FindId(t, t[k].id) = k
<1> DEFINE I == {i \in 1..Len(t) : t[i].id = t[k].id}
<1>1. I = {k}
  BY Zenon
<1>2. FindId(t, t[k].id) = Min(I)
  BY <1>1, Zenon DEF FindId
<1>3. Min({k}) = k
  BY DEF Min
<1> QED
  BY <1>1, <1>2, <1>3, Zenon
-----------------------------------------------------------------------------
LEMMA InitStamp == StampInit => StampInv
<1> SUFFICES ASSUME StampInit
             PROVE  StampInv
  BY Zenon
<1>1. at = 1 /\ table = <<>> /\ clock = 0 /\ marked = [id \in Ids |-> Never]
  BY Zenon DEF StampInit
<1>2. StampTypes
  BY <1>1 DEF StampTypes
<1>3. Len(table) = 0
  BY <1>1
<1>4. ~Booted
  BY <1>1, FlowLength DEF Booted
<1>5. Flow[at] # "new stage" /\ Before(at) = 0
  BY <1>1, FlowValues, Zenon DEF Before
<1>6. Reached = {}
  BY <1>1, Zenon DEF Reached
<1>7. TableInv
  <2>1. 1..Len(table) = {} /\ Len(table) <= Count
    BY <1>3, BootstageAssumption
  <2>2. \A i \in 1..6 : ~(i <= Len(table))
    BY <1>3
  <2> QED
    BY <1>3, <1>4, <1>5, <2>1, <2>2, Zenon DEF TableInv
<1>8. MissingInv
  BY <1>6, Zenon DEF MissingInv
<1>9. HandedOn
  BY <1>5, Zenon DEF HandedOn
<1> QED
  BY <1>2, <1>7, <1>8, <1>9 DEF StampInv

\* A mark of a stage, by the boot or by a client: what bootstage_add_record keeps.
LEMMA MarkTable ==
  ASSUME StampInv, NEW i \in Ids, Mark(i),
         NEW n \in Nat, n = Len(table)
  PROVE  /\ table' \in Seq(Records) /\ marked' \in [Ids -> Nat \cup {Never}]
         /\ Len(table') <= Count
         /\ \A k \in 1..6 : k <= n => table'[k].id = Stages[k]
         /\ \A k, m \in 1..Len(table') : table'[k].id = table'[m].id => k = m
         /\ \A k \in 1..Len(table') : table'[k].time = marked'[table'[k].id]
         /\ MissingInv'
         /\ IF (\E k \in 1..n : table[k].id = i) \/ n = Count
            THEN table' = table
            ELSE Len(table') = n + 1 /\ table'[n + 1].id = i
<1> DEFINE time == IF i = "S1_START" THEN 0 ELSE clock
<1>t. time \in Nat /\ time # Never
  BY DEF StampInv, StampTypes, Never
<1>a. /\ table \in Seq(Records) /\ marked \in [Ids -> Nat \cup {Never}]
      /\ n <= Count /\ Count \in Nat
      /\ \A k \in 1..6 : k <= n => table[k].id = Stages[k]
      /\ \A k, m \in 1..n : table[k].id = table[m].id => k = m
      /\ \A k \in 1..n : table[k].time = marked[table[k].id]
      /\ n < Count => \A id \in Reached : \E k \in 1..n : table[k].id = id
  BY BootstageAssumption, Zenon DEF StampInv, StampTypes, TableInv, MissingInv
<1>c. table \in Seq(Records) /\ Len(table) = n /\ n \in Nat /\ n <= Count /\ Count \in Nat
  BY <1>a, Zenon
<1>d. \A k \in 1..6 : k <= n => table[k].id = Stages[k]
  BY <1>a, Zenon
<1>e. \A k, m \in 1..n : table[k].id = table[m].id => k = m
  BY <1>a, Zenon
<1>f. \A k \in 1..n : table[k].time = marked[table[k].id]
  BY <1>a, Zenon
<1>g. n < Count => \A id \in Reached : \E k \in 1..n : table[k].id = id
  BY <1>a, Zenon
<1>b. \A k \in 1..n : table[k].id \in Ids /\ table[k].time \in Nat
  <2>1. \A k \in 1..n : table[k] \in Records
    BY <1>c
  <2> QED
    BY <2>1, Zenon DEF Records
<1>m. table' = AddRecord(table, i, time)
      /\ marked' = IF marked[i] = Never THEN [marked EXCEPT ![i] = time] ELSE marked
  BY Zenon DEF Mark, Noted
<1>n. \A id \in Ids : id # i => marked'[id] = marked[id]
  BY <1>m, <1>a, Zenon
<1>p. marked' \in [Ids -> Nat \cup {Never}]
  BY <1>m, <1>a, <1>t, Zenon
<1> HIDE DEF time
<1>1. CASE \E k \in 1..n : table[k].id = i
  <2>1. PICK k \in 1..n : table[k].id = i
    BY <1>1, Zenon
  <2>2. FindId(table, i) = k
    BY <2>1, <1>a, TheRecord, Zenon
  <2>3. table' = table
    BY <2>2, <1>m DEF AddRecord
  <2>4. marked[i] # Never
    <3>1. marked[i] = table[k].time /\ table[k].time \in Nat
      BY <1>a, <1>b, <2>1, Zenon
    <3> QED
      BY <3>1 DEF Never
  <2>5. marked' = marked
    BY <2>4, <1>m, Zenon
  <2>6. MissingInv'
    BY <2>3, <2>5, Zenon DEF StampInv, MissingInv, Reached
  <2> QED
    BY <1>1, <1>a, <1>p, <2>3, <2>5, <2>6, Zenon
<1>2. CASE ~(\E k \in 1..n : table[k].id = i) /\ n = Count
  <2>3. table' = table
    <3>1. ~(Len(table) < Count)
      BY <1>2, <1>c
    <3> QED
      BY <3>1, <1>m, Zenon DEF AddRecord
  <2>4. \A k \in 1..n : table[k].id # i /\ table[k].id \in Ids
    BY <1>2, <1>b, Zenon
  <2>5. ~(Len(table') < Count) /\ Len(table') <= Count /\ Len(table') = n
    BY <2>3, <1>2, <1>c
  <2>6. MissingInv'
    BY <2>5, Zenon DEF MissingInv
  <2>7. \A k \in 1..n : table'[k].time = marked'[table'[k].id]
    BY <1>f, <1>n, <2>3, <2>4, Zenon
  <2> QED
    BY <1>2, <1>c, <1>d, <1>e, <1>p, <2>3, <2>5, <2>6, <2>7, Zenon
<1>3. CASE ~(\E k \in 1..n : table[k].id = i) /\ n # Count
  <2>1. FindId(table, i) = 0
    BY <1>3, <1>c, NoRecord, Zenon
  <2> DEFINE r == [id |-> i, time |-> time]
  <2>2. table' = Append(table, r)
    <3>1. Len(table) < Count
      BY <1>3, <1>c
    <3> QED
      BY <2>1, <3>1, <1>m, Zenon DEF AddRecord
  <2>3. r \in Records /\ r.id = i /\ r.time = time
    BY <1>t, Zenon DEF Records
  <2> HIDE DEF r
  <2>4. /\ Len(table') = n + 1 /\ table'[n + 1] = r /\ \A k \in 1..n : table'[k] = table[k]
        /\ table' \in Seq(Records)
    BY <2>2, <2>3, <1>c
  <2>5. marked[i] = Never
    <3>1. n < Count
      BY <1>3, <1>c
    <3>2. i \notin Reached
      BY <1>3, <1>g, <3>1, Zenon
    <3> QED
      BY <3>2, Zenon DEF Reached
  <2>6. marked'[i] = time
    BY <2>5, <1>m, <1>a, Zenon
  <2>7. \A k \in 1..n : table[k].id # i /\ table[k].id \in Ids
    BY <1>3, <1>b, Zenon
  <2>8. \A k \in 1..Len(table') : k \in 1..n \/ k = n + 1
    BY <2>4, <1>c
  <2>9. \A k, m \in 1..Len(table') : table'[k].id = table'[m].id => k = m
    BY <1>e, <2>3, <2>4, <2>7, <2>8, Zenon
  <2>10. \A k \in 1..Len(table') : table'[k].time = marked'[table'[k].id]
    <3>1. \A k \in 1..n : table'[k].time = marked'[table'[k].id]
      <4> SUFFICES ASSUME NEW k \in 1..n PROVE table'[k].time = marked'[table'[k].id]
        BY Zenon
      <4>1. table'[k] = table[k]
        BY <2>4, Zenon
      <4>2. marked'[table[k].id] = marked[table[k].id]
        BY <1>n, <2>7, Zenon
      <4>3. table[k].time = marked[table[k].id]
        BY <1>f, Zenon
      <4> QED
        BY <4>1, <4>2, <4>3, Zenon
    <3>2. table'[n + 1].time = marked'[table'[n + 1].id]
      BY <2>3, <2>4, <2>6, Zenon
    <3> QED
      BY <2>8, <3>1, <3>2, Zenon
  <2>11. MissingInv'
    <3> SUFFICES ASSUME NEW id \in Ids, marked'[id] # Never
                 PROVE  \E k \in 1..Len(table') : table'[k].id = id
      BY Zenon DEF MissingInv, Reached
    <3>1. CASE id = i
      BY <3>1, <2>3, <2>4
    <3>2. CASE id # i
      <4>1. id \in Reached
        BY <3>2, <1>n, Zenon DEF Reached
      <4>2. PICK k \in 1..n : table[k].id = id
        BY <4>1, <1>c, <1>g, <1>3
      <4> QED
        BY <4>2, <2>4
    <3> QED
      BY <3>1, <3>2, Zenon
  <2>12. \A k \in 1..6 : k <= n => table'[k].id = Stages[k]
    <3>1. \A k \in 1..6 : k <= n => k \in 1..n
      BY <1>c
    <3> QED
      BY <1>d, <2>4, <3>1, Zenon
  <2>13. Len(table') <= Count
    BY <1>3, <1>c, <2>4
  <2> QED
    BY <1>3, <1>p, <2>3, <2>4, <2>9, <2>10, <2>11, <2>12, <2>13, Zenon
<1> QED
  BY <1>1, <1>2, <1>3, Zenon
-----------------------------------------------------------------------------
LEMMA BootMarkKeeps == StampInv /\ BootMark => StampInv'
<1> SUFFICES ASSUME StampInv, BootMark
             PROVE  StampInv'
  BY Zenon
<1>1. at \in 1..12 /\ ~Booted /\ clock \in Nat /\ Flow[at] \in SblIds /\ Mark(Flow[at])
  BY BootedIs DEF BootMark, StampInv, StampTypes
<1>2. at' = at + 1 /\ clock' = clock
  BY DEF BootMark
<1>3. /\ Before(at) \in 0..5 /\ Before(at + 1) = Before(at) + 1 /\ Flow[at] = Stages[Before(at) + 1]
      /\ at + 1 \in 1..12 => Flow[at + 1] # "new stage"
  BY <1>1, FlowMarks, Zenon
<1> DEFINE n == Len(table)
<1>4. n = Before(at) /\ n \in 0..5
  BY <1>1, <1>3, Zenon DEF StampInv, TableInv
<1>5. Flow[at] \in Ids
  BY <1>1, Zenon DEF Ids
<1>6. n \in Nat /\ n # Count
  BY <1>4, BootstageAssumption
<1>s. \A k \in 1..n : table[k].id = Stages[k]
  <2>1. \A k \in 1..n : k \in 1..6 /\ k <= n
    BY <1>4
  <2> QED
    BY <2>1, Zenon DEF StampInv, TableInv
<1>7. \A k \in 1..n : table[k].id # Flow[at]
  <2> DEFINE b == Before(at) + 1
  <2>1. b \in 1..6 /\ \A k \in 1..n : k \in 1..6 /\ k # b
    BY <1>4
  <2>2. Flow[at] = Stages[b]
    BY <1>3, Zenon
  <2> HIDE DEF b
  <2> QED
    BY <1>s, <2>1, <2>2, StagesDiffer, Zenon
<1>8. /\ table' \in Seq(Records) /\ marked' \in [Ids -> Nat \cup {Never}]
      /\ Len(table') <= Count
      /\ \A k \in 1..6 : k <= n => table'[k].id = Stages[k]
      /\ \A k, m \in 1..Len(table') : table'[k].id = table'[m].id => k = m
      /\ \A k \in 1..Len(table') : table'[k].time = marked'[table'[k].id]
      /\ MissingInv'
      /\ IF (\E k \in 1..n : table[k].id = Flow[at]) \/ n = Count
         THEN table' = table
         ELSE Len(table') = n + 1 /\ table'[n + 1].id = Flow[at]
  BY <1>1, <1>5, <1>6, MarkTable, Zenon
<1>l. Len(table') = n + 1 /\ table'[n + 1].id = Flow[at]
  BY <1>6, <1>7, <1>8, Zenon
<1> HIDE DEF n
<1>9. \A k \in 1..6 : k <= Len(table') => table'[k].id = Stages[k]
  <2> SUFFICES ASSUME NEW k \in 1..6, k <= n + 1
               PROVE  table'[k].id = Stages[k]
    BY <1>l, Zenon
  <2>1. k <= n \/ k = n + 1
    BY <1>4
  <2> QED
    BY <2>1, <1>3, <1>4, <1>8, <1>l, Zenon
<1>10. at' \in 1..13 /\ (Booted' <=> at' = 13) /\ (~Booted' => at' \in 1..12)
  BY <1>1, <1>2, FlowLength DEF Booted
<1>11. StampTypes'
  BY <1>1, <1>2, <1>8, <1>10, Zenon DEF StampTypes
<1>12. (Booted' => Len(table') >= 6) /\ Len(table') = Before(at')
  <2>1. Before(at') = n + 1 /\ Len(table') = n + 1
    BY <1>2, <1>3, <1>4, <1>l, Zenon
  <2>2. at' = 13 => Before(at') = 6
    BY DEF Before
  <2> QED
    BY <2>1, <2>2, <1>10
<1>13. HandedOn'
  BY <1>2, <1>3, <1>10, Zenon DEF HandedOn
<1>14. TableInv'
  BY <1>8, <1>9, <1>12, Zenon DEF TableInv
<1> QED
  BY <1>8, <1>11, <1>13, <1>14, Zenon DEF StampInv

LEMMA IpcSetStageKeeps ==
  ASSUME StampInv, NEW i \in OsIds, IpcSetStage(i)
  PROVE  StampInv'
<1> DEFINE n == Len(table)
<1>1. Booted /\ Mark(i) /\ at' = at /\ clock' = clock /\ i \in Ids
  BY Zenon DEF IpcSetStage, Ids
<1>2. n \in Nat /\ n >= 6
  BY <1>1 DEF StampInv, StampTypes, TableInv
<1>3. /\ table' \in Seq(Records) /\ marked' \in [Ids -> Nat \cup {Never}]
      /\ Len(table') <= Count
      /\ \A k \in 1..6 : k <= n => table'[k].id = Stages[k]
      /\ \A k, m \in 1..Len(table') : table'[k].id = table'[m].id => k = m
      /\ \A k \in 1..Len(table') : table'[k].time = marked'[table'[k].id]
      /\ MissingInv'
      /\ table' = table \/ Len(table') = n + 1
  BY <1>1, <1>2, MarkTable, Zenon
<1>4. Len(table') >= 6
  BY <1>2, <1>3
<1>5. Booted'
  BY <1>1, Zenon DEF Booted
<1>6. StampTypes'
  BY <1>1, <1>3, Zenon DEF StampInv, StampTypes
<1>7. \A k \in 1..6 : k <= Len(table') => table'[k].id = Stages[k]
  <2>1. \A k \in 1..6 : k <= n
    BY <1>2
  <2> QED
    BY <2>1, <1>3, Zenon
<1>8. TableInv'
  BY <1>3, <1>4, <1>5, <1>7, Zenon DEF TableInv
<1>9. HandedOn'
  BY <1>5, Zenon DEF HandedOn
<1> QED
  BY <1>3, <1>6, <1>8, <1>9, Zenon DEF StampInv

LEMMA FewFit ==
  ASSUME NEW n \in 0..5, NEW f \in Int, f >= 5
  PROVE  n <= f /\ (IF n < f THEN n ELSE f) = n
OBVIOUS

\* bootstage_export finds room for what the boot loader has recorded.
LEMMA ExportFits ==
  ASSUME NEW t \in Seq(Records), NEW n \in 0..5, n = Len(t)
  PROVE  Exported(t) = [magic |-> TRUE, count |-> n, recs |-> t, size |-> HdrBytes + RecBytes * n]
<1> DEFINE fit == (AreaBytes - HdrBytes) \div RecBytes
<1>1. fit \in Int /\ fit >= 5
  BY BootstageAssumption DEF HdrBytes, RecBytes
<1> HIDE DEF fit
<1>2. n <= fit /\ (IF n < fit THEN n ELSE fit) = n
  BY <1>1, FewFit, Zenon
<1>3. SubSeq(t, 1, Len(t)) = t
  OBVIOUS
<1> QED
  BY <1>2, <1>3, Zenon DEF Exported, fit

LEMMA ImportTakes ==
  ASSUME NEW t \in Seq(Records), Len(t) \in 0..5, NEW a,
         a = [magic |-> TRUE, count |-> Len(t), recs |-> t, size |-> HdrBytes + RecBytes * Len(t)]
  PROVE  Imported(<<>>, a) = t
<1>1. a.magic /\ a.count = Len(t) /\ a.recs = t /\ a.size = 16 + 24 * Len(t)
  BY Zenon DEF HdrBytes, RecBytes
<1>2. Acceptable(<<>>, a)
  <2>1. a.size <= AreaBytes /\ a.count * RecBytes <= a.size
    BY <1>1, BootstageAssumption DEF HdrBytes, RecBytes
  <2>2. Len(<<>>) + a.count <= Count
    BY <1>1, BootstageAssumption
  <2> QED
    BY <1>1, <2>1, <2>2, Zenon DEF Acceptable
<1>3. SubSeq(t, 1, Len(t)) = t /\ <<>> \o t = t
  OBVIOUS
<1> QED
  BY <1>1, <1>2, <1>3, Zenon DEF Imported

\* The table and the marks stay, and the boot goes on: what is left is the hand-over.
LEMMA SameTable ==
  ASSUME StampInv, ~Booted, Flow[at] \in {"export", "new stage"},
         at' = at + 1, table' = table, clock' = clock, marked' = marked,
         Flow[at + 1] = "new stage" =>
           area' = [magic |-> TRUE, count |-> Len(table), recs |-> table,
                    size |-> HdrBytes + RecBytes * Len(table)]
  PROVE  StampInv'
<1>1. at \in 1..12
  BY BootedIs, Zenon DEF StampInv
<1>2. at + 1 \in 1..13 /\ ~(at + 1 > 12) /\ Before(at + 1) = Before(at)
  BY <1>1, FlowHands, Zenon
<1>3. ~Booted'
  BY <1>2, FlowLength, Zenon DEF Booted
<1>4. StampTypes'
  BY <1>2, Zenon DEF StampInv, StampTypes
<1>5. Len(table') = Before(at')
  BY <1>2, Zenon DEF StampInv, TableInv
<1>6. TableInv'
  BY <1>3, <1>5, Zenon DEF StampInv, TableInv
<1>7. MissingInv'
  BY Zenon DEF StampInv, MissingInv, Reached
<1>8. HandedOn'
  BY Zenon DEF HandedOn
<1> QED
  BY <1>4, <1>6, <1>7, <1>8, Zenon DEF StampInv

LEMMA FewRecords ==
  ASSUME StampInv, ~Booted, Flow[at] \in {"export", "new stage"}
  PROVE  table \in Seq(Records) /\ Len(table) \in 0..5
<1>1. at \in 1..12
  BY BootedIs, Zenon DEF StampInv
<1>2. Before(at) \in 0..5
  BY <1>1, FlowHands, Zenon
<1> QED
  BY <1>2, Zenon DEF StampInv, StampTypes, TableInv

LEMMA ExportKeeps == StampInv /\ Export => StampInv'
<1> SUFFICES ASSUME StampInv, Export
             PROVE  StampInv'
  BY Zenon
<1>1. /\ ~Booted /\ Flow[at] \in {"export", "new stage"}
      /\ at' = at + 1 /\ table' = table /\ clock' = clock /\ marked' = marked
      /\ area' = Exported(table)
  BY Zenon DEF Export
<1>2. table \in Seq(Records) /\ Len(table) \in 0..5
  BY <1>1, FewRecords, Zenon
<1> QED
  BY <1>1, <1>2, ExportFits, SameTable, Zenon

LEMMA ImportKeeps == StampInv /\ Import => StampInv'
<1> SUFFICES ASSUME StampInv, Import
             PROVE  StampInv'
  BY Zenon
<1>1. /\ ~Booted /\ Flow[at] = "new stage" /\ Flow[at] \in {"export", "new stage"}
      /\ at' = at + 1 /\ clock' = clock /\ marked' = marked
      /\ table' = Imported(<<>>, area)
  BY Zenon DEF Import
<1>2. table \in Seq(Records) /\ Len(table) \in 0..5
  BY <1>1, FewRecords, Zenon
<1>3. table' = table
  BY <1>1, <1>2, ImportTakes, Zenon DEF StampInv, HandedOn
<1>4. Flow[at + 1] # "new stage"
  BY <1>1, BootedIs, FlowHands, Zenon DEF StampInv
<1> QED
  BY <1>1, <1>3, <1>4, SameTable, Zenon

LEMMA ClockTickKeeps == StampInv /\ ClockTick => StampInv'
<1> SUFFICES ASSUME StampInv, ClockTick
             PROVE  StampInv'
  BY Zenon
<1>1. clock' = clock + 1 /\ at' = at /\ table' = table /\ area' = area /\ marked' = marked
  BY Zenon DEF ClockTick
<1>2. StampTypes'
  BY <1>1 DEF StampInv, StampTypes
<1>3. Booted' <=> Booted
  BY <1>1, Zenon DEF Booted
<1>4. TableInv' /\ MissingInv' /\ HandedOn'
  BY <1>1, <1>3, Zenon DEF StampInv, TableInv, MissingInv, Reached, HandedOn
<1> QED
  BY <1>2, <1>4, Zenon DEF StampInv

LEMMA ResetKeeps == StampInv /\ Reset => StampInv'
<1> SUFFICES ASSUME Reset
             PROVE  StampInv'
  BY Zenon
<1>1. at' = 1 /\ table' = <<>> /\ clock' = 0 /\ marked' = [id \in Ids |-> Never]
  BY Zenon DEF Reset
<1>2. StampTypes'
  BY <1>1 DEF StampTypes
<1>3. Len(table') = 0
  BY <1>1
<1>4. ~Booted'
  BY <1>1, FlowLength DEF Booted
<1>5. Flow[at'] # "new stage" /\ Before(at') = 0
  BY <1>1, FlowValues, Zenon DEF Before
<1>6. Reached' = {}
  BY <1>1, Zenon DEF Reached
<1>7. TableInv'
  <2>1. 1..Len(table') = {} /\ Len(table') <= Count
    BY <1>3, BootstageAssumption
  <2>2. \A i \in 1..6 : ~(i <= Len(table'))
    BY <1>3
  <2> QED
    BY <1>3, <1>4, <1>5, <2>1, <2>2, Zenon DEF TableInv
<1>8. MissingInv'
  BY <1>6, Zenon DEF MissingInv
<1>9. HandedOn'
  BY <1>5, Zenon DEF HandedOn
<1> QED
  BY <1>2, <1>7, <1>8, <1>9, Zenon DEF StampInv

\* In every state of every boot the table has the stages of the boot loader in front,
\* no stage twice and every stage with the time it was reached first, and each
\* program of the boot finds the table of the one before it.
THEOREM StampInvariant == StampSpec => []StampInv
<1>1. StampInit => StampInv
  BY InitStamp, Zenon
<1>2. StampInv /\ [StampNext]_stampVars => StampInv'
  <2> SUFFICES ASSUME StampInv, [StampNext]_stampVars
               PROVE  StampInv'
    BY Zenon
  <2>1. CASE BootMark
    BY <2>1, BootMarkKeeps
  <2>2. CASE Export
    BY <2>2, ExportKeeps, Zenon
  <2>3. CASE Import
    BY <2>3, ImportKeeps, Zenon
  <2>4. CASE ClockTick
    BY <2>4, ClockTickKeeps, Zenon
  <2>5. CASE Reset
    BY <2>5, ResetKeeps, Zenon
  <2>6. CASE \E id \in OsIds : IpcSetStage(id)
    BY <2>6, IpcSetStageKeeps, Zenon
  <2>7. CASE UNCHANGED stampVars
    <3>1. at' = at /\ table' = table /\ area' = area /\ clock' = clock /\ marked' = marked
      BY <2>7, Zenon DEF stampVars
    <3>2. StampTypes' /\ (Booted' <=> Booted)
      BY <3>1, Zenon DEF StampInv, StampTypes, Booted
    <3> QED
      BY <3>1, <3>2, Zenon DEF StampInv, TableInv, MissingInv, Reached, HandedOn
  <2> QED
    BY <2>1, <2>2, <2>3, <2>4, <2>5, <2>6, <2>7, Zenon DEF StampNext
<1> QED
  BY <1>1, <1>2, PTL DEF StampSpec
-----------------------------------------------------------------------------
LEMMA RecordedTime ==
  ASSUME StampInv, NEW k \in 1..Len(table)
  PROVE  GetTimestamp(table[k].id) = marked[table[k].id]
<1>1. FindId(table, table[k].id) = k
  BY TheRecord, Zenon DEF StampInv, StampTypes, TableInv
<1>2. Len(table) \in Nat
  BY DEF StampInv, StampTypes
<1>3. k # 0
  BY <1>2
<1> QED
  BY <1>1, <1>3, Zenon DEF GetTimestamp, StampInv, TableInv

\* Once SBL-S3 runs, the service reports for every stage of the boot loader when it was
\* reached first in this boot, whatever the clients mark.
THEOREM SblStagesKeptInvariant == StampSpec => []SblStagesKept
<1>1. StampInv => SblStagesKept
  <2> SUFFICES ASSUME StampInv, Booted, NEW id \in SblIds
               PROVE  GetTimestamp(id) = marked[id]
    BY Zenon DEF SblStagesKept
  <2>1. PICK k \in 1..6 : Stages[k] = id
    BY FlowLength, Zenon
  <2>2. Len(table) \in Nat /\ Len(table) >= 6
    BY DEF StampInv, StampTypes, TableInv
  <2>3. k \in 1..Len(table) /\ k <= Len(table)
    BY <2>2
  <2>4. table[k].id = id
    BY <2>1, <2>3, Zenon DEF StampInv, TableInv
  <2> QED
    BY <2>3, <2>4, RecordedTime, Zenon
<1> QED
  BY <1>1, StampInvariant, PTL

LEMMA IdsFinite == IsFiniteSet(Ids)
<1>1. Stages \in Surjection(1..6, SblIds)
  BY FlowLength DEF Surjection, Stages, SblIds
<1>2. IsFiniteSet(1..6)
  <2>1. 1 \in Int /\ 6 \in Int
    OBVIOUS
  <2> QED
    BY <2>1, FS_Interval, Zenon
<1>3. IsFiniteSet(SblIds)
  BY <1>1, <1>2, FS_Surjection, Zenon
<1> QED
  BY <1>3, FS_Union, BootstageAssumption, Zenon DEF Ids

\* When no more stages were reached than there are records, all of them are recorded.
LEMMA AllRecorded ==
  ASSUME StampInv, Cardinality(Reached) <= Count, NEW id \in Reached
  PROVE  \E k \in 1..Len(table) : table[k].id = id
<1> DEFINE n == Len(table)
<1>1. n \in Nat /\ n <= Count /\ Count \in Nat
  BY BootstageAssumption DEF StampInv, StampTypes, TableInv
<1>2. CASE n < Count
  BY <1>2, Zenon DEF StampInv, MissingInv
<1>3. CASE n = Count
  <2> DEFINE f == [k \in 1..n |-> table[k].id]
  <2>1. \A k \in 1..n : table[k].id \in Reached
    <3> SUFFICES ASSUME NEW k \in 1..n
                 PROVE  table[k].id \in Reached
      BY Zenon
    <3>1. table[k] \in Records
      BY DEF StampInv, StampTypes
    <3>2. table[k].id \in Ids /\ table[k].time \in Nat
      BY <3>1, Zenon DEF Records
    <3>3. table[k].time = marked[table[k].id]
      BY Zenon DEF StampInv, TableInv
    <3>4. marked[table[k].id] # Never
      BY <3>2, <3>3 DEF Never
    <3> QED
      BY <3>2, <3>4, Zenon DEF Reached
  <2>2. \A k, m \in 1..n : table[k].id = table[m].id => k = m
    BY Zenon DEF StampInv, TableInv
  <2>3. f \in Injection(1..n, Reached)
    BY <2>1, <2>2, Zenon DEF Injection, IsInjective
  <2>4. IsFiniteSet(Reached) /\ Cardinality(Reached) \in Nat
    <3>1. Reached \in SUBSET Ids
      BY Zenon DEF Reached
    <3> QED
      BY <3>1, IdsFinite, FS_Subset, FS_CardinalityType, Zenon
  <2>5. Cardinality(1..n) = n
    <3>1. Cardinality(1..n) = IF 1 > n THEN 0 ELSE n - 1 + 1
      <4>1. 1 \in Int /\ n \in Int
        BY <1>1
      <4> QED
        BY <4>1, FS_Interval, Zenon
    <3> QED
      BY <3>1, <1>1
  <2>6. Cardinality(1..n) <= Cardinality(Reached)
        /\ (Cardinality(1..n) = Cardinality(Reached) => f \in Surjection(1..n, Reached))
    BY <2>3, <2>4, FS_Injection, Zenon
  <2>7. f \in Surjection(1..n, Reached)
    BY <1>1, <1>3, <2>4, <2>5, <2>6
  <2>8. PICK k \in 1..n : f[k] = id
    BY <2>7, Zenon DEF Surjection
  <2> QED
    BY <2>8, Zenon
<1> QED
  BY <1>1, <1>2, <1>3

\* Once SBL-S3 runs, the service reports for every stage when it was reached first in
\* this boot, and for no stage of an earlier boot, as long as no more stages were
\* reached than the table has records.
THEOREM ReportsFirstMarkInvariant == StampSpec => []ReportsFirstMark
<1>1. StampInv => ReportsFirstMark
  <2> SUFFICES ASSUME StampInv, Cardinality(Reached) <= Count, NEW id \in Ids
               PROVE  GetTimestamp(id) = marked[id]
    BY Zenon DEF ReportsFirstMark
  <2>1. CASE id \in Reached
    <3>1. PICK k \in 1..Len(table) : table[k].id = id
      BY <2>1, AllRecorded, Zenon
    <3> QED
      BY <3>1, RecordedTime, Zenon
  <2>2. CASE id \notin Reached
    <3>1. marked[id] = Never
      BY <2>2, Zenon DEF Reached
    <3>2. \A k \in 1..Len(table) : table[k].id # id
      <4> SUFFICES ASSUME NEW k \in 1..Len(table), table[k].id = id
                   PROVE  FALSE
        BY Zenon
      <4>1. table[k] \in Records
        BY DEF StampInv, StampTypes
      <4>2. table[k].time \in Nat
        BY <4>1, Zenon DEF Records
      <4>3. table[k].time = Never
        BY <3>1, Zenon DEF StampInv, TableInv
      <4> QED
        BY <4>2, <4>3 DEF Never
    <3>3. FindId(table, id) = 0
      BY <3>2, NoRecord, Zenon DEF StampInv, StampTypes
    <3> QED
      BY <3>1, <3>3, Zenon DEF GetTimestamp
  <2> QED
    BY <2>1, <2>2, Zenon
<1> QED
  BY <1>1, StampInvariant, PTL
=============================================================================
