----------------------------- MODULE SpiNorProofs -----------------------------
(***************************************************************************)
(* Proofs about SpiNor for every table of chips, every chip on the board   *)
(* and every set of environments that meet ChipAssumption and              *)
(* RegionAssumption.                                                       *)
(***************************************************************************)
EXTENDS SpiNor, TLAPS

(***************************************************************************)
(* The inductive invariant speaks of the chip on the board where the       *)
(* driver speaks of the entry of the table it has found for it: before     *)
(* spi_nor_init there is none, and what is stored is there all the same.   *)
(***************************************************************************)
Byte == {0, Erased}

Home(r) == IF r.off < 0 THEN part.size + r.off ELSE r.off
HomeSpan(r) == Home(r)..(Home(r) + r.size - 1)
HomeSectors(r) == UNION {DOMAIN EraseBytes(Decoded(a)) : a \in HomeSpan(r)}
Inside(r) == Home(r) >= 0 /\ Home(r) + r.size <= part.size
Count(r) == (r.size + part.sector - 1) \div part.sector

\* Bytes of the page that are written next.
PageRest == part.page - (addr % part.page)
Piece == IF PageRest <= left THEN PageRest ELSE left

Busy == {"wren", "command", "wait", "wrdi", "verify"}

TypeInv ==
  /\ part \in Fitted /\ mem \in [0..(part.size - 1) -> Byte]
  /\ nor # 0 => nor = Lookup(part)
  /\ pc \in {"start", "identify", "settle", "ready", "panic"} \cup Busy
  /\ pc \in {"settle", "ready"} \cup Busy => nor # 0
  /\ DOMAIN stored = Regions /\ stored = [r \in Regions |-> stored[r]]

\* The call that is served.
CallInv ==
  /\ pc \notin Busy => call = NoCall
  /\ pc \in Busy =>
       /\ call.kind \in {"write", "clear", "chip"}
       /\ call.kind # "chip" =>
            call.region \in Regions /\ stored[call.region] = None
       /\ call.kind = "write" =>
            Inside(call.region) /\ call.data \in [1..call.region.size -> Byte]
       /\ call.kind = "chip" => \A r \in Regions : stored[r] = None

\* How far it has come.
PlaceInv ==
  pc \in Busy =>
    /\ addr \in Nat /\ left \in Nat /\ (pc = "verify" <=> left = 0)
    /\ call.kind = "write" =>
         Home(call.region) <= addr /\ addr + left = Home(call.region) + call.region.size
    /\ call.kind = "clear" =>
         /\ Home(call.region) <= addr
         /\ addr % part.sector = Home(call.region) % part.sector
         /\ addr + left * part.sector = Home(call.region) + Count(call.region) * part.sector
    /\ call.kind = "chip" => left <= 1

\* What the command for the present page or sector makes the chip do.
Ordered ==
  IF call.kind = "write"
  THEN [kind |-> "program",
        bytes |-> [b \in addr..(addr + Piece - 1) |-> call.data[b - Home(call.region) + 1]]]
  ELSE [kind |-> "erase", bytes |-> IF call.kind = "clear" THEN EraseBytes(Decoded(addr)) ELSE BulkBytes]

JobInv ==
  /\ job # NoJob => pc \in {"start", "identify", "settle", "panic", "wait"}
  /\ job # NoJob => /\ job.kind \in {"program", "erase"} /\ DOMAIN job.bytes \subseteq DOMAIN mem
                    /\ \A b \in DOMAIN job.bytes :
                         job.bytes[b] \in IF job.kind = "erase" THEN {Erased} ELSE Byte
  /\ job # NoJob /\ pc # "wait" => ret = "none"
  /\ pc = "command" => wel
  /\ pc = "wait" /\ job # NoJob => job = Ordered

\* The bytes the chip is done with.
Ended == pc \in {"wrdi"} \/ (pc = "wait" /\ job = NoJob)

DoneInv ==
  pc \in Busy =>
    /\ call.kind = "write" =>
         \A a \in HomeSpan(call.region) :
           a < addr \/ (Ended /\ a < addr + Piece) => mem[a] <= call.data[a - Home(call.region) + 1]
    /\ call.kind = "clear" =>
         \A a \in HomeSpan(call.region) :
           a < SectorOf(addr) \/ (Ended /\ a < SectorOf(addr) + part.sector)
             => \A b \in DOMAIN EraseBytes(Decoded(a)) : mem[b] = Erased
    /\ call.kind = "chip" /\ (Ended \/ pc = "verify") => \A a \in DOMAIN mem : mem[a] = Erased

\* What is stored is there, and the chip is not at work on it.
HomesApart == \A r, q \in Regions : r = q \/ HomeSectors(r) \cap HomeSectors(q) = {}

KeptInv ==
  HomesApart =>
    \A r \in Regions : stored[r] # None =>
      /\ Inside(r) /\ stored[r] = [i \in 1..r.size |-> mem[Home(r) + i - 1]]
      /\ job # NoJob => DOMAIN job.bytes \cap HomeSpan(r) = {}

NorInv == TypeInv /\ CallInv /\ PlaceInv /\ JobInv /\ DoneInv /\ KeptInv
-----------------------------------------------------------------------------
(***************************************************************************)
(* Arithmetic, and the operators of the model.                             *)
(***************************************************************************)
LEMMA ModRange ==
  ASSUME NEW a \in Int, NEW p \in Nat \ {0}
  PROVE  a % p \in 0..(p - 1) /\ a \div p \in Int /\ a = p * (a \div p) + (a % p)
OBVIOUS

LEMMA SpanIndex ==
  ASSUME NEW h \in Nat, NEW z \in Nat
  PROVE  /\ \A a \in h..(h + z - 1) : a - h + 1 \in 1..z /\ h + (a - h + 1) - 1 = a
         /\ \A i \in 1..z : h + i - 1 \in h..(h + z - 1) /\ (h + i - 1) - h + 1 = i
OBVIOUS

LEMMA ModUnique ==
  ASSUME NEW q \in Int, NEW t \in Int, NEW p \in Nat \ {0},
         NEW r \in 0..(p - 1), NEW s \in 0..(p - 1), p * q + r = p * t + s
  PROVE  q = t /\ r = s
OBVIOUS

LEMMA ModWithin ==
  ASSUME NEW a \in Int, NEW p \in Nat \ {0}, NEW i \in Nat, (a % p) + i < p
  PROVE  (a + i) % p = (a % p) + i
OBVIOUS

LEMMA ModSmall ==
  ASSUME NEW a \in Nat, NEW p \in Nat \ {0}, a < p
  PROVE  a % p = a
OBVIOUS

LEMMA ModNext ==
  ASSUME NEW a \in Int, NEW p \in Nat \ {0}
  PROVE  (a + p) % p = a % p
<1>1. /\ a = p * (a \div p) + (a % p) /\ a + p = p * ((a + p) \div p) + ((a + p) % p)
      /\ a \div p \in Int /\ (a + p) \div p \in Int /\ a % p \in 0..(p - 1) /\ (a + p) % p \in 0..(p - 1)
  <2>1. a + p \in Int
    OBVIOUS
  <2> QED
    BY <2>1, ModRange, Zenon
<1>2. p * ((a \div p) + 1) = p * (a \div p) + p
  BY <1>1
<1>3. p * ((a + p) \div p) + ((a + p) % p) = p * ((a \div p) + 1) + (a % p)
  BY <1>1, <1>2
<1>4. (a \div p) + 1 \in Int
  BY <1>1
<1> DEFINE q == (a + p) \div p
           t == (a \div p) + 1
           r == (a + p) % p
           s == a % p
<1>5. q \in Int /\ t \in Int /\ r \in 0..(p - 1) /\ s \in 0..(p - 1) /\ p * q + r = p * t + s
  BY <1>1, <1>3, <1>4
<1> HIDE DEF q, t, r, s
<1>6. r = s
  BY <1>5, ModUnique
<1> QED
  BY <1>6 DEF r, s

LEMMA RoundUp ==
  ASSUME NEW a \in Nat \ {0}, NEW p \in Nat \ {0}, NEW n, n = (a + p - 1) \div p
  PROVE  n \in Nat /\ n > 0 /\ (n - 1) * p < a /\ a <= n * p
OBVIOUS

\* The sector of an address of the chip is inside the chip.
LEMMA SectorFits ==
  ASSUME NEW p \in Nat \ {0}, NEW n \in Nat \ {0}, n % p = 0, NEW a \in 0..(n - 1)
  PROVE  a - (a % p) >= 0 /\ a - (a % p) + p <= n
<1>1. /\ a = p * (a \div p) + (a % p) /\ a \div p \in Int /\ a % p \in 0..(p - 1)
      /\ n = p * (n \div p) /\ n \div p \in Int
  BY ModRange
<1>2. a - (a % p) >= 0
  BY <1>1
<1>3. a \div p < n \div p
  BY <1>1
<1>4. (a \div p) + 1 <= n \div p
  BY <1>1, <1>3
<1>5. p * ((a \div p) + 1) <= p * (n \div p)
  BY <1>1, <1>4
<1>6. p * ((a \div p) + 1) = p * (a \div p) + p
  BY <1>1
<1> QED
  BY <1>1, <1>2, <1>5, <1>6

LEMMA ModOfMod ==
  ASSUME NEW a \in Nat, NEW n \in Nat \ {0}, NEW p \in Nat \ {0}, n % p = 0
  PROVE  (a % n) % p = a % p
<1> DEFINE u == a % n
           q == a \div n
           k == n \div p
           j == u \div p
           v == u % p
<1>1. /\ u \in 0..(n - 1) /\ q \in Int /\ a = n * q + u
      /\ k \in Int /\ n = p * k + 0
      /\ a % p \in 0..(p - 1) /\ a \div p \in Int /\ a = p * (a \div p) + (a % p)
  <2>1. a \in Int /\ n \in Int
    OBVIOUS
  <2> QED
    BY <2>1, ModRange, Zenon
<1>2. v \in 0..(p - 1) /\ j \in Int /\ u = p * j + v
  <2>1. u \in Int
    BY <1>1
  <2> QED
    BY <2>1, ModRange, Zenon
<1> HIDE DEF u, q, k, j, v
<1>3. n = p * k /\ k * q \in Int /\ k * q + j \in Int
  BY <1>1, <1>2
<1>4. n * q = p * (k * q) /\ p * (k * q + j) = p * (k * q) + p * j
  BY <1>1, <1>2, <1>3
<1>5. p * (a \div p) + (a % p) = p * (k * q + j) + v
  BY <1>1, <1>2, <1>4
<1>6. a % p = v
  <2> DEFINE t == a \div p
             w == k * q + j
             x == a % p
  <2>1. t \in Int /\ w \in Int /\ x \in 0..(p - 1) /\ p * t + x = p * w + v
    BY <1>1, <1>3, <1>5, Zenon
  <2> HIDE DEF t, w, x
  <2>2. x = v
    BY <1>2, <2>1, ModUnique
  <2> QED
    BY <2>2 DEF x
<1> QED
  BY <1>6 DEF v, u

\* The addresses of a sector.
LEMMA SameSector ==
  ASSUME NEW a \in Nat, NEW x \in Nat, part.sector \in Nat \ {0},
         SectorOf(a) <= x, x < SectorOf(a) + part.sector
  PROVE  SectorOf(x) = SectorOf(a)
<1> DEFINE p == part.sector
           q == a \div p
           t == x \div p
           v == x % p
           m == SectorOf(a)
<1>1. /\ a % p \in 0..(p - 1) /\ q \in Int /\ a = p * q + (a % p)
      /\ v \in 0..(p - 1) /\ t \in Int /\ x = p * t + v
  <2>1. a \in Int /\ x \in Int
    OBVIOUS
  <2> QED
    BY <2>1, ModRange, Zenon
<1>2. m = p * q /\ m \in Int /\ p \in Nat \ {0}
  BY <1>1 DEF SectorOf
<1> HIDE DEF m, p, q, t, v
<1>3. m <= x /\ x < m + p
  BY DEF m, p
<1>4. x - m \in 0..(p - 1) /\ p * t + v = p * q + (x - m)
  BY <1>1, <1>2, <1>3
<1>5. v = x - m
  BY <1>1, <1>2, <1>4, ModUnique
<1>6. SectorOf(x) = x - v
  BY DEF SectorOf, v, p
<1>7. x - (x - m) = m
  BY <1>2
<1> QED
  BY <1>5, <1>6, <1>7 DEF m

LEMMA WholePart ==
  ASSUME NEW p \in Nat \ {0}, NEW q \in Int, NEW u \in 0..(p - 1), NEW a \in Nat, a = p * q + u
  PROVE  a - u = p * q /\ a - u \in Nat /\ (a - u) + u = a /\ u \in Nat
<1>1. p * q \in Int /\ u \in Nat /\ u < p
  OBVIOUS
<1>2. q >= 0
  <2> SUFFICES ASSUME q <= -1 PROVE FALSE
    OBVIOUS
  <2>1. p * q <= -p
    OBVIOUS
  <2> QED
    BY <1>1, <2>1
<1>3. p * q >= 0
  BY <1>2
<1> QED
  BY <1>1, <1>3

LEMMA MultipleMod ==
  ASSUME NEW p \in Nat \ {0}, NEW q \in Int, NEW m, m = p * q
  PROVE  m \in Int /\ m % p = 0
OBVIOUS

\* A chip finds the sector of an address where it finds its first byte.
LEMMA SectorDecoded ==
  ASSUME NEW a \in Nat, part.size \in Nat \ {0}, part.sector \in Nat \ {0},
         part.size % part.sector = 0
  PROVE  SectorOf(Decoded(a)) = SectorOf(a) % part.size
<1> DEFINE p == part.sector
           n == part.size
           u == a % p
           q == a \div p
           m == a - u
           w == m % n
<1>1. u \in 0..(p - 1) /\ q \in Int /\ a = p * q + u
  <2>1. a \in Int
    OBVIOUS
  <2> QED
    BY <2>1, ModRange, Zenon
<1>2. p \in Nat \ {0} /\ n \in Nat \ {0} /\ n % p = 0
  OBVIOUS
<1> HIDE DEF p, n, u, q
<1>3. m = p * q /\ m \in Nat /\ m + u = a /\ u \in Nat
  BY <1>1, <1>2, WholePart
<1>4. m \in Int /\ m % p = 0
  BY <1>1, <1>2, <1>3, MultipleMod
<1> HIDE DEF m
<1>5. w \in 0..(n - 1) /\ w % p = 0
  <2>1. w \in 0..(n - 1)
    BY <1>2, <1>4, ModRange, Zenon
  <2>2. w % p = m % p
    <3>1. \A b \in Nat : (b % n) % p = b % p
      BY <1>2, ModOfMod, Zenon
    <3> QED
      BY <1>3, <3>1, Zenon
  <2> QED
    BY <1>4, <2>1, <2>2, Zenon
<1> HIDE DEF w
<1>6. w + p <= n
  <2>1. w - (w % p) + p <= n
    BY <1>2, <1>5, SectorFits, Zenon
  <2> QED
    BY <1>2, <1>5, <2>1
<1>7. a % n = w + u
  <2>1. u \in Nat /\ w + u < n
    BY <1>1, <1>2, <1>3, <1>5, <1>6
  <2>2. (m % n) + u < n
    BY <2>1 DEF w
  <2>3. (m + u) % n = (m % n) + u
    BY <1>2, <1>4, <2>1, <2>2, ModWithin, Zenon
  <2> QED
    BY <1>3, <2>3 DEF w
<1>8. (a % n) % p = u
  BY <1>2, ModOfMod, Zenon DEF u
<1>9. SectorOf(Decoded(a)) = (a % n) - ((a % n) % p) /\ SectorOf(a) = m
  BY Zenon DEF SectorOf, Decoded, n, p, m, u
<1>10. (w + u) - u = w
  BY <1>3, <1>5, <1>2
<1> QED
  BY <1>7, <1>8, <1>9, <1>10, Zenon DEF w, n

LEMMA MinOfTwo ==
  ASSUME NEW a \in Int, NEW b \in Int
  PROVE  Min({a, b}) = IF a <= b THEN a ELSE b
<1> DEFINE m == IF a <= b THEN a ELSE b
<1>1. m \in {a, b} /\ \A y \in {a, b} : m <= y
  OBVIOUS
<1>2. \A x \in {a, b} : (\A y \in {a, b} : x <= y) => x = m
  OBVIOUS
<1> QED
  BY <1>1, <1>2 DEF Min

LEMMA MaxOfOne ==
  ASSUME NEW a \in Int
  PROVE  Max({a}) = a
<1>1. a \in {a} /\ \A y \in {a} : a >= y
  OBVIOUS
<1> QED
  BY <1>1 DEF Max

\* A program command that stays in its page writes its data one after the other.
LEMMA ProgramStraight ==
  ASSUME NEW a \in Nat, part.page \in Nat \ {0}, NEW n \in Nat, NEW d, Len(d) = n,
         (a % part.page) + n <= part.page
  PROVE  ProgramBytes(a, d) = [b \in a..(a + n - 1) |-> d[b - a + 1]]
<1> DEFINE p == part.page
<1>1. a % p \in 0..(p - 1) /\ PageOf(a) = a - (a % p)
  <2>1. a \in Int
    OBVIOUS
  <2> QED
    BY <2>1, ModRange, Zenon DEF PageOf
<1>2. ASSUME NEW i \in 0..(n - 1) PROVE PageOf(a) + ((a + i) % p) = a + i
  <2>1. (a + i) % p = (a % p) + i
    <3>1. i \in Nat /\ (a % p) + i < p
      BY <1>1
    <3> QED
      BY <3>1, ModWithin
  <2> QED
    BY <1>1, <2>1
<1>3. {PageOf(a) + ((a + i) % p) : i \in 0..(n - 1)} = a..(a + n - 1)
  <2>1. ASSUME NEW b \in a..(a + n - 1) PROVE \E i \in 0..(n - 1) : b = PageOf(a) + ((a + i) % p)
    <3>1. b - a \in 0..(n - 1) /\ a + (b - a) = b
      OBVIOUS
    <3> QED
      BY <1>2, <3>1, Zenon
  <2>2. ASSUME NEW i \in 0..(n - 1) PROVE PageOf(a) + ((a + i) % p) \in a..(a + n - 1)
    BY <1>2
  <2>3. {PageOf(a) + ((a + i) % p) : i \in 0..(n - 1)} \subseteq a..(a + n - 1)
    BY <2>2, Zenon
  <2>4. a..(a + n - 1) \subseteq {PageOf(a) + ((a + i) % p) : i \in 0..(n - 1)}
    BY <2>1, Zenon
  <2> QED
    BY <2>3, <2>4, Zenon
<1>4. ASSUME NEW b \in a..(a + n - 1)
      PROVE  Max({i \in 1..n : PageOf(a) + ((a + i - 1) % p) = b}) = b - a + 1
  <2>1. \A i \in 1..n : PageOf(a) + ((a + i - 1) % p) = a + i - 1
    <3> SUFFICES ASSUME NEW i \in 1..n PROVE PageOf(a) + ((a + i - 1) % p) = a + i - 1
      BY Zenon
    <3>1. i - 1 \in 0..(n - 1) /\ a + i - 1 = a + (i - 1)
      OBVIOUS
    <3> QED
      BY <1>2, <3>1, Zenon
  <2>2. {i \in 1..n : PageOf(a) + ((a + i - 1) % p) = b} = {b - a + 1}
    <3>1. b - a + 1 \in 1..n /\ a + (b - a + 1) - 1 = b
      OBVIOUS
    <3>2. \A i \in 1..n : a + i - 1 = b => i = b - a + 1
      OBVIOUS
    <3> QED
      BY <2>1, <3>1, <3>2, Zenon
  <2>3. b - a + 1 \in Int
    OBVIOUS
  <2> QED
    BY <2>2, <2>3, MaxOfOne
<1> QED
  BY <1>3, <1>4, Zenon DEF ProgramBytes

LEMMA FlashIsPart ==
  ASSUME TypeInv, nor # 0
  PROVE  /\ part \in Known /\ nor = Lookup(part)
         /\ Flash.size = part.size /\ Flash.page = part.page /\ Flash.sector = part.sector
         /\ part.size \in Nat \ {0} /\ part.page \in Nat \ {0} /\ part.sector \in Nat \ {0}
         /\ part.size % part.sector = 0 /\ (part.size <= Low => Low % part.size = 0)
<1>1. part \in Known /\ nor = Lookup(part)
  BY DEF TypeInv, Known
<1>2. part \in Fitted
  BY DEF TypeInv
<1> QED
  BY <1>1, <1>2, ChipAssumption DEF Flash

LEMMA PartType ==
  ASSUME TypeInv
  PROVE  part.size \in Nat \ {0} /\ part.page \in Nat \ {0} /\ part.sector \in Nat \ {0}
BY ChipAssumption DEF TypeInv

LEMMA ReachedIsDecoded ==
  ASSUME TypeInv, nor # 0, NEW a \in Nat
  PROVE  Reached(a) = Decoded(a)
<1>1. /\ Flash.size = part.size /\ part.size \in Nat \ {0} /\ Low \in Nat \ {0}
      /\ part.size <= Low => Low % part.size = 0
  BY FlashIsPart, ChipAssumption, Zenon
<1>2. CASE part.size > Low
  BY <1>1, <1>2 DEF Reached, Sent
<1>3. CASE ~(part.size > Low)
  <2>1. Low % part.size = 0
    BY <1>1, <1>3
  <2>2. (a % Low) % part.size = a % part.size
    BY <1>1, <2>1, ModOfMod, Zenon
  <2> QED
    BY <1>1, <1>3, <2>2, Zenon DEF Reached, Sent, Decoded
<1> QED
  BY <1>2, <1>3

\* An address of the chip is found where it is.
LEMMA DecodedSame ==
  ASSUME part.size \in Nat \ {0}, NEW a \in 0..(part.size - 1)
  PROVE  Decoded(a) = a
<1>1. a \in Nat /\ a < part.size
  OBVIOUS
<1> QED
  BY <1>1, ModSmall, Zenon DEF Decoded

LEMMA HomeIsOffset ==
  ASSUME TypeInv, nor # 0, NEW r \in Regions
  PROVE  /\ Offset(r) = Home(r) /\ Sectors(r) = Count(r) /\ Span(r) = HomeSpan(r)
         /\ SectorSpan(r) = HomeSectors(r)
         /\ r.off \in Int /\ r.size \in Nat \ {0} /\ Home(r) \in Nat
         /\ Home(r) + r.size < Word
         /\ Count(r) \in Nat \ {0} /\ (Count(r) - 1) * part.sector < r.size
         /\ (Home(r) % part.sector) + r.size <= Count(r) * part.sector
         /\ r.off < 0 => Home(r) + r.size <= part.size
<1>1. /\ Flash.size = part.size /\ Flash.sector = part.sector /\ part \in Known
      /\ part.size \in Nat \ {0} /\ part.sector \in Nat \ {0}
  BY FlashIsPart
<1>2. Offset(r) = Home(r) /\ Sectors(r) = Count(r)
  BY <1>1 DEF Offset, Home, Sectors, Count
<1>3. r.off \in Int /\ r.size \in Nat \ {0} /\ (r.off < 0 => r.off + r.size <= 0)
  BY RegionAssumption
<1>4. /\ Home(r) >= 0 /\ Home(r) + r.size < Word
      /\ (Home(r) % part.sector) + r.size <= Count(r) * part.sector
  BY <1>1, RegionAssumption, Zenon DEF Home, Count
<1>5. Home(r) \in Nat
  BY <1>1, <1>3, <1>4 DEF Home
<1>6. Count(r) \in Nat \ {0} /\ (Count(r) - 1) * part.sector < r.size
  <2>1. Count(r) = (r.size + part.sector - 1) \div part.sector
    BY DEF Count
  <2>2. Count(r) \in Nat /\ Count(r) > 0 /\ (Count(r) - 1) * part.sector < r.size
    BY <1>1, <1>3, <2>1, RoundUp, Zenon
  <2> QED
    BY <2>2
<1>7. Span(r) = HomeSpan(r) /\ SectorSpan(r) = HomeSectors(r)
  <2>1. Span(r) = HomeSpan(r)
    BY <1>2 DEF Span, HomeSpan
  <2>2. \A a \in HomeSpan(r) : a \in Nat
    BY <1>3, <1>5 DEF HomeSpan
  <2>3. \A a \in HomeSpan(r) : Reached(a) = Decoded(a)
    BY <2>2, ReachedIsDecoded, Zenon
  <2> QED
    BY <2>1, <2>3, Zenon DEF SectorSpan, HomeSectors
<1>8. r.off < 0 => Home(r) + r.size <= part.size
  BY <1>1, <1>3 DEF Home
<1> QED
  BY <1>2, <1>3, <1>4, <1>5, <1>6, <1>7, <1>8

\* What the chip erases is inside the chip.
LEMMA SectorInside ==
  ASSUME TypeInv, nor # 0, NEW a \in Nat
  PROVE  DOMAIN EraseBytes(Decoded(a)) \subseteq 0..(part.size - 1)
<1> DEFINE d == Decoded(a)
<1>1. /\ part.size \in Nat \ {0} /\ part.sector \in Nat \ {0} /\ part.size % part.sector = 0
  BY FlashIsPart
<1>2. d \in 0..(part.size - 1)
  <2>1. a \in Int
    OBVIOUS
  <2> QED
    BY <1>1, <2>1, ModRange, Zenon DEF Decoded
<1> HIDE DEF d
<1>3. SectorOf(d) >= 0 /\ SectorOf(d) + part.sector <= part.size
  BY <1>1, <1>2, SectorFits, Zenon DEF SectorOf
<1>4. SectorOf(d) \in Int
  BY <1>1, <1>2 DEF SectorOf
<1>5. DOMAIN EraseBytes(d) = SectorOf(d)..(SectorOf(d) + part.sector - 1)
  BY Zenon DEF EraseBytes
<1>6. SectorOf(d)..(SectorOf(d) + part.sector - 1) \subseteq 0..(part.size - 1)
  BY <1>1, <1>3, <1>4
<1> QED
  BY <1>5, <1>6 DEF d

\* The addresses of a call that is served.
LEMMA Position ==
  ASSUME TypeInv, CallInv, PlaceInv, pc \in Busy
  PROVE  /\ nor # 0 /\ addr \in Nat /\ left \in Nat
         /\ part.size \in Nat \ {0} /\ part.page \in Nat \ {0} /\ part.sector \in Nat \ {0}
         /\ call.kind # "chip" =>
              /\ call.region \in Regions /\ Home(call.region) \in Nat /\ call.region.size \in Nat \ {0}
              /\ Offset(call.region) = Home(call.region)
         /\ call.kind = "write" => HomeSpan(call.region) \subseteq 0..(part.size - 1)
         /\ left > 0 => Portion = Piece /\ Piece \in 1..left /\ Piece <= PageRest
         /\ left > 0 /\ call.kind # "chip" => addr \in HomeSpan(call.region)
<1>1. nor # 0 /\ addr \in Nat /\ left \in Nat
  BY DEF TypeInv, PlaceInv
<1>2. /\ part.size \in Nat \ {0} /\ part.page \in Nat \ {0} /\ part.sector \in Nat \ {0}
      /\ Flash.page = part.page
  BY <1>1, FlashIsPart
<1>3. ASSUME call.kind # "chip"
      PROVE  /\ call.region \in Regions /\ Home(call.region) \in Nat /\ call.region.size \in Nat \ {0}
             /\ Offset(call.region) = Home(call.region)
             /\ call.kind = "write" => HomeSpan(call.region) \subseteq 0..(part.size - 1)
             /\ Count(call.region) \in Nat \ {0}
             /\ (Count(call.region) - 1) * part.sector < call.region.size
  <2>1. call.region \in Regions /\ (call.kind = "write" => Inside(call.region))
    BY <1>3 DEF CallInv
  <2>2. /\ Home(call.region) \in Nat /\ call.region.size \in Nat \ {0}
        /\ Offset(call.region) = Home(call.region) /\ Count(call.region) \in Nat \ {0}
        /\ (Count(call.region) - 1) * part.sector < call.region.size
    BY <1>1, <2>1, HomeIsOffset
  <2>3. call.kind = "write" => HomeSpan(call.region) \subseteq 0..(part.size - 1)
    BY <1>2, <2>1, <2>2 DEF HomeSpan, Inside
  <2> QED
    BY <2>1, <2>2, <2>3
<1>4. ASSUME left > 0 PROVE Portion = Piece /\ Piece \in 1..left /\ Piece <= PageRest
  <2>1. addr % part.page \in 0..(part.page - 1)
    <3>1. addr \in Int
      BY <1>1
    <3> QED
      BY <1>2, <3>1, ModRange, Zenon
  <2>2. PageRest \in Nat \ {0}
    BY <1>2, <2>1 DEF PageRest
  <2>3. Portion = Min({PageRest, left})
    BY <1>2 DEF Portion, PageRest
  <2>4. Portion = Piece
    BY <1>1, <2>2, <2>3, MinOfTwo DEF Piece
  <2> QED
    BY <1>1, <1>4, <2>2, <2>4 DEF Piece
<1>5. ASSUME left > 0, call.kind # "chip" PROVE addr \in HomeSpan(call.region)
  <2> DEFINE h == Home(call.region)
             z == call.region.size
             c == Count(call.region)
             s == part.sector
  <2>1. h \in Nat /\ z \in Nat \ {0} /\ c \in Nat \ {0} /\ (c - 1) * s < z
    BY <1>3, <1>5
  <2>2. h <= addr /\ (addr + left = h + z \/ addr + left * s = h + c * s)
    BY <1>5 DEF PlaceInv, CallInv
  <2> HIDE DEF h, z, c, s
  <2>3. s \in Nat \ {0}
    BY <1>2 DEF s
  <2>4. left * s = (left - 1) * s + s /\ c * s = (c - 1) * s + s /\ (left - 1) * s >= 0
    BY <1>1, <1>5, <2>1, <2>3
  <2>5. addr < h + z
    BY <1>1, <1>5, <2>1, <2>2, <2>3, <2>4
  <2> QED
    BY <1>1, <2>1, <2>2, <2>5 DEF HomeSpan, h, z
<1> QED
  BY <1>1, <1>2, <1>3, <1>4, <1>5

\* What is ordered is inside the chip and part of the call.
LEMMA OrderedInside ==
  ASSUME TypeInv, CallInv, PlaceInv, pc \in Busy, left > 0
  PROVE  /\ Ordered # NoJob /\ Ordered.kind \in {"program", "erase"}
         /\ DOMAIN Ordered.bytes \subseteq DOMAIN mem
         /\ \A b \in DOMAIN Ordered.bytes :
              Ordered.bytes[b] \in IF Ordered.kind = "erase" THEN {Erased} ELSE Byte
         /\ call.kind = "write" =>
              /\ DOMAIN Ordered.bytes = addr..(addr + Piece - 1)
              /\ DOMAIN Ordered.bytes \subseteq HomeSpan(call.region)
              /\ addr + Piece <= Home(call.region) + call.region.size
         /\ call.kind = "clear" =>
              /\ DOMAIN Ordered.bytes = DOMAIN EraseBytes(Decoded(addr))
              /\ DOMAIN Ordered.bytes \subseteq HomeSectors(call.region)
         /\ call.kind = "chip" => DOMAIN Ordered.bytes = DOMAIN mem
<1>1. DOMAIN mem = 0..(part.size - 1) /\ call.kind \in {"write", "clear", "chip"}
  BY DEF TypeInv, CallInv
<1>2. CASE call.kind = "write"
  <2>1. /\ addr \in Nat /\ left \in Nat /\ Piece \in 1..left /\ addr \in HomeSpan(call.region)
        /\ Home(call.region) \in Nat /\ call.region.size \in Nat
        /\ HomeSpan(call.region) \subseteq 0..(part.size - 1)
    BY <1>2, Position
  <2>2. addr + left = Home(call.region) + call.region.size /\ Home(call.region) <= addr
    BY <1>2 DEF PlaceInv
  <2>3. /\ Ordered.kind = "program"
        /\ Ordered.bytes = [b \in addr..(addr + Piece - 1) |-> call.data[b - Home(call.region) + 1]]
    BY <1>2 DEF Ordered
  <2>4. /\ addr + Piece <= Home(call.region) + call.region.size
        /\ addr..(addr + Piece - 1) \subseteq HomeSpan(call.region)
    BY <2>1, <2>2 DEF HomeSpan
  <2>5. ASSUME NEW b \in addr..(addr + Piece - 1) PROVE call.data[b - Home(call.region) + 1] \in Byte
    <3>1. b - Home(call.region) + 1 \in 1..call.region.size
      BY <2>1, <2>2, <2>4
    <3> QED
      BY <1>2, <3>1, Zenon DEF CallInv
  <2>6. Ordered # NoJob
    BY <2>3 DEF NoJob
  <2> QED
    BY <1>1, <1>2, <2>1, <2>3, <2>4, <2>5, <2>6, Zenon
<1>3. CASE call.kind = "clear"
  <2>1. addr \in Nat /\ addr \in HomeSpan(call.region) /\ nor # 0
    BY <1>3, Position
  <2>2. Ordered.kind = "erase" /\ Ordered.bytes = EraseBytes(Decoded(addr))
    BY <1>3 DEF Ordered
  <2>3. DOMAIN EraseBytes(Decoded(addr)) \subseteq 0..(part.size - 1)
    BY <2>1, SectorInside
  <2>4. DOMAIN EraseBytes(Decoded(addr)) \subseteq HomeSectors(call.region)
    BY <2>1 DEF HomeSectors
  <2>5. Ordered # NoJob
    BY <2>2 DEF NoJob
  <2>6. \A b \in DOMAIN EraseBytes(Decoded(addr)) : EraseBytes(Decoded(addr))[b] = Erased
    BY DEF EraseBytes
  <2> QED
    BY <1>1, <1>3, <2>2, <2>3, <2>4, <2>5, <2>6, Zenon
<1>4. CASE call.kind = "chip"
  <2>1. Ordered.kind = "erase" /\ Ordered.bytes = BulkBytes
    BY <1>4 DEF Ordered
  <2> QED
    BY <1>1, <1>4, <2>1 DEF BulkBytes, NoJob
<1> QED
  BY <1>1, <1>2, <1>3, <1>4, Zenon

\* The chip does what is ordered.
LEMMA Commanded ==
  ASSUME TypeInv, CallInv, PlaceInv, JobInv, Command
  PROVE  job' = Ordered
<1>1. pc = "command" /\ pc \in Busy /\ wel /\ job = NoJob
  BY DEF Command, Goto, Busy, JobInv
<1>2. /\ nor # 0 /\ addr \in Nat /\ left \in Nat /\ left > 0 /\ Portion = Piece /\ Piece \in 1..left
      /\ Piece <= PageRest /\ part.page \in Nat \ {0} /\ part.sector \in Nat \ {0}
  <2>1. left > 0
    BY <1>1 DEF PlaceInv
  <2> QED
    BY <1>1, <2>1, Position
<1>3. Reached(addr) = Decoded(addr) /\ (call.kind = "write" => Decoded(addr) = addr)
  <2>1. Reached(addr) = Decoded(addr)
    BY <1>2, ReachedIsDecoded
  <2>2. ASSUME call.kind = "write" PROVE Decoded(addr) = addr
    <3>1. addr \in 0..(part.size - 1) /\ part.size \in Nat \ {0}
      BY <1>1, <1>2, <2>2, Position, Zenon
    <3> QED
      BY <3>1, DecodedSame
  <2> QED
    BY <2>1, <2>2
<1>4. CASE call.kind = "write"
  <2> DEFINE h == Home(call.region)
             z == call.region.size
             d == [i \in 1..Piece |-> call.data[(addr - h) + i]]
  <2>1. /\ h \in Nat /\ z \in Nat /\ Offset(call.region) = h /\ addr + Piece <= h + z /\ h <= addr
        /\ call.data \in [1..z -> Byte]
    BY <1>1, <1>2, <1>4, Position, OrderedInside, Zenon DEF PlaceInv, CallInv
  <2>2. Data = SubSeq(call.data, (addr - h) + 1, (addr - h) + Piece)
    BY <1>2, <2>1, Zenon DEF Data
  <2> HIDE DEF h, z
  <2>3. Data = d
    BY <1>2, <2>1, <2>2
  <2>4. Len(d) = Piece
    BY <1>2
  <2>5. (addr % part.page) + Piece <= part.page
    <3>1. addr \in Int
      BY <1>2
    <3>2. addr % part.page \in 0..(part.page - 1)
      BY <1>2, <3>1, ModRange, Zenon
    <3> QED
      BY <1>2, <3>2 DEF PageRest
  <2>6. ProgramBytes(addr, d) = [b \in addr..(addr + Piece - 1) |-> d[b - addr + 1]]
    <3> HIDE DEF d
    <3>2. addr \in Nat /\ Piece \in Nat /\ part.page \in Nat \ {0}
      BY <1>2
    <3> QED
      BY <2>4, <2>5, <3>2, ProgramStraight
  <2>7. \A b \in addr..(addr + Piece - 1) : d[b - addr + 1] = call.data[b - h + 1]
    <3> TAKE b \in addr..(addr + Piece - 1)
    <3>1. b - addr + 1 \in 1..Piece /\ (addr - h) + (b - addr + 1) = b - h + 1
      BY <1>2, <2>1
    <3> QED
      BY <3>1
  <2>8. ProgramBytes(addr, d) = [b \in addr..(addr + Piece - 1) |-> call.data[b - h + 1]]
    BY <2>6, <2>7, Zenon
  <2>9. job' = [kind |-> "program", bytes |-> ProgramBytes(Reached(addr), Data)]
    BY <1>1, <1>4 DEF Command, Take
  <2> QED
    BY <1>3, <1>4, <2>3, <2>8, <2>9, Zenon DEF Ordered, h
<1>5. CASE call.kind = "clear"
  BY <1>1, <1>3, <1>5 DEF Command, Take, Ordered
<1>6. CASE call.kind = "chip"
  BY <1>1, <1>6 DEF Command, Take, Ordered
<1> QED
  BY <1>1, <1>4, <1>5, <1>6 DEF CallInv
-----------------------------------------------------------------------------
(***************************************************************************)
(* The steps keep the invariant.                                           *)
(***************************************************************************)
LEMMA InitNor == Init => NorInv
<1> SUFFICES ASSUME Init PROVE NorInv
  OBVIOUS
<1>1. /\ part \in Fitted /\ nor = 0 /\ pc = "start" /\ job = NoJob /\ call = NoCall
      /\ stored = [r \in Regions |-> None]
  BY DEF Init
<1>2. mem \in [0..(part.size - 1) -> Byte]
  BY DEF Init, Byte
<1>3. TypeInv
  BY <1>1, <1>2 DEF TypeInv, Busy
<1>4. CallInv /\ PlaceInv /\ JobInv /\ DoneInv
  BY <1>1 DEF CallInv, PlaceInv, JobInv, DoneInv, Busy
<1>5. KeptInv
  BY <1>1 DEF KeptInv
<1> QED
  BY <1>3, <1>4, <1>5 DEF NorInv

\* Where an environment is depends on the chip only.
LEMMA HomeStays ==
  ASSUME part' = part
  PROVE  /\ \A r : /\ Home(r)' = Home(r) /\ HomeSpan(r)' = HomeSpan(r) /\ HomeSectors(r)' = HomeSectors(r)
                   /\ Inside(r)' = Inside(r) /\ Count(r)' = Count(r)
         /\ HomesApart' = HomesApart
<1>1. \A r : Home(r)' = Home(r)
  BY DEF Home
<1>2. \A r : HomeSpan(r)' = HomeSpan(r) /\ Inside(r)' = Inside(r) /\ Count(r)' = Count(r)
  BY <1>1 DEF HomeSpan, Inside, Count
<1>3. \A a : EraseBytes(Decoded(a))' = EraseBytes(Decoded(a))
  BY DEF EraseBytes, SectorOf, Decoded
<1>4. \A r : HomeSectors(r)' = HomeSectors(r)
  BY <1>2, <1>3 DEF HomeSectors
<1>5. HomesApart' = HomesApart
  BY <1>4 DEF HomesApart
<1> QED
  BY <1>1, <1>2, <1>4, <1>5

\* Without a change of the memory, what is stored is still there.
LEMMA KeptStays ==
  ASSUME KeptInv, UNCHANGED <<part, mem, stored>>, job' \in {job, NoJob}
  PROVE  KeptInv'
<1>1. HomesApart' = HomesApart
  BY HomeStays
<1>2. ASSUME HomesApart, NEW r \in Regions, stored[r] # None
      PROVE  /\ Inside(r)' /\ stored'[r] = [i \in 1..r.size |-> mem'[Home(r)' + i - 1]]
             /\ job' # NoJob => DOMAIN job'.bytes \cap HomeSpan(r)' = {}
  <2>1. Home(r)' = Home(r) /\ HomeSpan(r)' = HomeSpan(r) /\ Inside(r)' = Inside(r)
    BY HomeStays
  <2>2. /\ Inside(r) /\ stored[r] = [i \in 1..r.size |-> mem[Home(r) + i - 1]]
        /\ job # NoJob => DOMAIN job.bytes \cap HomeSpan(r) = {}
    BY <1>2, Zenon DEF KeptInv
  <2> QED
    BY <2>1, <2>2
<1> QED
  BY <1>1, <1>2, Zenon DEF KeptInv

\* The steps of spi_nor_init.
LEMMA BootStep ==
  ASSUME NorInv, pc \notin Busy, pc' \in {"identify", "settle", "ready", "panic"},
         UNCHANGED <<part, mem, job, call, ret, stored>>,
         nor' # 0 => nor' = Lookup(part),
         pc' \in {"settle", "ready"} => nor' # 0,
         pc' = "ready" \/ pc = "ready" => job = NoJob
  PROVE  NorInv'
<1>1. pc' \notin Busy
  BY DEF Busy
<1>2. TypeInv'
  BY <1>1, Zenon DEF NorInv, TypeInv
<1>3. CallInv' /\ PlaceInv' /\ DoneInv'
  BY <1>1, Zenon DEF NorInv, CallInv, PlaceInv, DoneInv
<1>4. JobInv'
  <2>1. job # NoJob => /\ job.kind \in {"program", "erase"} /\ DOMAIN job.bytes \subseteq DOMAIN mem
                       /\ \A b \in DOMAIN job.bytes :
                            job.bytes[b] \in IF job.kind = "erase" THEN {Erased} ELSE Byte
    BY Zenon DEF NorInv, JobInv
  <2>2. job # NoJob => pc # "wait" /\ ret = "none"
    BY DEF NorInv, JobInv, Busy
  <2> QED
    BY <2>1, <2>2, Zenon DEF JobInv
<1>5. KeptInv'
  BY KeptStays DEF NorInv
<1> QED
  BY <1>2, <1>3, <1>4, <1>5 DEF NorInv

LEMMA QspiInitStep ==
  ASSUME NorInv, NEW ok \in BOOLEAN, QspiInit(ok)
  PROVE  NorInv'
<1>1. /\ pc = "start" /\ pc' \in {"identify", "panic"} /\ UNCHANGED <<part, mem, job, nor, call, ret, stored>>
  BY DEF QspiInit, Goto, chipVars
<1>2. nor # 0 => nor = Lookup(part)
  BY DEF NorInv, TypeInv
<1> QED
  BY <1>1, <1>2, BootStep DEF Busy

LEMMA SpiNorIdentifyStep ==
  ASSUME NorInv, NEW answers \in BOOLEAN, SpiNorIdentify(answers)
  PROVE  NorInv'
<1>1. /\ pc = "identify" /\ pc' \in {"settle", "panic"} /\ UNCHANGED <<part, mem, job, call, ret, stored>>
      /\ nor' \in {Lookup(part), 0} /\ (pc' = "settle" => nor' # 0)
  BY DEF SpiNorIdentify, Goto, chipVars
<1> QED
  BY <1>1, BootStep DEF Busy

LEMMA SpiNorSettleStep ==
  ASSUME NorInv, SpiNorSettle
  PROVE  NorInv'
<1>1. /\ pc = "settle" /\ pc' \in {"ready", "panic"} /\ UNCHANGED <<part, mem, job, nor, call, ret, stored>>
      /\ pc' = "ready" => job = NoJob
  BY DEF SpiNorSettle, Goto, chipVars
<1>2. nor # 0 /\ nor = Lookup(part)
  BY <1>1 DEF NorInv, TypeInv
<1> QED
  BY <1>1, <1>2, BootStep DEF Busy

\* A call that is taken up, with the flash idle.
LEMMA ReadyIdle ==
  ASSUME NorInv, pc = "ready"
  PROVE  job = NoJob /\ call = NoCall /\ nor # 0
BY DEF NorInv, TypeInv, JobInv, CallInv, Busy

\* Common to the calls that start an operation.
LEMMA CallStep ==
  ASSUME NorInv, pc = "ready", pc' = "wren", UNCHANGED <<part, mem, wel, job, nor>>,
         stored' = [q \in Regions |-> stored'[q]],
         \A q \in Regions : stored'[q] # None => stored'[q] = stored[q],
         CallInv', PlaceInv', DoneInv'
  PROVE  NorInv'
<1>1. job = NoJob /\ nor # 0
  BY ReadyIdle
<1>2. TypeInv'
  <2>1. part' \in Fitted /\ mem' \in [0..(part'.size - 1) -> Byte] /\ nor' = Lookup(part')
    BY <1>1 DEF NorInv, TypeInv
  <2> QED
    BY <1>1, <2>1 DEF TypeInv, Busy
<1>3. JobInv'
  BY <1>1 DEF JobInv
<1>4. KeptInv'
  <2>1. ASSUME HomesApart, NEW r \in Regions, stored'[r] # None
        PROVE  Inside(r)' /\ stored'[r] = [i \in 1..r.size |-> mem'[Home(r)' + i - 1]]
    <3>1. Home(r)' = Home(r) /\ Inside(r)' = Inside(r)
      BY HomeStays
    <3>2. stored'[r] = stored[r]
      BY <2>1
    <3>3. Inside(r) /\ stored[r] = [i \in 1..r.size |-> mem[Home(r) + i - 1]]
      BY <2>1, <3>2, Zenon DEF NorInv, KeptInv
    <3> QED
      BY <3>1, <3>2, <3>3, Zenon
  <2>2. HomesApart' = HomesApart
    BY HomeStays
  <2> QED
    BY <1>1, <2>1, <2>2, Zenon DEF KeptInv
<1> QED
  BY <1>2, <1>3, <1>4 DEF NorInv

\* Sectors come in the order of the addresses in them.
LEMMA SectorOrder ==
  ASSUME NEW a \in Int, NEW b \in Int, a <= b, part.sector \in Nat \ {0}
  PROVE  SectorOf(a) \in Int /\ SectorOf(a) <= a /\ a < SectorOf(a) + part.sector /\ SectorOf(a) <= SectorOf(b)
<1> DEFINE p == part.sector
           x == a \div p
           y == b \div p
           u == a % p
           v == b % p
<1>1. /\ u \in 0..(p - 1) /\ x \in Int /\ a = p * x + u
      /\ v \in 0..(p - 1) /\ y \in Int /\ b = p * y + v
  BY ModRange, Zenon
<1>2. SectorOf(a) = a - u /\ SectorOf(b) = b - v /\ p \in Nat \ {0}
  BY DEF SectorOf
<1> HIDE DEF x, y, u, v, p
<1>3. SectorOf(a) \in Int /\ SectorOf(a) <= a /\ a < SectorOf(a) + p
  BY <1>1, <1>2
<1>4. x <= y
  <2> SUFFICES ASSUME x > y PROVE FALSE
    BY <1>1
  <2>1. x - y >= 1
    BY <1>1
  <2>2. p * (x - y) >= p
    BY <1>1, <1>2, <2>1
  <2>3. p * (x - y) = p * x - p * y
    BY <1>1, <1>2
  <2> QED
    BY <1>1, <1>2, <2>2, <2>3
<1>5. p * x <= p * y
  BY <1>1, <1>2, <1>4
<1>6. SectorOf(a) <= SectorOf(b)
  BY <1>1, <1>2, <1>5
<1> QED
  BY <1>3, <1>6 DEF p

\* The sectors of an environment are inside the chip, and they hold it if it is.  The
\* last sector spi_nor_erase_sector is called for holds its last byte.
LEMMA SectorsOfRegion ==
  ASSUME TypeInv, nor # 0, NEW r \in Regions
  PROVE  /\ HomeSectors(r) \subseteq 0..(part.size - 1)
         /\ Inside(r) => HomeSpan(r) \subseteq HomeSectors(r)
         /\ \A a \in HomeSpan(r) :
              a \in Nat /\ SectorOf(Home(r)) <= a /\ a < SectorOf(Home(r)) + Count(r) * part.sector
<1>1. /\ Home(r) \in Nat /\ r.size \in Nat \ {0} /\ Count(r) \in Nat \ {0}
      /\ (Home(r) % part.sector) + r.size <= Count(r) * part.sector
  BY HomeIsOffset
<1>2. /\ part.size \in Nat \ {0} /\ part.sector \in Nat \ {0} /\ part.size % part.sector = 0
  BY FlashIsPart
<1>3. \A x \in HomeSpan(r) : x \in Nat /\ Home(r) <= x /\ x < Home(r) + r.size
  BY <1>1 DEF HomeSpan
<1>4. HomeSectors(r) \subseteq 0..(part.size - 1)
  BY <1>3, SectorInside, Zenon DEF HomeSectors
<1>5. ASSUME Inside(r), NEW x \in HomeSpan(r) PROVE x \in DOMAIN EraseBytes(Decoded(x))
  <2>1. x \in 0..(part.size - 1) /\ x \in Int
    BY <1>1, <1>2, <1>3, <1>5 DEF Inside
  <2>2. Decoded(x) = x
    BY <1>2, <2>1, DecodedSame
  <2>3. SectorOf(x) \in Int /\ SectorOf(x) <= x /\ x < SectorOf(x) + part.sector
    BY <1>2, <2>1, SectorOrder
  <2>4. x \in SectorOf(x)..(SectorOf(x) + part.sector - 1)
    BY <1>2, <2>1, <2>3
  <2> QED
    BY <2>2, <2>4, Zenon DEF EraseBytes
<1>6. Inside(r) => HomeSpan(r) \subseteq HomeSectors(r)
  BY <1>5, Zenon DEF HomeSectors
<1>7. ASSUME NEW x \in HomeSpan(r)
      PROVE  SectorOf(Home(r)) <= x /\ x < SectorOf(Home(r)) + Count(r) * part.sector
  <2> DEFINE h == Home(r)
             u == Home(r) % part.sector
             m == Count(r) * part.sector
             z == r.size
  <2>1. u \in 0..(part.sector - 1) /\ m \in Int
    <3>1. h \in Int
      BY <1>1
    <3>2. m \in Int
      BY <1>1, <1>2
    <3> QED
      BY <1>2, <3>1, <3>2, ModRange, Zenon
  <2>2. SectorOf(h) = h - u
    BY DEF SectorOf
  <2>3. h \in Nat /\ z \in Nat /\ u + z <= m /\ x \in Nat /\ h <= x /\ x < h + z
    BY <1>1, <1>3, Zenon
  <2> HIDE DEF u, m, h, z
  <2>4. h - u <= x /\ x < (h - u) + m
    BY <1>2, <2>1, <2>3
  <2> QED
    BY <2>2, <2>4 DEF h, m
<1> QED
  BY <1>3, <1>4, <1>6, <1>7, Zenon

\* The place of the region of a call, before and after a step.
LEMMA RegionStays ==
  ASSUME part' = part, NEW r, call'.region = r
  PROVE  /\ Home(call.region)' = Home(r) /\ HomeSpan(call.region)' = HomeSpan(r)
         /\ HomeSectors(call.region)' = HomeSectors(r) /\ Inside(call.region)' = Inside(r)
         /\ Count(call.region)' = Count(r)
BY DEF Home, HomeSpan, HomeSectors, Inside, Count, EraseBytes, SectorOf, Decoded

LEMMA EnvIoSpiClearStep ==
  ASSUME NorInv, NEW r \in Regions, EnvIoSpiClear(r)
  PROVE  NorInv'
<1>1. job = NoJob /\ nor # 0 /\ TypeInv /\ pc = "ready"
  BY ReadyIdle, Zenon DEF EnvIoSpiClear, NorInv
<1>2. /\ Offset(r) = Home(r) /\ Sectors(r) = Count(r) /\ r.off \in Int /\ r.size \in Nat \ {0}
      /\ Home(r) \in Nat /\ Count(r) \in Nat \ {0} /\ (r.off < 0 => Home(r) + r.size <= part.size)
  BY <1>1, HomeIsOffset, Zenon
<1>4. /\ pc' = "wren" /\ UNCHANGED <<part, mem, wel, job, nor>>
      /\ call' = [kind |-> "clear", region |-> r, data |-> <<>>]
      /\ addr' = Home(r) /\ left' = Count(r) /\ stored' = [stored EXCEPT ![r] = None]
  BY <1>2, Zenon DEF EnvIoSpiClear, Called, chipVars
<1>5. stored = [q \in Regions |-> stored[q]]
  BY <1>1 DEF TypeInv
<1>6. /\ stored' = [q \in Regions |-> stored'[q]] /\ stored'[r] = None
      /\ \A q \in Regions : stored'[q] # None => stored'[q] = stored[q]
  BY <1>4, <1>5, Zenon
<1>7. call'.kind = "clear" /\ call'.region = r
  BY <1>4
<1>8. CallInv'
  BY <1>4, <1>6, <1>7, Zenon DEF CallInv, Busy
<1>9. PlaceInv'
  <2>1. Home(call.region)' = Home(r) /\ Count(call.region)' = Count(r)
    BY <1>4, <1>7, RegionStays, Zenon
  <2> QED
    BY <1>2, <1>4, <1>7, <2>1 DEF PlaceInv, Busy
<1>10. DoneInv'
  <2>1. HomeSpan(call.region)' = HomeSpan(r)
    BY <1>4, <1>7, RegionStays, Zenon
  <2>2. ~Ended'
    BY <1>4, Zenon DEF Ended
  <2>3. SectorOf(addr)' = SectorOf(Home(r))
    BY <1>4, Zenon DEF SectorOf
  <2>4. SectorOf(Home(r)) \in Int
    <3>1. Home(r) \in Int /\ part.sector \in Nat \ {0}
      BY <1>1, <1>2, PartType
    <3> QED
      BY <3>1, SectorOrder
  <2>5. \A a \in HomeSpan(r) : ~(a < SectorOf(Home(r)))
    <3>1. \A a \in HomeSpan(r) : a \in Nat /\ SectorOf(Home(r)) <= a
      BY <1>1, SectorsOfRegion, Zenon
    <3> QED
      BY <2>4, <3>1
  <2> QED
    BY <1>4, <1>7, <2>1, <2>2, <2>3, <2>5, Zenon DEF DoneInv
<1> QED
  BY <1>1, <1>4, <1>6, <1>8, <1>9, <1>10, CallStep, Zenon

LEMMA SpiNorEraseChipStep ==
  ASSUME NorInv, SpiNorEraseChip
  PROVE  NorInv'
<1>1. /\ pc = "ready" /\ pc' = "wren" /\ UNCHANGED <<part, mem, wel, job, nor>>
      /\ call'.kind = "chip" /\ addr' = 0 /\ left' = 1 /\ stored' = [r \in Regions |-> None]
  BY Zenon DEF SpiNorEraseChip, Called, chipVars
<1>2. CallInv' /\ PlaceInv'
  BY <1>1 DEF CallInv, PlaceInv, Busy
<1>3. DoneInv'
  BY <1>1, Zenon DEF DoneInv, Ended
<1> QED
  BY <1>1, <1>2, <1>3, CallStep, Zenon

\* spi_nor_write refuses what the chip does not hold.
LEMMA FitsInside ==
  ASSUME TypeInv, nor # 0, NEW r \in Regions, Fits(r)
  PROVE  Inside(r)
<1>1. /\ Offset(r) = Home(r) /\ Home(r) \in Nat /\ r.size \in Nat \ {0} /\ Home(r) + r.size < Word
      /\ Flash.size = part.size
  BY HomeIsOffset, FlashIsPart, Zenon
<1>2. (Home(r) + r.size) % Word = Home(r) + r.size
  <2>1. Home(r) + r.size \in Nat /\ Word \in Nat \ {0}
    BY <1>1, ChipAssumption
  <2> QED
    BY <1>1, <2>1, ModSmall, Zenon
<1> QED
  BY <1>1, <1>2 DEF Fits, Inside

LEMMA EnvIoSpiWriteStep ==
  ASSUME NorInv, NEW r \in Regions, NEW d \in Patterns, EnvIoSpiWrite(r, d)
  PROVE  NorInv'
<1>1. job = NoJob /\ call = NoCall /\ nor # 0 /\ TypeInv /\ pc = "ready"
  BY ReadyIdle, Zenon DEF EnvIoSpiWrite, NorInv
<1>2. CASE ~Fits(r)
  <2>1. pc' = "ready" /\ UNCHANGED <<part, mem, job, nor, call, stored>>
    BY <1>1, <1>2, Zenon DEF EnvIoSpiWrite, Called, chipVars
  <2>2. nor' = Lookup(part')
    BY <1>1, <2>1, Zenon DEF TypeInv
  <2>3. TypeInv'
    BY <1>1, <2>1, Zenon DEF TypeInv, Busy
  <2>4. CallInv' /\ PlaceInv' /\ JobInv' /\ DoneInv'
    BY <1>1, <2>1, Zenon DEF CallInv, PlaceInv, JobInv, DoneInv, Busy
  <2>5. KeptInv'
    BY <2>1, KeptStays, Zenon DEF NorInv
  <2> QED
    BY <2>3, <2>4, <2>5 DEF NorInv
<1>3. CASE Fits(r)
  <2>1. /\ Offset(r) = Home(r) /\ r.size \in Nat \ {0} /\ Home(r) \in Nat /\ Inside(r)
    BY <1>1, <1>3, HomeIsOffset, FitsInside, Zenon
  <2>2. /\ pc' = "wren" /\ UNCHANGED <<part, mem, wel, job, nor>>
        /\ call' = [kind |-> "write", region |-> r, data |-> [i \in 1..r.size |-> d[i]]]
        /\ addr' = Home(r) /\ left' = r.size /\ stored' = [stored EXCEPT ![r] = None]
    BY <1>3, <2>1, Zenon DEF EnvIoSpiWrite, Called, chipVars
  <2>3. stored = [q \in Regions |-> stored[q]]
    BY <1>1 DEF TypeInv
  <2>4. /\ stored' = [q \in Regions |-> stored'[q]] /\ stored'[r] = None
        /\ \A q \in Regions : stored'[q] # None => stored'[q] = stored[q]
    BY <2>2, <2>3, Zenon
  <2>5. call'.kind = "write" /\ call'.region = r /\ call'.data = [i \in 1..r.size |-> d[i]]
    BY <2>2, Zenon
  <2>6. call'.data \in [1..r.size -> Byte]
    <3>1. \A i \in 1..r.size : d[i] \in Byte
      BY RegionAssumption, Zenon DEF Byte
    <3> QED
      BY <2>5, <3>1, Zenon
  <2>7. CallInv'
    <3>1. Inside(call.region)'
      BY <2>1, <2>2, <2>5, RegionStays, Zenon
    <3> QED
      BY <2>2, <2>4, <2>5, <2>6, <3>1, Zenon DEF CallInv, Busy
  <2>8. PlaceInv'
    <3>1. Home(call.region)' = Home(r)
      BY <2>2, <2>5, RegionStays, Zenon
    <3> QED
      BY <2>1, <2>2, <2>5, <3>1 DEF PlaceInv, Busy
  <2>9. DoneInv'
    <3>1. HomeSpan(call.region)' = HomeSpan(r) /\ Home(call.region)' = Home(r)
      BY <2>2, <2>5, RegionStays, Zenon
    <3>2. ~Ended'
      BY <2>2, Zenon DEF Ended
    <3>3. \A a \in HomeSpan(r) : ~(a < addr')
      BY <2>1, <2>2 DEF HomeSpan
    <3> QED
      BY <2>2, <2>5, <3>1, <3>2, <3>3, Zenon DEF DoneInv
  <2> QED
    BY <1>1, <2>2, <2>4, <2>7, <2>8, <2>9, CallStep, Zenon
<1> QED
  BY <1>2, <1>3

\* The steps that change neither the contents of the flash nor what is stored.
LEMMA QuietStep ==
  ASSUME NorInv, pc \in Busy, pc' \in Busy, UNCHANGED <<part, mem, nor, call, stored>>,
         PlaceInv', JobInv', DoneInv', job' \in {job, NoJob}
  PROVE  NorInv'
<1>1. TypeInv'
  BY Zenon DEF NorInv, TypeInv
<1>2. CallInv'
  <2>1. Inside(call.region)' = Inside(call.region)
    BY Zenon DEF Inside, Home
  <2> QED
    BY <2>1, Zenon DEF NorInv, CallInv
<1>3. KeptInv'
  BY KeptStays DEF NorInv
<1> QED
  BY <1>1, <1>2, <1>3 DEF NorInv

\* Steps between the commands for the same page or sector.
LEMMA PlaceStays ==
  ASSUME PlaceInv, pc \in Busy, pc # "verify", pc' # "verify", UNCHANGED <<part, call, addr, left>>
  PROVE  PlaceInv'
<1>1. Home(call.region)' = Home(call.region) /\ Count(call.region)' = Count(call.region)
  BY Zenon DEF Home, Count
<1> QED
  BY <1>1, Zenon DEF PlaceInv

LEMMA DoneStays ==
  ASSUME DoneInv, pc \in Busy, pc # "verify", pc' # "verify", UNCHANGED <<part, mem, call, addr, left>>,
         Ended' => Ended
  PROVE  DoneInv'
<1>1. /\ Home(call.region)' = Home(call.region) /\ HomeSpan(call.region)' = HomeSpan(call.region)
      /\ HomeSectors(call.region)' = HomeSectors(call.region)
  BY DEF Home, HomeSpan, HomeSectors, EraseBytes, SectorOf, Decoded
<1>2. Piece' = Piece /\ SectorOf(addr)' = SectorOf(addr)
  BY DEF Piece, PageRest, SectorOf
<1>3. \A a : DOMAIN EraseBytes(Decoded(a))' = DOMAIN EraseBytes(Decoded(a))
  BY DEF EraseBytes, SectorOf, Decoded
<1> QED
  BY <1>1, <1>2, <1>3, Zenon DEF DoneInv

LEMMA WriteEnableStep ==
  ASSUME NorInv, WriteEnable
  PROVE  NorInv'
<1>1. /\ pc = "wren" /\ pc' = "command" /\ UNCHANGED <<part, mem, job, nor, call, addr, left, stored>>
  BY Zenon DEF WriteEnable, Goto, Stays
<1>2. job = NoJob /\ wel' = TRUE
  BY <1>1, Zenon DEF NorInv, JobInv, WriteEnable, SetWel
<1>3. JobInv'
  BY <1>1, <1>2, Zenon DEF JobInv
<1>4. pc \in Busy /\ pc' \in Busy /\ ~Ended'
  BY <1>1 DEF Busy, Ended
<1>5. PlaceInv' /\ DoneInv'
  BY <1>1, <1>4, PlaceStays, DoneStays, Zenon DEF NorInv
<1> QED
  BY <1>1, <1>3, <1>4, <1>5, QuietStep, Zenon

LEMMA ReadWipStep ==
  ASSUME NorInv, ReadWip
  PROVE  NorInv'
<1>1. /\ pc = "wait" /\ pc' = "wrdi" /\ job = NoJob
      /\ UNCHANGED <<part, mem, job, nor, call, addr, left, stored>>
  BY Zenon DEF ReadWip, Goto, Stays, chipVars
<1>2. JobInv'
  BY <1>1, Zenon DEF JobInv
<1>3. pc \in Busy /\ pc' \in Busy /\ Ended
  BY <1>1 DEF Busy, Ended
<1>4. PlaceInv' /\ DoneInv'
  BY <1>1, <1>3, PlaceStays, DoneStays, Zenon DEF NorInv
<1> QED
  BY <1>1, <1>2, <1>3, <1>4, QuietStep, Zenon

\* The chip is not told to work on what is stored.
LEMMA OrderedApart ==
  ASSUME NorInv, pc \in Busy, left > 0, HomesApart, NEW q \in Regions, stored[q] # None
  PROVE  DOMAIN Ordered.bytes \cap HomeSpan(q) = {}
<1>1. /\ call.kind \in {"write", "clear"} /\ call.region \in Regions /\ q # call.region
      /\ call.kind = "write" => Inside(call.region)
  BY Zenon DEF NorInv, CallInv
<1>2. TypeInv /\ nor # 0 /\ Inside(q)
  BY Zenon DEF NorInv, TypeInv, KeptInv
<1>3. /\ HomeSpan(q) \subseteq HomeSectors(q)
      /\ call.kind = "write" => HomeSpan(call.region) \subseteq HomeSectors(call.region)
  BY <1>1, <1>2, SectorsOfRegion, Zenon
<1>4. DOMAIN Ordered.bytes \subseteq HomeSectors(call.region)
  BY <1>1, <1>3, OrderedInside, Zenon DEF NorInv
<1>5. HomeSectors(call.region) \cap HomeSectors(q) = {}
  BY <1>1, Zenon DEF HomesApart
<1> QED
  BY <1>3, <1>4, <1>5, Zenon

LEMMA CommandStep ==
  ASSUME NorInv, Command
  PROVE  NorInv'
<1>1. /\ pc = "command" /\ pc' = "wait" /\ UNCHANGED <<part, mem, nor, call, addr, left, stored>>
  BY Zenon DEF Command, Goto, Stays
<1>2. job' = Ordered
  BY Commanded DEF NorInv
<1>3. pc \in Busy /\ pc' \in Busy
  BY <1>1 DEF Busy
<1>4. left > 0
  BY <1>1, <1>3 DEF NorInv, PlaceInv
<1>5. /\ Ordered # NoJob /\ Ordered.kind \in {"program", "erase"}
      /\ DOMAIN Ordered.bytes \subseteq DOMAIN mem
      /\ \A b \in DOMAIN Ordered.bytes :
           Ordered.bytes[b] \in IF Ordered.kind = "erase" THEN {Erased} ELSE Byte
  BY <1>3, <1>4, OrderedInside, Zenon DEF NorInv
<1>6. Ordered' = Ordered
  BY <1>1, Zenon DEF Ordered, Piece, PageRest, Home, EraseBytes, BulkBytes, SectorOf, Decoded
<1>7. JobInv'
  BY <1>1, <1>2, <1>5, <1>6, Zenon DEF JobInv
<1>8. TypeInv'
  BY <1>1, <1>3, Zenon DEF NorInv, TypeInv
<1>9. CallInv'
  <2>1. Inside(call.region)' = Inside(call.region)
    BY <1>1, Zenon DEF Inside, Home
  <2> QED
    BY <1>1, <1>3, <2>1, Zenon DEF NorInv, CallInv
<1>10. ~Ended'
  BY <1>1, <1>2, <1>5, Zenon DEF Ended
<1>11. PlaceInv' /\ DoneInv'
  BY <1>1, <1>3, <1>10, PlaceStays, DoneStays, Zenon DEF NorInv
<1>12. KeptInv'
  <2>1. HomesApart' = HomesApart
    BY <1>1, HomeStays, Zenon
  <2>2. ASSUME HomesApart, NEW r \in Regions, stored'[r] # None
        PROVE  /\ Inside(r)' /\ stored'[r] = [i \in 1..r.size |-> mem'[Home(r)' + i - 1]]
               /\ DOMAIN job'.bytes \cap HomeSpan(r)' = {}
    <3>1. Home(r)' = Home(r) /\ HomeSpan(r)' = HomeSpan(r) /\ Inside(r)' = Inside(r)
      BY <1>1, HomeStays, Zenon
    <3>2. stored[r] # None
      BY <1>1, <2>2, Zenon
    <3>3. Inside(r) /\ stored[r] = [i \in 1..r.size |-> mem[Home(r) + i - 1]]
      BY <2>2, <3>2, Zenon DEF NorInv, KeptInv
    <3>4. DOMAIN Ordered.bytes \cap HomeSpan(r) = {}
      BY <1>3, <1>4, <2>2, <3>2, OrderedApart, Zenon
    <3> QED
      BY <1>1, <1>2, <3>1, <3>3, <3>4, Zenon
  <2> QED
    BY <2>1, <2>2, Zenon DEF KeptInv
<1> QED
  BY <1>7, <1>8, <1>9, <1>11, <1>12, Zenon DEF NorInv

\* On to the next page or sector.
LEMMA WriteDisableStep ==
  ASSUME NorInv, WriteDisable
  PROVE  NorInv'
<1> DEFINE step == IF call.kind = "write" THEN Portion ELSE 1
<1>1. /\ pc = "wrdi" /\ pc' = (IF left > step THEN "wren" ELSE "verify")
      /\ UNCHANGED <<part, mem, job, nor, call, stored>> /\ left' = left - step
      /\ addr' = addr + (IF call.kind = "write" THEN step ELSE Flash.sector)
  BY Zenon DEF WriteDisable, Goto, Stays
<1>2. pc \in Busy /\ pc' \in Busy /\ pc' \in {"wren", "verify"} /\ Ended /\ ~Ended' /\ job = NoJob
  BY <1>1, Zenon DEF Busy, Ended, NorInv, JobInv
<1>3. TypeInv /\ CallInv /\ PlaceInv /\ DoneInv
  BY DEF NorInv
<1>4. left > 0 /\ call.kind \in {"write", "clear", "chip"}
  BY <1>1, <1>2, <1>3 DEF PlaceInv, CallInv
<1>5. /\ nor # 0 /\ addr \in Nat /\ left \in Nat /\ part.sector \in Nat \ {0}
      /\ Portion = Piece /\ Piece \in 1..left /\ Flash.sector = part.sector
  BY <1>2, <1>3, <1>4, Position, FlashIsPart, Zenon
<1>6. /\ Home(call.region)' = Home(call.region) /\ HomeSpan(call.region)' = HomeSpan(call.region)
      /\ HomeSectors(call.region)' = HomeSectors(call.region) /\ Count(call.region)' = Count(call.region)
  BY <1>1 DEF Home, HomeSpan, HomeSectors, Count, EraseBytes, SectorOf, Decoded
<1>7. JobInv'
  BY <1>1, <1>2, Zenon DEF JobInv
<1>8. CASE call.kind = "write"
  <2>1. addr' = addr + Piece /\ left' = left - Piece /\ (pc' = "verify" <=> left' = 0)
    BY <1>1, <1>5, <1>8
  <2>2. Home(call.region) \in Nat /\ call.region.size \in Nat /\ Home(call.region) <= addr
        /\ addr + left = Home(call.region) + call.region.size
    BY <1>2, <1>3, <1>8, Position, Zenon DEF PlaceInv
  <2>3. PlaceInv'
    <3>1. addr' \in Nat /\ left' \in Nat /\ Home(call.region) <= addr'
          /\ addr' + left' = Home(call.region) + call.region.size
      BY <1>5, <2>1, <2>2
    <3> QED
      BY <1>1, <1>6, <1>8, <2>1, <3>1, Zenon DEF PlaceInv
  <2>4. DoneInv'
    <3>1. \A a \in HomeSpan(call.region) : a < addr' => mem[a] <= call.data[a - Home(call.region) + 1]
      BY <1>2, <1>3, <1>8, <2>1, Zenon DEF DoneInv
    <3> QED
      BY <1>1, <1>2, <1>6, <1>8, <3>1, Zenon DEF DoneInv
  <2> QED
    BY <1>1, <1>2, <1>7, <2>3, <2>4, QuietStep, Zenon
<1>9. CASE call.kind = "clear"
  <2> DEFINE s == part.sector
             h == Home(call.region)
             c == Count(call.region)
  <2>1. addr' = addr + s /\ left' = left - 1 /\ (pc' = "verify" <=> left' = 0)
    BY <1>1, <1>4, <1>5, <1>9
  <2>2. /\ h \in Nat /\ c \in Nat /\ h <= addr /\ addr % s = h % s /\ addr + left * s = h + c * s
    <3>1. h \in Nat /\ call.region \in Regions
      BY <1>2, <1>3, <1>9, Position, Zenon
    <3>2. c \in Nat
      BY <1>3, <1>5, <3>1, HomeIsOffset, Zenon
    <3> QED
      BY <1>2, <1>3, <1>9, <3>1, <3>2, Zenon DEF PlaceInv
  <2>3. (addr + s) % s = addr % s
    <3>1. addr \in Int /\ s \in Nat \ {0}
      BY <1>5
    <3> QED
      BY <3>1, ModNext, Zenon
  <2>4. PlaceInv'
    <3>1. addr' \in Nat /\ left' \in Nat /\ h <= addr'
      BY <1>4, <1>5, <2>1, <2>2
    <3>2. addr' % s = h % s
      BY <2>1, <2>2, <2>3, Zenon
    <3>3. addr' + left' * s = h + c * s
      <4>1. (left - 1) * s = left * s - s
        BY <1>5
      <4>2. left * s \in Int /\ c * s \in Int
        BY <1>5, <2>2
      <4> QED
        BY <1>5, <2>1, <2>2, <4>1, <4>2
    <3> QED
      BY <1>1, <1>6, <1>9, <2>1, <3>1, <3>2, <3>3, Zenon DEF PlaceInv
  <2>5. SectorOf(addr)' = SectorOf(addr) + s
    <3>1. SectorOf(addr)' = addr' - (addr' % s)
      BY <1>1, Zenon DEF SectorOf
    <3>2. addr % s \in Int
      BY <1>5
    <3> QED
      BY <1>5, <2>1, <2>3, <3>1, <3>2 DEF SectorOf
  <2>6. DoneInv'
    <3>1. \A a \in HomeSpan(call.region) :
            a < SectorOf(addr) + s => \A b \in DOMAIN EraseBytes(Decoded(a)) : mem[b] = Erased
      BY <1>2, <1>3, <1>9, Zenon DEF DoneInv
    <3>2. \A a : DOMAIN EraseBytes(Decoded(a))' = DOMAIN EraseBytes(Decoded(a))
      BY <1>1 DEF EraseBytes, SectorOf, Decoded
    <3> QED
      BY <1>1, <1>2, <1>6, <1>9, <2>5, <3>1, <3>2, Zenon DEF DoneInv
  <2> QED
    BY <1>1, <1>2, <1>7, <2>4, <2>6, QuietStep, Zenon
<1>10. CASE call.kind = "chip"
  <2>1. left = 1 /\ left' = 0 /\ pc' = "verify" /\ addr' = addr + part.sector
    BY <1>1, <1>2, <1>3, <1>4, <1>5, <1>10 DEF PlaceInv
  <2>2. PlaceInv'
    BY <1>1, <1>5, <1>10, <2>1 DEF PlaceInv
  <2>3. \A a \in DOMAIN mem : mem[a] = Erased
    BY <1>2, <1>3, <1>10, Zenon DEF DoneInv
  <2>4. DoneInv'
    BY <1>1, <1>10, <2>3, Zenon DEF DoneInv
  <2> QED
    BY <1>1, <1>2, <1>7, <2>2, <2>4, QuietStep, Zenon
<1> QED
  BY <1>4, <1>8, <1>9, <1>10, Zenon

\* What is read from a region.
LEMMA ContentsAreHome ==
  ASSUME TypeInv, nor # 0, NEW r \in Regions, Inside(r)
  PROVE  Contents(r) = [i \in 1..r.size |-> mem[Home(r) + i - 1]]
<1>1. Offset(r) = Home(r) /\ Home(r) \in Nat /\ r.size \in Nat /\ part.size \in Nat
  BY HomeIsOffset, FlashIsPart, Zenon
<1>2. ASSUME NEW i \in 1..r.size PROVE Reached(Offset(r) + i - 1) = Home(r) + i - 1
  <2>1. Home(r) + i - 1 \in 0..(part.size - 1) /\ Home(r) + i - 1 \in Nat /\ part.size \in Nat \ {0}
    BY <1>1 DEF Inside
  <2>2. Reached(Home(r) + i - 1) = Home(r) + i - 1
    BY <2>1, ReachedIsDecoded, DecodedSame, Zenon
  <2> QED
    BY <1>1, <2>2, Zenon
<1> QED
  BY <1>2, Zenon DEF Contents

LEMMA VerifyStep ==
  ASSUME NorInv, Verify
  PROVE  NorInv'
<1> DEFINE r == call.region
           w == call.kind = "write" /\ ret' = "ok"
<1>1. /\ pc = "verify" /\ pc' = "ready" /\ call' = NoCall /\ UNCHANGED <<part, mem, job, nor>>
      /\ stored' = IF w THEN [stored EXCEPT ![r] = call.data] ELSE stored
      /\ w => Contents(r) = call.data
  BY Zenon DEF Verify, Goto, chipVars, ReadAfterWrite
<1>2. job = NoJob /\ TypeInv /\ nor # 0 /\ pc \in Busy /\ pc' \notin Busy
  BY <1>1, Zenon DEF NorInv, JobInv, TypeInv, Busy
<1>3. stored' = [q \in Regions |-> stored'[q]]
  <2>1. stored = [q \in Regions |-> stored[q]]
    BY <1>2, Zenon DEF TypeInv
  <2> QED
    BY <1>1, <2>1, Zenon
<1>4. TypeInv'
  BY <1>1, <1>2, <1>3, Zenon DEF TypeInv, Busy
<1>5. CallInv' /\ PlaceInv' /\ JobInv' /\ DoneInv'
  BY <1>1, <1>2, Zenon DEF CallInv, PlaceInv, JobInv, DoneInv
<1>6. KeptInv'
  <2>1. HomesApart' = HomesApart
    BY <1>1, HomeStays, Zenon
  <2>2. ASSUME HomesApart, NEW q \in Regions, stored'[q] # None
        PROVE  Inside(q)' /\ stored'[q] = [i \in 1..q.size |-> mem'[Home(q)' + i - 1]]
    <3>1. Home(q)' = Home(q) /\ Inside(q)' = Inside(q)
      BY <1>1, HomeStays, Zenon
    <3>2. CASE w /\ q = r
      <4>1. Inside(q)
        BY <1>2, <3>2, Zenon DEF NorInv, CallInv
      <4>2. Contents(q) = [i \in 1..q.size |-> mem[Home(q) + i - 1]]
        BY <1>2, <4>1, ContentsAreHome, Zenon
      <4>3. q \in DOMAIN stored
        BY <1>2, Zenon DEF TypeInv
      <4>4. stored'[q] = Contents(q)
        BY <1>1, <3>2, <4>3, Zenon
      <4> QED
        BY <1>1, <3>1, <4>1, <4>2, <4>4, Zenon
    <3>3. CASE ~(w /\ q = r)
      <4>1. stored'[q] = stored[q]
        BY <1>1, <1>2, <3>3, Zenon DEF TypeInv
      <4>2. Inside(q) /\ stored[q] = [i \in 1..q.size |-> mem[Home(q) + i - 1]]
        BY <2>2, <4>1, Zenon DEF NorInv, KeptInv
      <4> QED
        BY <1>1, <3>1, <4>1, <4>2, Zenon
    <3> QED
      BY <3>2, <3>3, Zenon
  <2> QED
    BY <1>1, <1>2, <2>1, <2>2, Zenon DEF KeptInv
<1> QED
  BY <1>4, <1>5, <1>6, Zenon DEF NorInv

\* A part of the work of the chip keeps what is stored.
LEMMA EffectKeeps ==
  ASSUME NorInv, NEW done \in SUBSET DOMAIN job.bytes, UNCHANGED <<part, stored>>,
         mem' = Effect(job, done), job' = NoJob
  PROVE  mem' \in [0..(part.size - 1) -> Byte] /\ KeptInv'
<1>1. mem \in [0..(part.size - 1) -> Byte] /\ part.size \in Nat
  BY PartType, Zenon DEF NorInv, TypeInv
<1>2. job = NoJob => done = {}
  BY DEF NoJob
<1>3. job # NoJob => \A b \in done : job.bytes[b] \in Byte
  BY Zenon DEF NorInv, JobInv, Byte
<1>4. mem' = [b \in 0..(part.size - 1) |->
                IF b \notin done THEN mem[b]
                ELSE IF job.kind = "program" /\ mem[b] < job.bytes[b] THEN mem[b] ELSE job.bytes[b]]
  BY <1>1, Zenon DEF Effect
<1>5. mem' \in [0..(part.size - 1) -> Byte]
  BY <1>1, <1>2, <1>3, <1>4, Zenon
<1>6. KeptInv'
  <2>1. HomesApart' = HomesApart
    BY HomeStays, Zenon
  <2>2. ASSUME HomesApart, NEW q \in Regions, stored'[q] # None
        PROVE  Inside(q)' /\ stored'[q] = [i \in 1..q.size |-> mem'[Home(q)' + i - 1]]
    <3>1. Home(q)' = Home(q) /\ Inside(q)' = Inside(q)
      BY HomeStays, Zenon
    <3>2. /\ Inside(q) /\ stored[q] = [i \in 1..q.size |-> mem[Home(q) + i - 1]]
          /\ job # NoJob => DOMAIN job.bytes \cap HomeSpan(q) = {}
      BY <2>2, Zenon DEF NorInv, KeptInv
    <3>3. q.off \in Int /\ q.size \in Nat /\ Home(q) \in Int
      <4>1. q.off \in Int /\ q.size \in Nat
        BY RegionAssumption, Zenon
      <4> QED
        BY <1>1, <4>1 DEF Home
    <3>4. ASSUME NEW i \in 1..q.size PROVE mem'[Home(q) + i - 1] = mem[Home(q) + i - 1]
      <4>1. Home(q) + i - 1 \in HomeSpan(q) /\ Home(q) + i - 1 \in 0..(part.size - 1)
        <5>1. part.size \in Int /\ Home(q) >= 0 /\ Home(q) + q.size <= part.size
          BY <1>1, <3>2 DEF Inside
        <5> HIDE DEF Home
        <5>2. i \in Int /\ 1 <= i /\ i <= q.size /\ Home(q) \in Int /\ q.size \in Int
          BY <3>3
        <5> QED
          BY <5>1, <5>2 DEF HomeSpan
      <4>2. Home(q) + i - 1 \notin done
        BY <1>2, <3>2, <4>1, Zenon
      <4> QED
        BY <1>4, <4>1, <4>2, Zenon
    <3> QED
      BY <3>1, <3>2, <3>4, Zenon
  <2> QED
    BY <2>1, <2>2, Zenon DEF KeptInv
<1> QED
  BY <1>5, <1>6, Zenon

LEMMA FinishStep ==
  ASSUME NorInv, Finish
  PROVE  NorInv'
<1>1. /\ job # NoJob /\ mem' = Effect(job, DOMAIN job.bytes) /\ job' = NoJob
      /\ UNCHANGED <<part, nor, pc, call, addr, left, ret, stored>>
  BY Zenon DEF Finish
<1>2. mem' \in [0..(part.size - 1) -> Byte] /\ KeptInv'
  BY <1>1, EffectKeeps, Zenon
<1>3. TypeInv'
  BY <1>1, <1>2, Zenon DEF NorInv, TypeInv
<1>4. CallInv'
  <2>1. Inside(call.region)' = Inside(call.region)
    BY <1>1, Zenon DEF Inside, Home
  <2> QED
    BY <1>1, <2>1, Zenon DEF NorInv, CallInv
<1>5. PlaceInv'
  <2>1. Home(call.region)' = Home(call.region) /\ Count(call.region)' = Count(call.region)
    BY <1>1, Zenon DEF Home, Count
  <2> QED
    BY <1>1, <2>1, Zenon DEF NorInv, PlaceInv
<1>6. pc # "command" /\ (pc \in Busy => pc = "wait")
  BY <1>1, Zenon DEF NorInv, JobInv, Busy
<1>7. JobInv'
  BY <1>1, <1>6, Zenon DEF JobInv
<1>8. DoneInv'
  <2> SUFFICES ASSUME pc \in Busy PROVE DoneInv'
    BY <1>1, Zenon DEF DoneInv
  <2>1. pc = "wait" /\ job = Ordered
    BY <1>1, <1>6, Zenon DEF NorInv, JobInv
  <2>2. TypeInv /\ CallInv /\ PlaceInv /\ left > 0
    BY <2>1 DEF NorInv, PlaceInv
  <2>3. DOMAIN mem = 0..(part.size - 1) /\ DOMAIN mem' = DOMAIN mem
    BY <1>1, Zenon DEF NorInv, TypeInv, Effect
  <2>4. \A b \in DOMAIN mem : b \notin DOMAIN job.bytes => mem'[b] = mem[b]
    BY <1>1, Zenon DEF Effect
  <2>5. \A b \in DOMAIN job.bytes : b \in DOMAIN mem
    BY <2>1, <2>2, OrderedInside, Zenon
  <2>6. /\ Home(call.region)' = Home(call.region) /\ HomeSpan(call.region)' = HomeSpan(call.region)
        /\ HomeSectors(call.region)' = HomeSectors(call.region)
        /\ Piece' = Piece /\ SectorOf(addr)' = SectorOf(addr)
    <3>1. Home(call.region)' = Home(call.region)
      BY <1>1, Zenon DEF Home
    <3>2. HomeSpan(call.region)' = HomeSpan(call.region)
      BY <1>1, <3>1, Zenon DEF HomeSpan
    <3>3. HomeSectors(call.region)' = HomeSectors(call.region)
      BY <1>1, <3>2 DEF HomeSectors, EraseBytes, SectorOf, Decoded
    <3>4. Piece' = Piece /\ SectorOf(addr)' = SectorOf(addr)
      BY <1>1, Zenon DEF Piece, PageRest, SectorOf
    <3> QED
      BY <3>1, <3>2, <3>3, <3>4, Zenon
  <2>7. CASE call.kind = "write"
    <3>1. /\ addr \in Nat /\ left \in Nat /\ Piece \in 1..left /\ Home(call.region) \in Nat
          /\ HomeSpan(call.region) \subseteq DOMAIN mem
      BY <2>2, <2>3, <2>7, Position, Zenon
    <3>2. DOMAIN job.bytes = addr..(addr + Piece - 1) /\ job.kind = "program"
          /\ \A b \in DOMAIN job.bytes : job.bytes[b] = call.data[b - Home(call.region) + 1]
      BY <2>1, <2>7, Zenon DEF Ordered
    <3>3. \A b \in DOMAIN mem : mem[b] \in Int
      BY <2>2, <2>3 DEF TypeInv, Byte, Erased
    <3>4. \A b \in DOMAIN job.bytes : job.bytes[b] \in Int
      <4>1. 0 \in Int /\ 1 \in Int
        OBVIOUS
      <4>2. \A b \in DOMAIN job.bytes : job.bytes[b] \in Byte
        BY <1>1, <3>2, Zenon DEF NorInv, JobInv
      <4> QED
        BY <4>1, <4>2, Zenon DEF Byte, Erased
    <3>5. ASSUME NEW b \in DOMAIN job.bytes PROVE mem'[b] <= job.bytes[b]
      <4>1. mem'[b] = IF mem[b] < job.bytes[b] THEN mem[b] ELSE job.bytes[b]
        BY <1>1, <2>5, <3>2, Zenon DEF Effect
      <4> QED
        BY <2>5, <3>3, <3>4, <4>1
    <3>6. ASSUME NEW a \in HomeSpan(call.region), a < addr + Piece
          PROVE  mem'[a] <= call.data[a - Home(call.region) + 1]
      <4>1. CASE a < addr
        <5>1. a \notin DOMAIN job.bytes
          BY <3>1, <3>2, <4>1
        <5>2. mem[a] <= call.data[a - Home(call.region) + 1]
          BY <2>7, <4>1, Zenon DEF NorInv, DoneInv
        <5> QED
          BY <2>4, <3>1, <5>1, <5>2, Zenon
      <4>2. CASE ~(a < addr)
        <5>1. a \in DOMAIN job.bytes
          BY <2>3, <3>1, <3>2, <3>6, <4>2
        <5> QED
          BY <3>2, <3>5, <5>1, Zenon
      <4> QED
        BY <4>1, <4>2, Zenon
    <3>7. ASSUME NEW a \in HomeSpan(call.region), a < addr PROVE a < addr + Piece
      BY <2>3, <3>1, <3>7
    <3> QED
      BY <1>1, <2>6, <2>7, <3>6, <3>7, Zenon DEF DoneInv
  <2>8. CASE call.kind = "clear"
    <3>1. job.kind = "erase" /\ DOMAIN job.bytes = DOMAIN EraseBytes(Decoded(addr))
      BY <2>1, <2>2, <2>8, OrderedInside, Zenon DEF Ordered
    <3>2. \A b \in DOMAIN job.bytes : mem'[b] = Erased
      <4> TAKE b \in DOMAIN job.bytes
      <4>1. job.bytes[b] = Erased
        BY <1>1, <3>1, Zenon DEF NorInv, JobInv
      <4> QED
        BY <1>1, <2>5, <3>1, <4>1, Zenon DEF Effect
    <3>3. /\ addr \in Nat /\ part.sector \in Nat \ {0} /\ part.size \in Nat \ {0}
          /\ call.region \in Regions /\ nor # 0
      BY <2>2, <2>8, Position
    <3>4. SectorOf(addr) \in Int /\ part.size % part.sector = 0
      <4>1. addr \in Int /\ addr <= addr
        BY <3>3
      <4> QED
        BY <2>2, <3>3, <4>1, SectorOrder, FlashIsPart, Zenon
    <3>5. ASSUME NEW a \in HomeSpan(call.region), a < SectorOf(addr) + part.sector,
                 NEW b \in DOMAIN EraseBytes(Decoded(a))
          PROVE  mem'[b] = Erased
      <4>1. a \in Nat /\ b \in DOMAIN mem
        <5>1. a \in Nat
          BY <2>2, <3>3, SectorsOfRegion, Zenon
        <5> QED
          BY <2>2, <2>3, <3>3, <3>5, <5>1, SectorInside, Zenon
      <4>2. CASE a < SectorOf(addr)
        <5>1. mem[b] = Erased
          BY <2>8, <3>5, <4>2, Zenon DEF NorInv, DoneInv
        <5> QED
          BY <2>4, <3>2, <4>1, <5>1, Zenon
      <4>3. CASE ~(a < SectorOf(addr))
        <5>1. SectorOf(addr) <= a
          BY <3>4, <4>1, <4>3
        <5>2. SectorOf(a) = SectorOf(addr)
          BY <3>3, <3>5, <4>1, <5>1, SameSector, Zenon
        <5>3. SectorOf(Decoded(a)) = SectorOf(Decoded(addr))
          BY <3>3, <3>4, <4>1, <5>2, SectorDecoded, Zenon
        <5>4. DOMAIN EraseBytes(Decoded(a)) = DOMAIN EraseBytes(Decoded(addr))
          BY <5>3, Zenon DEF EraseBytes
        <5> QED
          BY <3>1, <3>2, <3>5, <5>4, Zenon
      <4> QED
        BY <4>2, <4>3
    <3>6. ASSUME NEW a \in HomeSpan(call.region), a < SectorOf(addr) PROVE a < SectorOf(addr) + part.sector
      <4>1. a \in Nat
        BY <2>2, <3>3, SectorsOfRegion, Zenon
      <4> QED
        BY <3>3, <3>4, <3>6, <4>1
    <3>7. \A a : DOMAIN EraseBytes(Decoded(a))' = DOMAIN EraseBytes(Decoded(a))
      BY <1>1 DEF EraseBytes, SectorOf, Decoded
    <3> QED
      BY <1>1, <2>6, <2>8, <3>5, <3>6, <3>7, Zenon DEF DoneInv
  <2>9. CASE call.kind = "chip"
    <3>1. job.kind = "erase" /\ DOMAIN job.bytes = DOMAIN mem
      BY <2>1, <2>2, <2>9, OrderedInside, Zenon DEF Ordered
    <3>2. \A b \in DOMAIN mem : mem'[b] = Erased
      <4> TAKE b \in DOMAIN mem
      <4>1. job.bytes[b] = Erased
        BY <1>1, <3>1, Zenon DEF NorInv, JobInv
      <4> QED
        BY <1>1, <2>5, <3>1, <4>1, Zenon DEF Effect
    <3> QED
      BY <1>1, <2>3, <2>9, <3>2, Zenon DEF DoneInv
  <2> QED
    BY <2>2, <2>7, <2>8, <2>9, Zenon DEF CallInv
<1> QED
  BY <1>2, <1>3, <1>4, <1>5, <1>7, <1>8, Zenon DEF NorInv

\* A reset forgets the call, and what the chip has begun goes on or ends.
LEMMA RestartStep ==
  ASSUME NorInv, Restart, mem' \in [0..(part.size - 1) -> Byte], KeptInv', job' \in {job, NoJob}
  PROVE  NorInv'
<1>1. /\ pc' = "start" /\ nor' = 0 /\ call' = NoCall /\ ret' = "none" /\ UNCHANGED <<part, stored>>
  BY Zenon DEF Restart
<1>2. pc' \notin Busy
  BY <1>1, Zenon DEF Busy
<1>3. TypeInv'
  BY <1>1, <1>2, Zenon DEF NorInv, TypeInv
<1>4. CallInv' /\ PlaceInv' /\ DoneInv'
  BY <1>1, <1>2, Zenon DEF CallInv, PlaceInv, DoneInv
<1>5. DOMAIN mem' = DOMAIN mem
  BY Zenon DEF NorInv, TypeInv
<1>6. JobInv'
  BY <1>1, <1>5, Zenon DEF NorInv, JobInv
<1> QED
  BY <1>3, <1>4, <1>6, Zenon DEF NorInv

LEMMA WatchdogResetStep ==
  ASSUME NorInv, WatchdogReset
  PROVE  NorInv'
<1>1. Restart /\ UNCHANGED <<part, mem, job, stored>>
  BY Zenon DEF WatchdogReset, Restart, chipVars
<1>2. mem' \in [0..(part.size - 1) -> Byte] /\ KeptInv'
  BY <1>1, KeptStays, Zenon DEF NorInv, TypeInv
<1> QED
  BY <1>1, <1>2, RestartStep, Zenon

LEMMA PowerCutStep ==
  ASSUME NorInv, PowerCut
  PROVE  NorInv'
<1>1. Restart /\ UNCHANGED <<part, stored>> /\ job' = NoJob
  BY Zenon DEF PowerCut, Restart
<1>2. PICK end \in DOMAIN mem : mem' = Effect(job, {b \in DOMAIN job.bytes : b < end})
  BY Zenon DEF PowerCut
<1>3. mem' \in [0..(part.size - 1) -> Byte] /\ KeptInv'
  <2>1. {b \in DOMAIN job.bytes : b < end} \in SUBSET DOMAIN job.bytes
    BY Zenon
  <2> QED
    BY <1>1, <1>2, <2>1, EffectKeeps, Zenon
<1> QED
  BY <1>1, <1>3, RestartStep, Zenon

LEMMA StepNor == NorInv /\ [Next]_vars => NorInv'
<1> SUFFICES ASSUME NorInv, [Next]_vars PROVE NorInv'
  BY Zenon
<1>1. CASE Driver
  BY <1>1, QspiInitStep, SpiNorIdentifyStep, SpiNorSettleStep, WriteEnableStep, CommandStep, ReadWipStep,
     WriteDisableStep, VerifyStep, Zenon DEF Driver
<1>2. CASE \E r \in Regions : EnvIoSpiClear(r)
  BY <1>2, EnvIoSpiClearStep, Zenon
<1>3. CASE \E r \in Regions, d \in Patterns : EnvIoSpiWrite(r, d)
  BY <1>3, EnvIoSpiWriteStep, Zenon
<1>4. CASE SpiNorEraseChip \/ Finish \/ WatchdogReset \/ PowerCut
  BY <1>4, SpiNorEraseChipStep, FinishStep, WatchdogResetStep, PowerCutStep, Zenon
<1>5. CASE UNCHANGED vars
  <2>1. /\ UNCHANGED <<part, mem, wel, job, nor, pc, call, addr, left, ret, stored>>
    BY <1>5, Zenon DEF vars, chipVars
  <2>2. TypeInv' /\ JobInv'
    <3>1. Ordered' = Ordered
      BY <2>1, Zenon DEF Ordered, Piece, PageRest, Home, EraseBytes, BulkBytes, SectorOf, Decoded
    <3> QED
      BY <2>1, <3>1, Zenon DEF NorInv, TypeInv, JobInv
  <2>3. KeptInv'
    BY <2>1, KeptStays, Zenon DEF NorInv
  <2>4. CallInv' /\ PlaceInv' /\ DoneInv'
    <3>1. /\ Home(call.region)' = Home(call.region) /\ HomeSpan(call.region)' = HomeSpan(call.region)
          /\ HomeSectors(call.region)' = HomeSectors(call.region)
          /\ Inside(call.region)' = Inside(call.region) /\ Count(call.region)' = Count(call.region)
      <4>1. Home(call.region)' = Home(call.region)
        BY <2>1, Zenon DEF Home
      <4>2. HomeSpan(call.region)' = HomeSpan(call.region)
        BY <2>1, <4>1, Zenon DEF HomeSpan
      <4>3. HomeSectors(call.region)' = HomeSectors(call.region)
        BY <2>1, <4>2 DEF HomeSectors, EraseBytes, SectorOf, Decoded
      <4>4. Inside(call.region)' = Inside(call.region) /\ Count(call.region)' = Count(call.region)
        BY <2>1, <4>1, Zenon DEF Inside, Count
      <4> QED
        BY <4>1, <4>2, <4>3, <4>4, Zenon
    <3>2. /\ Piece' = Piece /\ SectorOf(addr)' = SectorOf(addr) /\ Ended' = Ended
          /\ \A a : DOMAIN EraseBytes(Decoded(a))' = DOMAIN EraseBytes(Decoded(a))
      BY <2>1, Zenon DEF Piece, PageRest, Ended, EraseBytes, SectorOf, Decoded
    <3>3. CallInv' /\ PlaceInv'
      BY <2>1, <3>1, Zenon DEF NorInv, CallInv, PlaceInv
    <3>4. DoneInv'
      BY <2>1, <3>1, <3>2, Zenon DEF NorInv, DoneInv
    <3> QED
      BY <3>3, <3>4
  <2> QED
    BY <2>2, <2>3, <2>4, Zenon DEF NorInv
<1> QED
  BY <1>1, <1>2, <1>3, <1>4, <1>5, Zenon DEF Next

\* The invariant of the driver and the chip, on every board the assumptions allow.
THEOREM NorInvariant == Spec => []NorInv
<1>1. Init => NorInv
  BY InitNor
<1>2. NorInv /\ [Next]_vars => NorInv'
  BY StepNor
<1> QED
  BY <1>1, <1>2, PTL DEF Spec

\* What env_io_spi_write has reported as written is read until it is replaced, on
\* every chip of the table, with any environments, any data and any resets.
THEOREM StoredSurvivesInvariant == Spec => []StoredSurvives
<1>1. NorInv => StoredSurvives
  <2> SUFFICES ASSUME NorInv, nor # 0, Apart, NEW r \in Regions, stored[r] # None
               PROVE  Contents(r) = stored[r]
    BY DEF StoredSurvives
  <2>1. TypeInv
    BY DEF NorInv
  <2>2. HomesApart
    <3>1. \A q \in Regions : SectorSpan(q) = HomeSectors(q)
      BY <2>1, HomeIsOffset, Zenon
    <3> QED
      BY <3>1 DEF Apart, HomesApart
  <2>3. Inside(r) /\ stored[r] = [i \in 1..r.size |-> mem[Home(r) + i - 1]]
    BY <2>2, Zenon DEF NorInv, KeptInv
  <2>4. Contents(r) = [i \in 1..r.size |-> mem[Home(r) + i - 1]]
    BY <2>1, <2>3, ContentsAreHome, Zenon
  <2> QED
    BY <2>3, <2>4, Zenon
<1> QED
  BY <1>1, NorInvariant, PTL
-----------------------------------------------------------------------------
(***************************************************************************)
(* The driver and the chip implement NorStore.                             *)
(***************************************************************************)

\* The operation a call stands for, by the place of its region.
CallOp ==
  IF call.kind = "write" THEN [a \in HomeSpan(call.region) |-> call.data[a - Home(call.region) + 1]]
  ELSE IF call.kind = "clear" THEN [a \in HomeSectors(call.region) |-> 2]
  ELSE [a \in DOMAIN mem |-> 2]

LEMMA UnderWayBusy ==
  ASSUME NorInv, pc \in Busy
  PROVE  /\ UnderWay = CallOp /\ UnderWay # <<>> /\ DOMAIN UnderWay \subseteq DOMAIN mem
         /\ call.kind = "write" => DOMAIN UnderWay = HomeSpan(call.region)
         /\ call.kind = "clear" => DOMAIN UnderWay = HomeSectors(call.region)
         /\ call.kind = "chip" => DOMAIN UnderWay = DOMAIN mem
<1>1. TypeInv /\ nor # 0 /\ call.kind \in {"write", "clear", "chip"} /\ DOMAIN mem = 0..(part.size - 1)
  BY Zenon DEF NorInv, TypeInv, CallInv
<1>2. part.size \in Nat \ {0}
  BY <1>1, PartType
<1>3. ASSUME call.kind # "chip"
      PROVE  /\ Offset(call.region) = Home(call.region) /\ Span(call.region) = HomeSpan(call.region)
             /\ SectorSpan(call.region) = HomeSectors(call.region)
             /\ call.kind = "write" => HomeSpan(call.region) \subseteq HomeSectors(call.region)
             /\ HomeSectors(call.region) \subseteq DOMAIN mem /\ HomeSectors(call.region) # {}
             /\ Home(call.region) \in HomeSpan(call.region)
  <2>1. call.region \in Regions /\ (call.kind = "write" => Inside(call.region))
    BY <1>3, Zenon DEF NorInv, CallInv
  <2>2. /\ Offset(call.region) = Home(call.region) /\ Span(call.region) = HomeSpan(call.region)
        /\ SectorSpan(call.region) = HomeSectors(call.region)
        /\ Home(call.region) \in Nat /\ call.region.size \in Nat \ {0}
    BY <1>1, <2>1, HomeIsOffset, Zenon
  <2>3. /\ call.kind = "write" => HomeSpan(call.region) \subseteq HomeSectors(call.region)
        /\ HomeSectors(call.region) \subseteq DOMAIN mem
    BY <1>1, <2>1, SectorsOfRegion, Zenon
  <2>4. Home(call.region) \in HomeSpan(call.region)
    BY <2>2 DEF HomeSpan
  <2>5. HomeSectors(call.region) # {}
    <3> DEFINE d == Decoded(Home(call.region))
    <3>1. d \in Int /\ part.sector \in Nat \ {0}
      <4>1. Home(call.region) \in Int
        BY <2>2
      <4> QED
        BY <1>1, <1>2, <4>1, ModRange, PartType DEF Decoded
    <3> HIDE DEF d
    <3>2. SectorOf(d) \in Int
      BY <3>1, SectorOrder
    <3>3. SectorOf(d) \in SectorOf(d)..(SectorOf(d) + part.sector - 1)
      BY <3>1, <3>2
    <3>4. SectorOf(d) \in DOMAIN EraseBytes(d)
      BY <3>3, Zenon DEF EraseBytes
    <3> QED
      BY <2>4, <3>4, Zenon DEF HomeSectors, d
  <2> QED
    BY <2>2, <2>3, <2>4, <2>5, Zenon
<1>4. UnderWay = CallOp
  BY <1>1, <1>3, Zenon DEF UnderWay, CallOp
<1>5. /\ call.kind = "write" => DOMAIN CallOp = HomeSpan(call.region)
      /\ call.kind = "clear" => DOMAIN CallOp = HomeSectors(call.region)
      /\ call.kind = "chip" => DOMAIN CallOp = DOMAIN mem
  BY Zenon DEF CallOp
<1>6. DOMAIN CallOp # {} /\ DOMAIN CallOp \subseteq DOMAIN mem
  <2>1. 0 \in DOMAIN mem
    BY <1>1, <1>2
  <2> QED
    BY <1>1, <1>3, <1>5, <2>1, Zenon
<1>7. CallOp # <<>>
  BY <1>6
<1> QED
  BY <1>4, <1>5, <1>6, <1>7, Zenon

LEMMA UnderWayIdle ==
  ASSUME call = NoCall
  PROVE  UnderWay = JobOp /\ (job = NoJob => UnderWay = <<>>) /\ DOMAIN UnderWay = DOMAIN job.bytes
<1>1. UnderWay = JobOp
  BY Zenon DEF UnderWay, NoCall
<1> QED
  BY <1>1 DEF JobOp, NoJob

LEMMA InitStore == Init => Store!Init
<1> SUFFICES ASSUME Init PROVE Store!Init
  OBVIOUS
<1>1. /\ call = NoCall /\ job = NoJob /\ ret = "none" /\ part \in Fitted
  BY Zenon DEF Init
<1>2. UnderWay = <<>>
  BY <1>1, UnderWayIdle
<1>3. mem \in [DOMAIN mem -> {0, 1}]
  BY Zenon DEF Init, Erased
<1> QED
  BY <1>1, <1>2, <1>3 DEF Store!Init, Store!NoOp, Store!Byte, Store!Erased

\* The steps the users of the flash do not see.
LEMMA BootRefines ==
  ASSUME NorInv, pc \notin Busy, UNCHANGED <<mem, job, call, ret>>
  PROVE  UNCHANGED Store!vars
<1>1. call = NoCall /\ call' = NoCall
  BY Zenon DEF NorInv, CallInv
<1>2. UnderWay = JobOp /\ UnderWay' = JobOp'
  BY <1>1 DEF UnderWay, NoCall
<1>3. JobOp' = JobOp
  BY Zenon DEF JobOp
<1> QED
  BY <1>2, <1>3 DEF Store!vars

LEMMA UnderWayKept ==
  ASSUME UNCHANGED <<part, nor, call>>, DOMAIN mem' = DOMAIN mem,
         call.kind \in {"write", "clear", "chip"} \/ UNCHANGED job
  PROVE  UnderWay' = UnderWay
<1>1. ASSUME NEW r PROVE Offset(r)' = Offset(r)
  BY Zenon DEF Offset, Flash
<1>2. ASSUME NEW r PROVE Span(r)' = Span(r)
  BY <1>1, Zenon DEF Span
<1>3. ASSUME NEW a PROVE EraseBytes(Reached(a))' = EraseBytes(Reached(a))
  BY Zenon DEF EraseBytes, SectorOf, Decoded, Reached, Sent, Flash
<1>4. ASSUME NEW r PROVE SectorSpan(r)' = SectorSpan(r)
  BY <1>2, <1>3, Zenon DEF SectorSpan
<1>5. UNCHANGED job => JobOp' = JobOp
  BY Zenon DEF JobOp
<1>6. CASE call.kind = "write"
  BY <1>1, <1>2, <1>6, Zenon DEF UnderWay
<1>7. CASE call.kind = "clear"
  BY <1>4, <1>7, Zenon DEF UnderWay
<1>8. CASE call.kind = "chip"
  BY <1>8, Zenon DEF UnderWay
<1>9. CASE call.kind \notin {"write", "clear", "chip"}
  BY <1>5, <1>9, Zenon DEF UnderWay
<1> QED
  BY <1>6, <1>7, <1>8, <1>9, Zenon

LEMMA BusyRefines ==
  ASSUME NorInv, NorInv', pc \in Busy, pc' \in Busy, UNCHANGED <<part, call>>, DOMAIN mem' = DOMAIN mem
  PROVE  UnderWay' = UnderWay
<1>1. nor # 0 /\ nor' # 0 /\ nor = Lookup(part) /\ nor' = Lookup(part')
  BY Zenon DEF NorInv, TypeInv
<1>2. nor' = nor
  BY <1>1, Zenon DEF Lookup
<1>3. call.kind \in {"write", "clear", "chip"}
  BY Zenon DEF NorInv, CallInv
<1> QED
  BY <1>2, <1>3, UnderWayKept, Zenon

LEMMA BusyOp == NorInv /\ pc \in Busy => UnderWay # <<>> /\ DOMAIN UnderWay \subseteq DOMAIN mem
BY UnderWayBusy, Zenon

LEMMA BusyOpNext == NorInv' /\ pc' \in Busy => UnderWay' # <<>> /\ DOMAIN UnderWay' \subseteq DOMAIN mem'
<1>1. (NorInv /\ pc \in Busy => UnderWay # <<>> /\ DOMAIN UnderWay \subseteq DOMAIN mem)'
  BY BusyOp, PTL
<1> QED
  BY <1>1, Zenon DEF Busy

\* A call begins.
LEMMA CallRefines ==
  ASSUME NorInv, NorInv', pc = "ready", pc' = "wren", ret' = "none", mem' = mem
  PROVE  Store!Begin
<1>1. job = NoJob /\ call = NoCall
  BY ReadyIdle, Zenon
<1>2. UnderWay = <<>>
  BY <1>1, UnderWayIdle, Zenon
<1>3. pc' \in Busy
  BY DEF Busy
<1>4. UnderWay' # <<>> /\ DOMAIN UnderWay' \subseteq DOMAIN mem'
  BY <1>3, BusyOpNext, Zenon
<1> QED
  BY <1>2, <1>4, Zenon DEF Store!Begin, Store!NoOp

\* When a call returns, every byte of its range has been dealt with.
LEMMA AllDone ==
  ASSUME NorInv, pc = "verify"
  PROVE  /\ call.kind = "write" =>
              \A a \in HomeSpan(call.region) : mem[a] <= call.data[a - Home(call.region) + 1]
         /\ call.kind = "clear" => \A a \in HomeSectors(call.region) : mem[a] = Erased
         /\ call.kind = "chip" => \A a \in DOMAIN mem : mem[a] = Erased
<1>1. pc \in Busy /\ left = 0 /\ addr \in Nat /\ TypeInv /\ nor # 0
  BY Zenon DEF NorInv, PlaceInv, TypeInv, Busy
<1>2. ASSUME call.kind # "chip"
      PROVE  /\ call.region \in Regions /\ Home(call.region) \in Nat
             /\ call.region.size \in Nat \ {0} /\ Count(call.region) \in Nat
  <2>1. call.region \in Regions
    BY <1>1, <1>2, Zenon DEF NorInv, CallInv
  <2> QED
    BY <1>1, <2>1, HomeIsOffset, Zenon
<1>3. CASE call.kind = "write"
  <2>1. addr = Home(call.region) + call.region.size
    BY <1>1, <1>3 DEF NorInv, PlaceInv
  <2>2. \A a \in HomeSpan(call.region) : a < addr
    BY <1>2, <1>3, <2>1 DEF HomeSpan
  <2> QED
    BY <1>1, <1>3, <2>2, Zenon DEF NorInv, DoneInv
<1>4. CASE call.kind = "clear"
  <2> DEFINE s == part.sector
             h == Home(call.region)
             m == Count(call.region) * s
  <2>1. s \in Nat \ {0} /\ m \in Int /\ h \in Int
    BY <1>1, <1>2, <1>4, PartType
  <2>2. addr % s = h % s /\ addr = h + m
    <3>1. left * s = 0
      BY <1>1, <2>1
    <3>2. addr % s = h % s /\ addr + left * s = h + m
      BY <1>1, <1>4, Zenon DEF NorInv, PlaceInv
    <3> QED
      BY <1>1, <2>1, <3>1, <3>2
  <2>3. SectorOf(addr) = SectorOf(h) + m
    <3>1. h % s \in Int
      BY <2>1
    <3>2. SectorOf(addr) = addr - (addr % s) /\ SectorOf(h) = h - (h % s)
      BY Zenon DEF SectorOf
    <3> HIDE DEF s, h, m
    <3> QED
      BY <2>1, <2>2, <3>1, <3>2
  <2>4. \A a \in HomeSpan(call.region) : a < SectorOf(addr)
    BY <1>1, <1>2, <1>4, <2>3, SectorsOfRegion, Zenon
  <2>5. \A a \in HomeSpan(call.region) : \A b \in DOMAIN EraseBytes(Decoded(a)) : mem[b] = Erased
    BY <1>1, <1>4, <2>4, Zenon DEF NorInv, DoneInv
  <2> QED
    BY <1>4, <2>5, Zenon DEF HomeSectors
<1>5. CASE call.kind = "chip"
  BY <1>1, <1>5, Zenon DEF NorInv, DoneInv
<1> QED
  BY <1>1, <1>3, <1>4, <1>5, Zenon DEF NorInv, CallInv

LEMMA VerifyRefines ==
  ASSUME NorInv, Verify
  PROVE  Store!Return
<1>1. /\ pc = "verify" /\ pc \in Busy /\ call' = NoCall /\ UNCHANGED <<mem, job>>
      /\ ret' = IF call.kind = "write" /\ ~(Contents(call.region) = call.data) THEN "differs" ELSE "ok"
  BY Zenon DEF Verify, Goto, chipVars, ReadAfterWrite, Busy
<1>2. job = NoJob /\ TypeInv /\ nor # 0
  BY <1>1, Zenon DEF NorInv, JobInv, TypeInv
<1>3. UnderWay # <<>> /\ UnderWay = CallOp /\ DOMAIN UnderWay \subseteq DOMAIN mem
  BY <1>1, UnderWayBusy, Zenon
<1>4. UnderWay' = <<>>
  BY <1>1, <1>2, Zenon DEF UnderWay, JobOp, NoCall, NoJob
<1>5. CASE call.kind = "write"
  <2> DEFINE h == Home(call.region)
             z == call.region.size
  <2>1. /\ call.region \in Regions /\ Inside(call.region) /\ call.data \in [1..z -> Byte]
        /\ h \in Nat /\ z \in Nat
    <3>1. call.region \in Regions /\ Inside(call.region) /\ call.data \in [1..z -> Byte]
      BY <1>1, <1>5, Zenon DEF NorInv, CallInv
    <3> QED
      BY <1>2, <3>1, HomeIsOffset, Zenon
  <2>2. DOMAIN UnderWay = HomeSpan(call.region) /\ HomeSpan(call.region) \subseteq DOMAIN mem
        /\ \A a \in HomeSpan(call.region) : UnderWay[a] = call.data[a - h + 1]
    BY <1>1, <1>3, <1>5, UnderWayBusy, Zenon DEF CallOp
  <2>3. ASSUME NEW a \in HomeSpan(call.region)
        PROVE  mem[a] \in {0, 1} /\ UnderWay[a] \in {0, 1} /\ mem[a] <= UnderWay[a]
    <3>1. a - h + 1 \in 1..z
      BY <2>1, SpanIndex, Zenon DEF HomeSpan
    <3>2. call.data[a - h + 1] \in {0, 1}
      BY <2>1, <3>1, Zenon DEF Byte, Erased
    <3>3. mem[a] \in {0, 1}
      BY <1>2, <2>2, Zenon DEF TypeInv, Byte, Erased
    <3>4. mem[a] <= call.data[a - h + 1]
      BY <1>1, <1>5, AllDone, Zenon
    <3> QED
      BY <2>2, <3>2, <3>3, <3>4, Zenon
  <2>4. \A a \in DOMAIN UnderWay : mem[a] = Store!Target(mem[a], UnderWay[a])
    BY <2>2, <2>3 DEF Store!Target, Store!Erase
  <2>5. (Contents(call.region) = call.data) <=> \A a \in HomeSpan(call.region) : UnderWay[a] = mem[a]
    <3>1. Contents(call.region) = [i \in 1..z |-> mem[h + i - 1]]
      BY <1>2, <2>1, ContentsAreHome, Zenon
    <3>2. call.data = [i \in 1..z |-> call.data[i]]
      BY <2>1, Zenon
    <3>3. ASSUME Contents(call.region) = call.data, NEW a \in HomeSpan(call.region) PROVE UnderWay[a] = mem[a]
      <4>1. a - h + 1 \in 1..z /\ h + (a - h + 1) - 1 = a
        <5>1. \A b \in h..(h + z - 1) : b - h + 1 \in 1..z /\ h + (b - h + 1) - 1 = b
          BY <2>1, SpanIndex, Zenon
        <5> QED
          BY <5>1, Zenon DEF HomeSpan
      <4>2. Contents(call.region)[a - h + 1] = mem[a]
        BY <3>1, <4>1, Zenon
      <4> QED
        BY <2>2, <3>3, <4>2, Zenon
    <3>4. ASSUME \A a \in HomeSpan(call.region) : UnderWay[a] = mem[a], NEW i \in 1..z
          PROVE  mem[h + i - 1] = call.data[i]
      <4>1. h + i - 1 \in HomeSpan(call.region) /\ (h + i - 1) - h + 1 = i
        <5>1. \A j \in 1..z : h + j - 1 \in h..(h + z - 1) /\ (h + j - 1) - h + 1 = j
          BY <2>1, SpanIndex, Zenon
        <5> QED
          BY <5>1, Zenon DEF HomeSpan
      <4>2. UnderWay[h + i - 1] = call.data[i]
        BY <2>2, <4>1, Zenon
      <4> QED
        BY <3>4, <4>1, <4>2, Zenon
    <3> QED
      BY <3>1, <3>2, <3>3, <3>4, Zenon
  <2>6. (\A a \in DOMAIN UnderWay : UnderWay[a] \in {2, mem[a]}) <=> \A a \in HomeSpan(call.region) : UnderWay[a] = mem[a]
    BY <2>2, <2>3
  <2>7. ret' = IF \A a \in DOMAIN UnderWay : UnderWay[a] \in {2, mem[a]} THEN "ok" ELSE "differs"
    BY <1>1, <1>5, <2>5, <2>6, Zenon
  <2> QED
    BY <1>1, <1>3, <1>4, <2>4, <2>7, Zenon DEF Store!Return, Store!Complete, Store!NoOp, Store!Erase
<1>6. CASE call.kind # "write"
  <2>1. \A a \in DOMAIN UnderWay : UnderWay[a] = 2 /\ mem[a] = 1
    <3>1. call.kind \in {"clear", "chip"}
      BY <1>1, <1>6, Zenon DEF NorInv, CallInv
    <3> QED
      BY <1>1, <1>3, <3>1, AllDone, Zenon DEF CallOp, Erased
  <2>2. \A a \in DOMAIN UnderWay : mem[a] = Store!Target(mem[a], UnderWay[a])
    BY <2>1, Zenon DEF Store!Target, Store!Erase, Store!Erased
  <2>3. ret' = "ok"
    BY <1>1, <1>6, Zenon
  <2> QED
    BY <1>1, <1>3, <1>4, <2>1, <2>2, <2>3, Zenon DEF Store!Return, Store!Complete, Store!NoOp, Store!Erase
<1> QED
  BY <1>5, <1>6, Zenon

\* What the chip is doing is part of the operation under way.
LEMMA JobOfCall ==
  ASSUME NorInv
  PROVE  \A a \in DOMAIN JobOp : a \in DOMAIN UnderWay /\ JobOp[a] = UnderWay[a]
<1>1. CASE job = NoJob
  <2>1. DOMAIN JobOp = {}
    BY <1>1 DEF JobOp, NoJob
  <2> QED
    BY <2>1, Zenon
<1>2. CASE job # NoJob /\ pc \notin Busy
  <2>1. call = NoCall
    BY <1>2, Zenon DEF NorInv, CallInv
  <2> QED
    BY <2>1, UnderWayIdle, Zenon
<1>3. CASE job # NoJob /\ pc \in Busy
  <2>1. pc = "wait" /\ job = Ordered /\ left > 0 /\ TypeInv /\ CallInv /\ PlaceInv
    BY <1>3 DEF NorInv, JobInv, PlaceInv, Busy
  <2>2. UnderWay = CallOp /\ call.kind \in {"write", "clear", "chip"}
    BY <1>3, UnderWayBusy, Zenon DEF NorInv, CallInv
  <2>3. CASE call.kind = "write"
    <3>1. JobOp = [b \in addr..(addr + Piece - 1) |-> call.data[b - Home(call.region) + 1]]
      BY <2>1, <2>3, Zenon DEF JobOp, Ordered
    <3>2. addr..(addr + Piece - 1) \subseteq HomeSpan(call.region)
      BY <1>3, <2>1, <2>3, OrderedInside, Zenon
    <3> QED
      BY <2>2, <2>3, <3>1, <3>2, Zenon DEF CallOp
  <2>4. CASE call.kind = "clear"
    <3>1. JobOp = [b \in DOMAIN Ordered.bytes |-> 2]
      BY <2>1, <2>4, Zenon DEF JobOp, Ordered
    <3>2. DOMAIN Ordered.bytes \subseteq HomeSectors(call.region)
      BY <1>3, <2>1, <2>4, OrderedInside, Zenon
    <3> QED
      BY <2>2, <2>4, <3>1, <3>2, Zenon DEF CallOp
  <2>5. CASE call.kind = "chip"
    <3>1. JobOp = [b \in DOMAIN Ordered.bytes |-> 2]
      BY <2>1, <2>5, Zenon DEF JobOp, Ordered
    <3>2. DOMAIN Ordered.bytes \subseteq DOMAIN mem
      BY <1>3, <2>1, <2>5, OrderedInside, Zenon
    <3> QED
      BY <2>2, <2>5, <3>1, <3>2, Zenon DEF CallOp
  <2> QED
    BY <2>2, <2>3, <2>4, <2>5, Zenon
<1> QED
  BY <1>1, <1>2, <1>3, Zenon

\* A part of the work of the chip, seen by the users of the flash.
LEMMA EffectTakes ==
  ASSUME NorInv, NEW done \in SUBSET DOMAIN job.bytes, mem' = Effect(job, done)
  PROVE  Store!Takes /\ (job = NoJob => mem' = mem)
<1>1. DOMAIN mem' = DOMAIN mem
  BY Zenon DEF Effect
<1>2. mem = [b \in DOMAIN mem |-> mem[b]] /\ \A b \in DOMAIN mem : mem[b] \in {0, 1}
  BY Zenon DEF NorInv, TypeInv, Byte, Erased
<1>3. job = NoJob => mem' = mem
  <2>1. job = NoJob => done = {}
    BY DEF NoJob
  <2> QED
    BY <1>2, <2>1, Zenon DEF Effect
<1>4. ASSUME NEW a \in DOMAIN mem, mem'[a] # mem[a]
      PROVE  a \in DOMAIN UnderWay /\ mem'[a] = Store!Target(mem[a], UnderWay[a])
  <2>1. a \in done /\ job # NoJob
    <3>1. a \in done
      BY <1>4, Zenon DEF Effect
    <3> QED
      BY <1>3, <1>4, <3>1, Zenon
  <2>2. mem'[a] = IF job.kind = "program" /\ mem[a] < job.bytes[a] THEN mem[a] ELSE job.bytes[a]
    BY <1>4, <2>1, Zenon DEF Effect
  <2>3. /\ job.kind \in {"program", "erase"}
        /\ job.kind = "program" => job.bytes[a] \in {0, 1}
        /\ job.kind = "erase" => job.bytes[a] = 1
    BY <2>1, Zenon DEF NorInv, JobInv, Byte, Erased
  <2>4. /\ a \in DOMAIN JobOp
        /\ job.kind = "erase" => JobOp[a] = 2
        /\ job.kind = "program" => JobOp[a] = job.bytes[a]
    BY <2>1, Zenon DEF JobOp
  <2>5. a \in DOMAIN UnderWay /\ JobOp[a] = UnderWay[a]
    BY <2>4, JobOfCall, Zenon
  <2>6. CASE job.kind = "erase"
    BY <2>2, <2>3, <2>4, <2>5, <2>6, Zenon DEF Store!Target, Store!Erase, Store!Erased
  <2>7. CASE job.kind = "program"
    <3>1. UnderWay[a] = job.bytes[a] /\ UnderWay[a] # 2
      BY <2>3, <2>4, <2>5, <2>7
    <3> QED
      BY <1>2, <1>4, <2>2, <2>3, <2>5, <2>7, <3>1 DEF Store!Target, Store!Erase
  <2> QED
    BY <2>3, <2>6, <2>7, Zenon
<1> QED
  BY <1>1, <1>3, <1>4, Zenon DEF Store!Takes

LEMMA FinishRefines ==
  ASSUME NorInv, NorInv', Finish
  PROVE  Store!Next \/ UNCHANGED Store!vars
<1>1. /\ job # NoJob /\ mem' = Effect(job, DOMAIN job.bytes) /\ job' = NoJob
      /\ UNCHANGED <<part, nor, pc, call, ret>>
  BY Zenon DEF Finish
<1>2. Store!Takes /\ DOMAIN mem' = DOMAIN mem
  BY <1>1, EffectTakes, Zenon DEF Effect
<1>3. CASE pc \in Busy
  <2>1. UnderWay' = UnderWay
    BY <1>1, <1>2, <1>3, BusyRefines, Zenon
  <2>2. UnderWay # <<>>
    BY <1>3, UnderWayBusy, Zenon
  <2>3. Store!Proceed
    BY <1>1, <1>2, <2>1, <2>2, Zenon DEF Store!Proceed, Store!NoOp
  <2> QED
    BY <2>3 DEF Store!Next
<1>4. CASE pc \notin Busy
  <2>1. call = NoCall /\ ret = "none"
    BY <1>1, <1>4, Zenon DEF NorInv, CallInv, JobInv, Busy
  <2>2. UnderWay' = <<>>
    BY <1>1, <2>1, Zenon DEF UnderWay, JobOp, NoCall, NoJob
  <2>3. CASE UnderWay # <<>>
    <3>1. Store!Abandon
      BY <1>1, <1>2, <2>1, <2>2, <2>3 DEF Store!Abandon, Store!NoOp
    <3> QED
      BY <3>1, Zenon DEF Store!Next
  <2>4. CASE UnderWay = <<>>
    <3>1. mem' = mem
      <4>1. \A a \in DOMAIN mem : mem'[a] = mem[a]
        BY <1>2, <2>4 DEF Store!Takes
      <4>2. mem = [a \in DOMAIN mem |-> mem[a]] /\ mem' = [a \in DOMAIN mem |-> mem'[a]]
        BY <1>1, Zenon DEF NorInv, TypeInv, Effect
      <4> QED
        BY <4>1, <4>2, Zenon
    <3> QED
      BY <1>1, <2>2, <2>4, <3>1, Zenon DEF Store!vars
  <2> QED
    BY <2>3, <2>4, Zenon
<1> QED
  BY <1>3, <1>4, Zenon

LEMMA RestartRefines ==
  ASSUME NorInv, Restart, Store!Takes, job = NoJob => mem' = mem, job' \in {job, NoJob},
         UnderWay = <<>> => mem' = mem
  PROVE  Store!Next
<1>1. call' = NoCall /\ ret' = "none"
  BY Zenon DEF Restart
<1>2. UnderWay' = JobOp'
  BY <1>1, Zenon DEF UnderWay, NoCall
<1>3. \A a \in DOMAIN UnderWay' : a \in DOMAIN UnderWay /\ UnderWay'[a] = UnderWay[a]
  <2>1. JobOp' = JobOp \/ DOMAIN JobOp' = {}
    BY DEF JobOp, NoJob
  <2> QED
    BY <1>2, <2>1, JobOfCall, Zenon
<1>4. CASE UnderWay # <<>>
  <2>1. Store!Abandon
    BY <1>1, <1>3, <1>4, Zenon DEF Store!Abandon, Store!NoOp
  <2> QED
    BY <2>1 DEF Store!Next
<1>5. CASE UnderWay = <<>>
  <2>1. UnderWay' = <<>>
    <3>1. pc \notin Busy
      BY <1>5, UnderWayBusy, Zenon
    <3>2. UnderWay = JobOp
      BY <3>1, UnderWayIdle, Zenon DEF NorInv, CallInv
    <3>3. JobOp' \in {JobOp, <<>>}
      BY DEF JobOp, NoJob
    <3> QED
      BY <1>2, <1>5, <3>2, <3>3, Zenon
  <2>2. Store!Trivial
    BY <1>1, <1>5, <2>1, Zenon DEF Store!Trivial, Store!NoOp
  <2> QED
    BY <2>2, Zenon DEF Store!Next
<1> QED
  BY <1>4, <1>5, Zenon

LEMMA StepStore == NorInv /\ NorInv' /\ [Next]_vars => [Store!Next]_(Store!vars)
<1> SUFFICES ASSUME NorInv, NorInv', [Next]_vars PROVE Store!Next \/ UNCHANGED Store!vars
  BY Zenon
<1>1. ASSUME NEW ok \in BOOLEAN, QspiInit(ok) PROVE UNCHANGED Store!vars
  BY <1>1, BootRefines, Zenon DEF QspiInit, Goto, chipVars, Busy
<1>2. ASSUME NEW answers \in BOOLEAN, SpiNorIdentify(answers) PROVE UNCHANGED Store!vars
  BY <1>2, BootRefines, Zenon DEF SpiNorIdentify, Goto, chipVars, Busy
<1>3. CASE SpiNorSettle
  BY <1>3, BootRefines, Zenon DEF SpiNorSettle, Goto, chipVars, Busy
<1>4. CASE WriteEnable \/ Command \/ ReadWip \/ WriteDisable
  <2>1. pc \in Busy /\ pc' \in Busy
    BY <1>4, Zenon DEF WriteEnable, Command, ReadWip, WriteDisable, Goto, Busy
  <2>2. UNCHANGED <<part, call, mem, ret>>
    BY <1>4, Zenon DEF WriteEnable, Command, ReadWip, WriteDisable, Stays, chipVars
  <2> QED
    BY <2>1, <2>2, BusyRefines, Zenon DEF Store!vars
<1>5. CASE Verify
  BY <1>5, VerifyRefines DEF Store!Next
<1>6. ASSUME NEW r \in Regions, EnvIoSpiClear(r) PROVE Store!Next
  <2>1. pc = "ready" /\ pc' = "wren" /\ ret' = "none" /\ mem' = mem
    BY <1>6, Zenon DEF EnvIoSpiClear, Called, chipVars
  <2> QED
    BY <2>1, CallRefines DEF Store!Next
<1>7. CASE SpiNorEraseChip
  <2>1. pc = "ready" /\ pc' = "wren" /\ ret' = "none" /\ mem' = mem
    BY <1>7, Zenon DEF SpiNorEraseChip, Called, chipVars
  <2> QED
    BY <2>1, CallRefines DEF Store!Next
<1>8. ASSUME NEW r \in Regions, NEW d \in Patterns, EnvIoSpiWrite(r, d) PROVE Store!Next
  <2>1. CASE Fits(r)
    <3>1. pc = "ready" /\ pc' = "wren" /\ ret' = "none" /\ mem' = mem
      BY <1>8, <2>1, Zenon DEF EnvIoSpiWrite, Called, chipVars
    <3> QED
      BY <3>1, CallRefines DEF Store!Next
  <2>2. CASE ~Fits(r)
    <3>1. pc = "ready" /\ call' = NoCall /\ ret' = "refused" /\ UNCHANGED <<mem, job>>
      BY <1>8, <2>2, Zenon DEF EnvIoSpiWrite, Called, chipVars
    <3>2. job = NoJob /\ call = NoCall
      BY <3>1, ReadyIdle, Zenon
    <3>3. UnderWay = <<>> /\ UnderWay' = <<>>
      BY <3>1, <3>2, Zenon DEF UnderWay, JobOp, NoCall, NoJob
    <3>4. Store!Trivial
      BY <3>1, <3>3, Zenon DEF Store!Trivial, Store!NoOp
    <3> QED
      BY <3>4 DEF Store!Next
  <2> QED
    BY <2>1, <2>2
<1>9. CASE Finish
  BY <1>9, FinishRefines
<1>10. CASE WatchdogReset
  <2>1. Restart /\ UNCHANGED <<mem, job>>
    BY <1>10 DEF WatchdogReset, chipVars
  <2>2. Store!Takes
    BY <2>1, Zenon DEF Store!Takes
  <2> QED
    BY <2>1, <2>2, RestartRefines
<1>11. CASE PowerCut
  <2>1. Restart /\ job' = NoJob
    BY <1>11, Zenon DEF PowerCut
  <2>2. PICK end \in DOMAIN mem : mem' = Effect(job, {b \in DOMAIN job.bytes : b < end})
    BY <1>11, Zenon DEF PowerCut
  <2>3. Store!Takes /\ (job = NoJob => mem' = mem)
    <3>1. {b \in DOMAIN job.bytes : b < end} \in SUBSET DOMAIN job.bytes
      BY Zenon
    <3> QED
      BY <2>2, <3>1, EffectTakes, Zenon
  <2>4. UnderWay = <<>> => mem' = mem
    <3> SUFFICES ASSUME UnderWay = <<>> PROVE mem' = mem
      OBVIOUS
    <3>1. \A a \in DOMAIN mem : mem'[a] = mem[a]
      BY <2>3 DEF Store!Takes
    <3>2. mem = [a \in DOMAIN mem |-> mem[a]] /\ mem' = [a \in DOMAIN mem |-> mem'[a]]
      BY <2>2, Zenon DEF NorInv, TypeInv, Effect
    <3> QED
      BY <3>1, <3>2, Zenon
  <2> QED
    BY <2>1, <2>3, <2>4, RestartRefines
<1>12. CASE UNCHANGED vars
  <2>1. UNCHANGED <<part, mem, job, nor, call, ret>>
    BY <1>12, Zenon DEF vars, chipVars
  <2>2. UnderWay' = UnderWay
    BY <2>1, UnderWayKept, Zenon
  <2> QED
    BY <2>1, <2>2, Zenon DEF Store!vars
<1> QED
  BY <1>1, <1>2, <1>3, <1>4, <1>5, <1>6, <1>7, <1>8, <1>9, <1>10, <1>11, <1>12, Zenon DEF Next, Driver

\* The driver with the chip is the store NorStore describes: operations change bytes
\* of their own range only, to the values asked for, report success only when all
\* have them, and a reset leaves at most the page or sector under way.
THEOREM StoreRefinement == Spec => StoreSpec
<1>1. Init => Store!Init
  BY InitStore, Zenon
<1>2. NorInv /\ NorInv' /\ [Next]_vars => [Store!Next]_(Store!vars)
  BY StepStore
<1> QED
  BY <1>1, <1>2, NorInvariant, PTL DEF Spec, StoreSpec, Store!Spec
=============================================================================
