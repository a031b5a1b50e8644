------------------------------- MODULE SpiNor -------------------------------
(***************************************************************************)
(* The SPI NOR flash under the environments: libs/env/env-io-spi.c,        *)
(* drivers/spi-nor and drivers/qspi, and the flash chip they talk to.      *)
(* Each command the driver sends is a step.  The chip takes a command for  *)
(* programming or erasing only while it is idle and its write enable latch *)
(* is set, works on it by itself, and shows in WIP that it does.  A        *)
(* watchdog reset restarts the program and not the chip.                   *)
(***************************************************************************)
EXTENDS Integers, Sequences, FiniteSetsExt

CONSTANTS Table,     \* spi_nor_ids: known chips
          Fitted,    \* chips a board may have, known or not
          Low,       \* addresses three bytes can tell apart, 2^24
          Word,      \* values of uint32_t
          Regions,   \* environments: offset, negative from the end, and size
          Patterns,  \* data to write, from the index to a byte
          MaxCalls, MaxResets  \* bounds on calls and on resets

VARIABLES
  part,            \* the chip on the board
  mem, wel, job,   \* its contents, write enable latch, and what it is doing
  nor,             \* nor_flash: an index of Table, 0 before spi_nor_init
  pc,              \* where the driver is
  call,            \* the call of env-io it serves
  addr, left,      \* address, and bytes or sectors still to do
  ret,             \* result of the last call
  calls, resets,   \* number of calls and resets so far
  stored           \* history: data last written to each region, while it must be there

chipVars == <<mem, wel, job>>
vars == <<part, chipVars, nor, pc, call, addr, left, ret, calls, resets, stored>>

Erased == 1
NoJob == [kind |-> "none", bytes |-> <<>>]
NoCall == [kind |-> "none", region |-> [off |-> 0, size |-> 0], data |-> <<>>]
None == <<>>
Flash == Table[nor]
-----------------------------------------------------------------------------
(***************************************************************************)
(* The chip.                                                               *)
(***************************************************************************)

\* An address past the end of the chip is taken without the bits the chip lacks.
Decoded(a) == a % part.size

PageOf(a) == a - (a % part.page)
SectorOf(a) == a - (a % part.sector)

\* Bytes of a page program: past the end of the page it goes on at its start.
ProgramBytes(a, data) ==
  [b \in {PageOf(a) + ((a + i) % part.page) : i \in 0..(Len(data) - 1)} |->
     data[Max({i \in 1..Len(data) : PageOf(a) + ((a + i - 1) % part.page) = b})]]

EraseBytes(a) == [b \in SectorOf(a)..(SectorOf(a) + part.sector - 1) |-> Erased]
BulkBytes == [b \in 0..(part.size - 1) |-> Erased]

\* What the bytes `done' of a job become.
Effect(j, done) ==
  [b \in DOMAIN mem |->
     IF b \notin done THEN mem[b]
     ELSE IF j.kind = "program" /\ mem[b] < j.bytes[b] THEN mem[b] ELSE j.bytes[b]]

\* WREN and WRDI; a busy chip ignores them.
SetWel(v) == wel' = IF job = NoJob THEN v ELSE wel

\* A program or erase command.
Take(kind, bytes) ==
  IF wel /\ job = NoJob THEN job' = [kind |-> kind, bytes |-> bytes] ELSE UNCHANGED job

Finish ==
  /\ job # NoJob
  /\ mem' = Effect(job, DOMAIN job.bytes)
  /\ job' = NoJob /\ wel' = FALSE
  /\ UNCHANGED <<part, nor, pc, call, addr, left, ret, calls, resets, stored>>
-----------------------------------------------------------------------------
(***************************************************************************)
(* spi_nor_init                                                            *)
(***************************************************************************)
Goto(from, to) == pc = from /\ pc' = to

\* qspi_xip_disable and qspi_enable give up after a number of polls.
QspiInit(ok) ==
  /\ Goto("start", IF ok THEN "identify" ELSE "panic")
  /\ UNCHANGED <<part, chipVars, nor, call, addr, left, ret, calls, resets, stored>>

\* The first entry whose id, and extended id if it has one, are those of the chip.
Lookup(p) ==
  LET fit == {i \in DOMAIN Table : Table[i].id = p.id /\ Table[i].ext \in {0, p.ext}} IN
  IF fit = {} THEN 0 ELSE Min(fit)

\* The chips spi_nor_init goes on with.
Known == {p \in Fitted : Lookup(p) # 0}

ASSUME ChipAssumption ==
  /\ Low \in Nat \ {0} /\ Word \in Nat \ {0}
  /\ \A p \in Fitted : p.size \in Nat \ {0} /\ p.page \in Nat \ {0} /\ p.sector \in Nat \ {0}
  /\ \A p \in Known :
       /\ p.size % p.sector = 0 /\ (p.size <= Low => Low % p.size = 0)
       /\ LET e == Table[Lookup(p)] IN e.size = p.size /\ e.page = p.page /\ e.sector = p.sector

\* An environment placed from the end of a chip is inside it, the addresses are in
\* uint32_t, and no environment reaches over one sector more than its size needs.
ASSUME RegionAssumption ==
  /\ \A r \in Regions :
       /\ r.off \in Int /\ r.size \in Nat \ {0}
       /\ r.off < 0 => r.off + r.size <= 0
       /\ \A p \in Known :
            LET off == IF r.off < 0 THEN p.size + r.off ELSE r.off IN
            /\ off >= 0 /\ off + r.size < Word
            /\ (off % p.sector) + r.size <= ((r.size + p.sector - 1) \div p.sector) * p.sector
  /\ \A d \in Patterns, r \in Regions : \A i \in 1..r.size : d[i] \in {0, Erased}

\* A chip that is busy need not answer; what is read then is no known id.
SpiNorIdentify(answers) ==
  /\ answers \/ job # NoJob
  /\ nor' = IF answers THEN Lookup(part) ELSE 0
  /\ Goto("identify", IF nor' = 0 THEN "panic" ELSE "settle")
  /\ UNCHANGED <<part, chipVars, call, addr, left, ret, calls, resets, stored>>

\* spi_nor_read_wip(UINT16_MAX): the chip is idle, or has been busy for too long.
SpiNorSettle ==
  /\ Goto("settle", IF job = NoJob THEN "ready" ELSE "panic")
  /\ UNCHANGED <<part, chipVars, nor, call, addr, left, ret, calls, resets, stored>>
-----------------------------------------------------------------------------
(***************************************************************************)
(* env-io-spi                                                              *)
(***************************************************************************)

\* env_io_spi_init: cfg->offset
Offset(r) == IF r.off < 0 THEN Flash.size + r.off ELSE r.off

\* Three bytes of address, or four for a chip of more than 16 MiB.
Sent(a) == IF Flash.size > Low THEN a ELSE a % Low

\* Mutant: the number of sectors is rounded down.
SectorsDown(r) == r.size \div Flash.sector

Sectors(r) == (r.size + Flash.sector - 1) \div Flash.sector

\* Where the chip finds what the driver asks for.
Reached(a) == Decoded(Sent(a))

Span(r) == Offset(r)..(Offset(r) + r.size - 1)
SectorSpan(r) == UNION {DOMAIN EraseBytes(Reached(a)) : a \in Span(r)}

\* spi_nor_read of a region
Contents(r) == [i \in 1..r.size |-> mem[Reached(Offset(r) + i - 1)]]

Called(c) ==
  /\ pc = "ready" /\ calls < MaxCalls /\ calls' = calls + 1
  /\ call' = c
  /\ UNCHANGED <<part, chipVars, nor, resets>>

\* env_io_spi_clear and _invalidate, up to the loop of spi_nor_erase_sector.  The
\* driver does not check the address.
EnvIoSpiClear(r) ==
  /\ pc = "ready"
  /\ Called([kind |-> IF Sectors(r) = 0 THEN "chip" ELSE "clear", region |-> r, data |-> <<>>])
  /\ addr' = Offset(r) /\ left' = Sectors(r)
  /\ pc' = "wren" /\ ret' = "none"
  /\ stored' = [stored EXCEPT ![r] = None]

\* spi_nor_erase(SPI_NOR_ERASE_CHIP)
SpiNorEraseChip ==
  /\ Called([kind |-> "chip", region |-> [off |-> 0, size |-> 0], data |-> <<>>])
  /\ addr' = 0 /\ left' = 1
  /\ pc' = "wren" /\ ret' = "none"
  /\ stored' = [r \in Regions |-> None]

\* The sum is one of uint32_t.
Fits(r) == (Offset(r) + r.size) % Word <= Flash.size

\* env_io_spi_write, up to the checks of spi_nor_write
EnvIoSpiWrite(r, d) ==
  /\ pc = "ready"
  /\ IF Fits(r)
     THEN /\ Called([kind |-> "write", region |-> r, data |-> [i \in 1..r.size |-> d[i]]])
          /\ pc' = "wren" /\ ret' = "none"
          /\ addr' = Offset(r) /\ left' = r.size
          /\ stored' = [stored EXCEPT ![r] = None]
     ELSE /\ Called(NoCall)
          /\ pc' = "ready" /\ ret' = "refused"
          /\ UNCHANGED <<addr, left, stored>>
-----------------------------------------------------------------------------
(***************************************************************************)
(* spi_nor_write_page and spi_nor_erase_sector: WREN, the command, the     *)
(* wait for WIP, WRDI, and on to the next page or sector.  The CLSR1 that  *)
(* goes in front of an erase clears error flags this driver never reads,   *)
(* and qspi_xfer answers 0 for every transfer made here (its only failure  *)
(* is a null buffer it has just tested for), so neither it nor the error   *)
(* path behind it changes any modelled state.                              *)
(***************************************************************************)
Stays == UNCHANGED <<part, nor, call, ret, calls, resets, stored>>

WriteEnable ==
  /\ Goto("wren", "command")
  /\ SetWel(TRUE)
  /\ Stays /\ UNCHANGED <<mem, job, addr, left>>

\* Mutant: the bytes before the address are taken for the rest of the page.
PortionBefore == Min({addr % Flash.page, left})

\* spi_nor_write: up to the end of the page, then whole pages, then the rest.
Portion == Min({Flash.page - (addr % Flash.page), left})

\* The part of the data that goes into this page.
Data == LET from == addr - Offset(call.region) IN SubSeq(call.data, from + 1, from + Portion)

Command ==
  /\ Goto("command", "wait")
  /\ \/ call.kind = "write" /\ Take("program", ProgramBytes(Reached(addr), Data))
     \/ call.kind = "clear" /\ Take("erase", EraseBytes(Reached(addr)))
     \/ call.kind = "chip" /\ Take("erase", BulkBytes)
  /\ Stays /\ UNCHANGED <<mem, wel, addr, left>>

\* Mutant: WIP is not waited for.
ReadWipNot ==
  /\ Goto("wait", "wrdi")
  /\ Stays /\ UNCHANGED <<chipVars, addr, left>>

\* spi_nor_read_wip(0): there is no limit.
ReadWip ==
  /\ job = NoJob
  /\ Goto("wait", "wrdi")
  /\ Stays /\ UNCHANGED <<chipVars, addr, left>>

WriteDisable ==
  LET step == IF call.kind = "write" THEN Portion ELSE 1 IN
  /\ Goto("wrdi", IF left > step THEN "wren" ELSE "verify")
  /\ SetWel(FALSE)
  /\ left' = left - step
  /\ addr' = addr + (IF call.kind = "write" THEN step ELSE Flash.sector)
  /\ Stays /\ UNCHANGED <<mem, job>>

\* env_io_read_after_write
ReadAfterWrite(r) == Contents(r) = call.data

\* The call returns.
Verify ==
  LET r == call.region IN
  /\ Goto("verify", "ready")
  /\ ret' = IF call.kind = "write" /\ ~ReadAfterWrite(r) THEN "differs" ELSE "ok"
  /\ stored' = IF call.kind = "write" /\ ret' = "ok" THEN [stored EXCEPT ![r] = call.data] ELSE stored
  /\ call' = NoCall
  /\ UNCHANGED <<part, chipVars, nor, addr, left, calls, resets>>
-----------------------------------------------------------------------------
Restart ==
  /\ resets < MaxResets /\ resets' = resets + 1
  /\ pc' = "start" /\ nor' = 0 /\ call' = NoCall /\ addr' = 0 /\ left' = 0 /\ ret' = "none"
  /\ UNCHANGED <<part, calls, stored>>

WatchdogReset == Restart /\ UNCHANGED chipVars

\* The bytes up to one of the page or sector the chip is working on are done.
PowerCut ==
  /\ Restart
  /\ \E end \in DOMAIN mem : mem' = Effect(job, {b \in DOMAIN job.bytes : b < end})
  /\ job' = NoJob /\ wel' = FALSE

Init ==
  /\ part \in Fitted /\ mem \in {[a \in 0..(part.size - 1) |-> b] : b \in {0, Erased}}
  /\ wel = FALSE /\ job = NoJob /\ nor = 0 /\ pc = "start"
  /\ call = NoCall /\ addr = 0 /\ left = 0 /\ ret = "none" /\ calls = 0 /\ resets = 0
  /\ stored = [r \in Regions |-> None]

Driver ==
  \/ \E ok \in BOOLEAN : QspiInit(ok)
  \/ \E answers \in BOOLEAN : SpiNorIdentify(answers)
  \/ SpiNorSettle
  \/ WriteEnable \/ Command \/ ReadWip \/ WriteDisable \/ Verify

Next ==
  \/ Driver
  \/ \E r \in Regions : EnvIoSpiClear(r)
  \/ \E r \in Regions, d \in Patterns : EnvIoSpiWrite(r, d)
  \/ SpiNorEraseChip
  \/ Finish
  \/ WatchdogReset \/ PowerCut

Spec == Init /\ [][Next]_vars

\* The processor goes on, and the chip ends what it has begun.
FairSpec == Spec /\ WF_vars(Driver) /\ WF_vars(Finish)
-----------------------------------------------------------------------------
\* The users of the flash see the store NorStore describes: an operation is under
\* way from its call to its return, and after a reset for as long as the chip is
\* busy with the page or sector it was at.  An environment past the end of the chip
\* is refused when it is written, and cleared where the chip finds its addresses.  A
\* mutant that loses a page, wraps in a page, erases a sector too few or sends a
\* command to a busy chip breaks it.
JobOp == IF job.kind = "erase" THEN [b \in DOMAIN job.bytes |-> 2] ELSE job.bytes

UnderWay ==
  IF call.kind = "write" THEN [a \in Span(call.region) |-> call.data[a - Offset(call.region) + 1]]
  ELSE IF call.kind = "clear" THEN [a \in SectorSpan(call.region) |-> 2]
  ELSE IF call.kind = "chip" THEN [a \in DOMAIN mem |-> 2]
  ELSE JobOp

Store == INSTANCE NorStore WITH op <- UnderWay
StoreSpec == Store!Spec

\* What env_io_spi_write has reported as written stays readable in its region until
\* the region itself is cleared or written or the chip erased, through resets in the
\* middle of operations on the other regions, on chips whose sectors, as the chip
\* finds them, keep the regions apart: on another chip, and on one that is too small
\* for one of the regions, clearing it may erase what is stored in another.
Apart == \A r, q \in Regions : r = q \/ SectorSpan(r) \cap SectorSpan(q) = {}
StoredSurvives ==
  nor # 0 /\ Apart => \A r \in Regions : stored[r] # None => Contents(r) = stored[r]

\* A call of the driver returns, whatever the chip is busy with, and spi_nor_init
\* ends even with a chip that stays busy.
EveryCallReturns == pc \notin {"ready", "panic"} ~> pc \in {"ready", "panic"}
=============================================================================
