# Formal model of the MCom-03 secondary bootloader

This directory holds TLA+ specifications of the bootloader in `src/` (SBL for the
ELVEES MCom-03 SoC), the TLC configurations that check them on small instances,
and theorems with proofs checked by TLAPS. `PROJECT.json` relates every definition
to the lines it models and lists the runs, mutations, hazards and theorems.

## 1. The system

The bootloader runs on RISC0, a MIPS core without an operating system, in stages:

| Part | Source | State | Operations |
|---|---|---|---|
| SBL-S1 | `sbl-s1/hwinit.c` | clocks, watchdog, boot stage records | one pass: clocks, power, UART, watchdog, return to the boot ROM |
| SBL-S2 | `sbl-s2/main.c` | SBL environment, recovery mode, image offset | `prepare_env`, `select_slot`, `prepare_recovery`, `check_recovery_image`, loading loop |
| SBL-S3 | `sbl-s3/main.c` | IPC server, boot stages | starts the IPC server, then loops on `ipc_handler` |
| SBL-XIP | `sbl-xip/sbl.c` | clocks, DDR, image in flash | one pass, execute-in-place variant of S1 to S3 |
| Environment library | `libs/env/*.c` | key/value arrays, flags, iterators, storage | import, export, move, copy, set, get, iterate |
| Image executor | `libs/sbimage/sbexecutor.c` | certificates, key, image offset | `sblimg_init`, `_check`, `_update`, `_abort`, `_finish` |
| IPC server | `sbl-s3/risc0-ipc/server/*.c` | mailbox link, message queue, IOMMU slot | interrupt handler, command handler, responses |
| Queue | `libs/queue/queue.c`, `third-party/llist` | linked list | push, pop in a critical section |
| Mailbox driver | `drivers/mailbox/mailbox.c` | channels, callbacks, FIFO | init, attach, detach, read, write, interrupt |
| Interrupts | `drivers/irq/*.c`, `drivers/mips-cp0` | handler tables, masks | attach, detach, dispatch |
| IOMMU | `drivers/iommu/iommu.c` | page table slots | map, unmap, flush |
| Watchdog | `drivers/wdt/wdt.c`, `ipc-wdt.c` | control and timeout registers | start, set timeout, reset |
| Timer | `drivers/timer/timer.c` | high word, hardware counter | `timer_get_us`, delays, interrupt |
| Boot stages | `libs/bootstage/bootstage.c` | record table, exported block | mark, export, import |
| SPI NOR | `drivers/spi-nor/spi-nor.c`, `drivers/qspi` | flash contents | read, page write, sector erase |
| Clocks and power | `drivers/{pll,ucg,service,ls-periph1,hs-periph,top,cpu}` | registers | set frequency, power domains |
| OTP | `drivers/otp/otp.c`, `ipc-otp.c` | dump, saved PLL setting | read the dump with a slow clock |
| Console, formatting, FDT helpers, GPIO, factory reset | `libs/console`, `libs/platform`, `libs/fdt-helpers`, `drivers/{uart,gpio,factory-reset}` | devices | output, pin reads |

How the parts interact: S2 reads the environments, chooses a firmware volume and has
the image executor load and start its objects, the last of which is S3. S3 serves
requests of the application cores: they write a message to a mailbox FIFO and raise
an interrupt; the handler queues the message; the main loop carries it out and answers
through a second mailbox link. All stages share the watchdog, the timer and the block
of boot stage records, which each stage imports from the one before.

What is hard about it: power can fail between any two flash operations; firmware that
was started may hang and be reset by the watchdog, and the flash chip is not reset with
it; return codes are dropped by `main` and by `gpio_init`; interrupts arrive between any
two instructions, also while a stage takes the timer over; PLLs, dividers and regulators
answer late or never; translations are cached; hardware FIFOs and tables have fixed
sizes; counters wrap.

## 2. Modules

Each component has a module; a module `MC...` gives its constants values for TLC, a
module `...Proofs` has its theorems.

### Volume selection: EnvFlash, SlotBoot, TrialBoot, SlotBootRefinement

`EnvFlash` is the flash as three environment regions: which of them pass the CRC
check, and what they contain. `SectorOf` gives the erase sector of each region, so one
model covers parts with 64 KiB sectors (all regions apart) and with 256 KiB sectors
(all regions of a 16 MiB part together). `SlotBoot` is one boot of SBL-S2 after another:
`PrepareEnv`, `SelectSlot`, `PrepareRecovery` are the functions of `main.c`, and
`FlashStep` performs the erase and write operations of `env_export`, `env_move` and
`env_invalidate` one at a time, in the order of the code. `PowerCut` may strike between
any two. `FlashFails` is a failing operation, whose error code the callers drop; an import
that fails (`Parts`, `SelectSlot(FALSE)`) leaves any part of the environment in RAM.
The firmware of the started volume (`RequestTrial`, `ConfirmTrial`, `SaveUbootEnv`,
`Reboot`) is not part of the repository; it is modelled from the variables
`select_slot` reads.

`starts` counts every start of a volume that was requested and not confirmed, also one that
SBL-S2 takes for a start of the safe volume after it has lost its environment.

`TrialBoot` is the promise: a requested volume is marked, started once, and then either
confirmed or abandoned. `SlotBootRefinement` maps the detailed state to it (the stored
SBL environment as `prepare_env` would read it) and states the inductive invariant
`MarkPrecedesStart`.

`ctx` is the copy of the SBL environment in RAM, `pc` the place in `main`; `valid`,
`sblEnv` and `ubEnv` are flash; `starts`, `good` and `interrupted` are history.

### Flash driver: SpiNor, NorStore

`SpiNor` is what `EnvFlash` takes for granted: `env-io-spi.c`, the SPI NOR driver and the
QSPI controller, one command to the chip per step. The chip is external: it takes a
command to program or erase only when it is idle and its write enable latch is set, works
on it by itself (`Finish`) and ignores everything but a status read meanwhile. A reset of
RISC0 restarts the program and leaves the chip at work. Addresses are of `Low` or more
values (three or four bytes), lengths are words of `Word` values. `NorStore` is the
promise: an operation changes bytes of its own range only, to the values it asks for,
and reports success when all have them. `UnderWay` is the refinement mapping; after a
reset it is the part of the operation the chip still has. The driver checks the addresses of
a write and not those of an erase: a region past the end of the chip is refused by the one
and cleared by the other where the chip finds the address (`Reached`). The branch behind a
failing CLSR1 command is left out: `qspi_xfer` returns 0 for every transfer of the driver.

### Environment library: Env

Two contexts with the arrays `ekv` and `fkv` and the iterators of `env_ctx_t`, and what
is stored for each. `Insert`, `Delete`, `Sorted`, `Fitting`, `Imported` and `Merged` are
the helpers of `env.c` on sequences; the actions are the functions of `env.h`, with one
failing allocation or storage operation. A text is the list of its entries and has a
length, so that variables may or may not fit the storage. Two uses share the module:
iterating over a context while it is changed, and storing, copying and moving contexts.

Three things the code does are kept as they are. `idx` in `env_set` and `env_set_flag` is
not initialized when a name that is not there is deleted: whether it is below the
iterator is a free choice (`Garbage`), and `IterationComplete` leaves such iterations out
(`quiet`). A flag can be changed while `.flags` cannot (`torn`). And `env_prepare_io_ctx`
compares with the size of the storage including the CRC, so that the end mark can land
behind the data (`overrun`); the model says nothing of what follows.

`SlotBoot` uses environments by what they contain; `Env` shows what that rests on: an
exported environment is imported as it was, if it fits.

### Image executor: SbExecutor

One boot of `main` from the check of the recovery image to the start of the last
object. `SblimgInit`, `SblimgCheck`, `SblimgUpdate`, `SblimgAbort`, `SblimgFinish` are
the functions of the same name; `HeaderChecks`, `RootChecks`, `NonRootChecks`,
`KeyChecks` and `PayloadChecks` are the chains of `CHECK_OK` in their order, as a
sequence of conditions with error codes, of which `FirstError` takes the first that
fails. An object is a record of the header fields the code looks at, as they are read from
flash. Damage to flash (`bad`) and failing reads, allocations and verifications (`f`) are
separate; damage of a header goes unnoticed if the header has `skip_header_hash`
(`CHECK_HEADER`). Signature, digest and cipher are ideal: they tell intact from damaged data
and nothing more. When a buffer is missing `image_handle` clears memory at address 0, the
window of the flash and no load address; the call then returns its error or ends in an
exception (`Returned`). A payload is loaded before its entry address is looked at (`entry`).
`WellFormed` says what an image has to be like so that no check of the loader can fail.

### IPC server: Ipc

Three actors: clients on other cores (external, from `protocol.h`), the interrupt
handler (`IsrEnter`, `IsrHandle`, `IsrLeave`: mailbox dispatch and
`risc0_ipc_irq_handler`) and the main loop, which goes through `queue_pop`,
`risc0_ipc_cmd_handler` and `risc0_ipc_resp` in steps. Each read or write that the
interrupt or a client can observe is a step of its own; the critical section masks the
handler. `used` counts heap blocks, `window` the IOMMU slots in use. Clients ring after a
whole request, but what they write is up to them: `misfit` has a wrong length, `fatal` an
address in the first 4 GB, and SBL-S3 panics for both; `void` is a request whose service
leaves `resp_param` unset, so the answer is whatever is on the stack (`RespParam`).

### Start-up of SBL-S2 and SBL-S3: Irq, Iommu, Startup

`Irq` has the processor's interrupt enable and mask bits, the QLIC, `irq_handlers`, the
mailbox's list of handlers and the wrap interrupt of the timer; `Iommu` the table of 2 MiB
slots and a cache that may pick up an entry at any time. `Startup` composes them: `S2Main`
and `S3Main` are the two programs as sequences of operations, interrupts come between any
two of them, and the main loop of SBL-S3 opens and closes windows for answers
(`OpenWindow`, `CloseWindow`). What the controller, the mailbox and the timer hold when
SBL-S2 starts is not known and chosen freely. `Ipc` has the queue and the clients in
detail and assumes what `Startup` shows: handlers are in place before a client rings.

### Clocks and power: PowerDomain, Clocks

`PowerDomain` is `set_ppolicy` in steps (bypass, policy, wait, fall back to off, settle,
bypass off) and its callers' clock gate. `Follow` is the regulator, which acts at any time
or never, also between the last look at it and the order to be off (`PollTimeout`,
`SwitchOff`). The limit of a wait is measured while interrupts are disabled; if the counter
of the timer wraps meanwhile (`CounterWraps`), the limit never passes. `Clocks` extends it with the clock generators (PLL, channels, dividers, bypass)
and the programs of SBL-S1, SBL-S2, SBL-S3 and SBL-XIP as far as they touch clocks, power,
the OTP and the ARM core (`S1Main` and so on); in SBL-S2 the check of the recovery image may
set up the pin of a key (`CheckRecoveryImage`). The unlimited waits of
`cpu_start_arm0_core` are taken to end (`ClusterOn`). Every wait may end in a time-out:
`PllTimeout`, `DividerTimeout`, `OtpTimeout`, `PollTimeout`. `Fails` says what the caller
makes of it: some stop the boot, `gpio_init` drops the result. Frequencies are in kHz and
computed as the code does (`PllGetFreq`, in integers) and as the hardware does (`PllOut`).

### Time: Timer, Wdt, Bootstage

`Timer` is a counter of `Word` values and a high word of `High` values instead of 2^32
each, one caller of `timer_delay_us`, a clock that ticks between any two of its steps, and
the wrap interrupt. `mode` is the build: SBL-S1 polls for wraps, S2 and S3 count them in
the interrupt handler.

`Wdt` has registers and counter of WDT0, with all operations of `wdt.c` as operators on
them, called by SBL-S1, S2, S3 and by the watchdog service in the order of the boot.
Products are taken modulo `2^Bits`, as in `uint32_t`.

`Bootstage` is the table of records, the memory it is handed on in, and the marks and
hand-overs of the boot (`Flow`) followed by the requests of clients. A reset keeps or
loses the memory.

The three share no variable; `MCTime` checks them in one run, each behaviour being one of
them.

## 3. Runs

| Run | Checks | Distinct states |
|---|---|---|
| `slot_boot` | `TrialSpec`, the promise of TrialBoot; one start per request, with one exception; the safe volume's environment; leaving a hanging volume | 813,721 |
| `flash` | `StoreSpec`, the promise of NorStore; what was stored survives resets; every call returns | 69,654 |
| `env` | what was set last counts, flags and `.flags` agree, stored environments come back, iterations are complete | 277,124 |
| `sb_executor` | chain to the root certificate, only intact code loaded and started, certificates and keys are those of the image at work, sound images start | 150,209 |
| `startup` | interrupts find their handlers, wraps are counted across stages, no doorbell is dropped, accesses through the IOMMU reach what they mean | 61,132 |
| `ipc` | exactly once and in order, answers, causes of a panic, memory, every request answered | 271,866 |
| `clocks` | clocks only with power, PLLs change under bypass, the OTP is read slowly, watchdog clock, the core starts ready, waits end but for one case | 15,352 |
| `time` | no reset before the time asked for or reported, polled delays are long enough, wraps are counted, first mark of every stage | 124,177 |

Four further runs expect a violation; section 6 lists them.

Bounds, and why they are enough:

- `slot_boot`: two contents of U-Boot's environment tell the copies apart. Two power cuts
  let a second one hit the boot that repairs the first; with them go one failing flash
  operation or import and one request for a trial. The proofs need none of these bounds.
- `flash`: pages of two bytes; a region that begins inside a page, one that ends inside a
  page and counts from the end, one past the end of the small chips; chips with small and
  with large sectors, with four address bytes, and one that is not in the table. Three
  calls write, clear and write again; a reset hits any step of them.
- `env`: two names, a short and a long value and one attribute. Two long values and two
  flags fill the data exactly or exceed it, a deletion has an item before or behind it.
  Iterations are not bounded; uses of storage make four calls, such as set, export,
  set, import, with one failure.
- `sb_executor`: images of up to six objects, as the configurations of `tl-sbimg` build
  them, with at most two intermediate certificates (`MaxCa`) and images that exceed it, with
  a wrong load or entry address, and with headers that are not to be checked.
  One damaged object and one failing operation at any place.
- `startup`: two FIFOs; three wraps, so that each stage can lose one and one more comes;
  three slots, one of them mapped by ddrinit and two for DDR, so that one request with two
  buffers reuses a slot.
- `ipc`: two links, two requests each, so that a request meets an earlier one of its own
  link and one of the other in every place. A FIFO of eight words holds one request with
  response, four heap blocks run out.
- `clocks`: the four generators with three or four channels each, with the factors and
  dividers of the build; five requests reach on, time-out, late answer, off and on again
  with the other domain in between. A PLL, divider or read may fail at every place.
- `time`: watchdog of four periods with small `KHz` and `Sec`; the time-outs include every
  one up to the longest that is reported, exact powers of two among them. Delays are
  shorter than a period of the counter, as in the code (20 ms against 2^32 ticks), and the
  counter wraps three times, so the high word wraps too. The table of boot stages has the
  size of the build; ten stages for nine records; two boots.

Runs whose histories are bounded end in states without a step (`CHECK_DEADLOCK FALSE`);
`slot_boot` has none and checks for deadlock.

## 4. Fairness

`BrokenTrialIsLeft`: SBL-S2 is sequential and does not wait, so its steps are weakly
fair; firmware that hangs is reset by the watchdog, so the reset of a broken volume is.
Nothing is assumed of power or of working firmware.
`EveryRequestAnswered`: handler and main loop are weakly fair while the program runs. A
pending interrupt is taken once it is unmasked: since the main loop masks and unmasks it
again and again, this is strong fairness of `IsrEnter`. A client completes a request it
has begun.
`EveryCallReturns`: the driver goes on, and a chip ends what it has begun. That
`spi_nor_init` ends with a chip that stays busy follows from its time limit.
`EveryWaitEnds`: RISC0 goes on. Nothing is assumed of PLLs, channels, the OTP and the
regulators of SDR and MEDIA; those of the domains of the boot, which `set_ppolicy` awaits
without limit, follow, and so does the cluster of the ARM core. The property names the one
wait that does not end: a regulator that stays silent while the counter of the timer wraps.

## 5. Proofs

A proof holds for every value of the constants that satisfies the named assumptions of
the module; the bounds of section 3 are not needed.

**SlotBootProofs** (`SlotAssumption`, `EnvAssumption`: types of the constants, and the
empty environment is none of the others): `TypeCorrect`, `MarkPrecedesStartInvariant`,
`TrialStartsOnceInvariant` and the refinement `SlotBootImplementsTrialBoot`, for any
layout of sectors. `TrialStartsOnce` is not inductive: it says nothing of the time between
the write of `tried_to_boot` and the start. `MarkPrecedesStart` adds three things. While no
operation has failed, the copy in RAM is a definite function of the stored environment at
every place of `main` (`CtxFollowsFlash`), also between erase and write, where the stored one
is the last complete one or, after a cut, none. What is on trial is what was requested, and
only a failure puts the default in the place of the stored safe volume (`TrialIsRequested`).
And the count of starts leaves room for the start that can still follow: while the mark is
not set it is at most the number of failures, and where RAM and flash have parted a failure
of this boot has paid for the start (`StartsFollowMark`, `Paid`). The last has a way out for
an environment that was lost while volume b was the safe one: `prepare_env` then puts a in
the place of both, and a volume a on trial counts as safe from then on (`TrialTakenForSafe`).
`SafeVolumeKeepsItsEnvInvariant` holds where no two environments share a sector
(`SectorsApart`). `EnvKept` says where the environment of the safe volume is at every place
of `main` while no boot was interrupted: where the stored SBL environment says
(`EnvWhereMarked`); in the source while `env_move` erases and writes the other copy
(`EnvMoving`); in both before U-Boot's is invalidated (`EnvTwice`); and, while the SBL
environment is written, where the new one will say (`EnvCommitting`).

**SbExecutorProofs** (`ExecutorAssumption`): `ChainAnchoredInvariant`,
`OnlyIntactCodeInMemoryInvariant`, `StartedCodeIsCompleteInvariant`,
`TableIsOfThisImageInvariant` and `SoundImageStartsInvariant`, for any images, damage and
failing operations.
`ExecutorInv` says that everything in front of the offset was accepted and is in memory,
and that the key in use is that of the last key object (`LastKey`). The latter is needed
where a signature is over the enciphered text: it does not vouch for the key, so that the
plain text is right rests on the assumption that the build puts the payload's key object
in front of it. `ChainInv` has the certificate table: unique identifiers, issuers in front
(`TableInv`) and, while no call has failed, all of it below the root certificate of the
OTP (`IssuedInv`). The heart are lemmas on the checks: `Accepts` (what an object is that
passed them) and `ImageHandled` (what the actions of `image_handle`, in either order,
leave in memory). For `SoundImageStarts` the lemmas go the other way: `ObjectPasses` and
`PayloadHandled` say that the next object of a well formed image passes if the table holds
what is in front of it. `SoundInv` has that correspondence between image and table
(`RootTaken`, `CasTaken` with the number of certificates, `EndTaken`); the key is that of
`LastKey`, whatever key the check of the recovery image left behind. `OwnInv` is the same
correspondence for images of any make: it needs that an accepted object changes the table by
itself only (`AcceptedLeaves`), that nothing is accepted as a certificate behind an end
certificate (`NoEndBefore`), and that `crypto_free` lies between the two passes.

**IpcProofs** (`IpcAssumption`): `AnswerIsMineInvariant`, `ExactlyOnceInOrderInvariant`,
`NothingLeaksInvariant`, `PanicOnlyWithCauseInvariant`, for any number of links,
requests, FIFO words and blocks. `IInv` follows a request from place to place: requests
are numbered, those in FIFO, handler, queue and main loop are different and in order
(`Numbered`, `QueueOrder`, `LostOrder`), the one that is answered has its window
(`Windows`), and a doorbell belongs to a request (`Bells`). On top of it `FlowInv` says
that a request that was posted and not lost is in exactly one of these places or was
carried out (`StationInv`), and that what was carried out is in front of what was not
(`HandledInv`): that nothing is carried out twice needs both. Memory is counted last:
two blocks for each entry of the queue, one for each request the handler found no room
for, one for the request at work (`AtWork`).

**ClocksProofs** (`ClocksAssumption`, `PowerDomainAssumption`):
`ClockOnlyWhenPoweredInvariant`, `AnswerTellsStateInvariant`,
`BypassWhileComingUpInvariant`, `CoreStartsReadyInvariant`, for any generators, channels,
domains and number of requests. The properties are about SBL-S3 and the ARM core, their
reasons lie earlier: `ClocksInv` ties the place in the program of each stage to what the
functions in front of it have left (`ProgInv`, `CoreInv`), and the place in `set_ppolicy`
to policy, status, gate and bypass (`PowerInv`, `GateInv`, `BypassInv`, `AnswerInv`).

**PllProofs** (the same, and `ApbAssumption`: the table of the service subsystem divides
the clock of the APB by 6): `PllChangesUnderBypassInvariant`, `ApbWithinWatchdogInvariant`,
`OtpReadSlowInvariant`. `PllInv` adds the PLLs to `ClocksInv`: which of them are locked
(`LockInv`), that after SBL-S1 only `otp_get_dump` touches the service PLL and has the
setting to restore at hand (`ServInv`, `OtpInv`), and the two frequencies the APB can then
have, 22.5 and 99 MHz, with the one the watchdog was told (`ApbInv`). A watchdog that was
told the lower one was told so after a failed read, and the setting that is saved is then
the slow one too: that is why a second, successful read does not make its clock faster.

**SpiNorProofs** (`ChipAssumption`: a chip in the table is what the table says, has
whole sectors and, if three address bytes reach it, a size that divides their range;
`RegionAssumption`: an environment is inside the addresses of a word and
touches no more sectors than its size needs): `StoredSurvivesInvariant` and the
refinement `StoreRefinement` of `NorStore`, for chips, pages, sectors and regions of any
size, also of regions past the end of the chip. `NorInv` ties the place in the driver to the chip: an operation of the chip is the
piece the call is at, or what a call before the reset left (`JobInv`), the pieces behind it
are done (`DoneInv`), and no operation of the chip touches a region that is kept
(`KeptInv`). The arithmetic is in lemmas of their own: pieces of a page tile the range of
a call, and sectors cover it.

**TimeProofs** has the three parts of time, each with the assumptions of its module.
`PolledDelayInvariant` and `WrapsCountedInvariant` (`TimerAssumption`: delays are shorter
than a period by the pause between two reads) hold for words of any size; `TimerInv`
relates sample and counter to the time that has passed.
`NoEarlyResetInvariant` and `ReportedTimeoutInvariant` (`WdtAssumption`,
`PeriodAssumption`, and `WithinMaximum`: clients ask for no more than the longest time-out
that is reported) hold for any frequency and number of periods. `WithinMaximum` cannot be
dropped: `wdt_long_timeout` is the counterexample.
`SblStagesKeptInvariant` and `ReportsFirstMarkInvariant` (`BootstageAssumption`: the table
has room for the six stages of the boot loader, the memory for those that are handed on)
hold for tables of any size, any stages of the operating system and any number of boots.
`StampInv` says that the stages of the boot loader are in front in their order (`TableInv`),
that a stage is missing only in a full table (`MissingInv`), and that a stage finds in
memory the table the one before it ended with (`HandedOn`).

**StartupProofs** (`StartupAssumption`: the DDR range lies in the slots):
`HandlerInPlaceInvariant`, `TimeBehindInvariant`, `NoDoorbellDroppedInvariant`,
`WindowsExactInvariant`, for any number of FIFOs, slots, wraps, buffers and requests. The
program grows with the number of FIFOs, so the first lemmas (`S2Place`, `S3Place`) say
where each operation is in it. `Inv` then ties the place to who may interrupt and who
answers (`IrqInv`, `BellInv`), to the wraps that may be lost by then (`TimeInv`), and to
table and cache (`TableInv`, `CacheInv`). That a doorbell is never dropped needs all of the
order: `irq_init` has emptied the QLIC, `mbox_reset` has silenced the doorbells before a
FIFO is attached, and no core runs before the list of handlers has an entry. `IommuInit`
does not invalidate the cache; `CacheInv` holds there because `iommu_reset` has emptied it
with translation off, so that nothing was picked up in between.

With TLC only:

- the liveness properties `BrokenTrialIsLeft`, `EveryCallReturns`, `EveryRequestAnswered`
  and `EveryWaitEnds`: fairness and `ENABLED` are out of the prover's reach;
- `LastSetCounts`, `FlagsInStep`, `RoundTrip` and `IterationComplete` of `Env`: import and
  copy set one variable after another, and export sorts, so what they leave is a fold over
  a sequence and a sorted permutation of it, and saying anything of these for arrays of any
  length takes induction over their length, which the provers do not do.

## 6. Where the code and its comments differ

- `slot_power_cut` (`sbl-s2/main.c:245`): the reserved copy is made, and U-Boot's
  environment invalidated, before the SBL environment records the trial. After a cut in
  between the next boot reserves the now invalid environment over the copy.
- `timer_irq` (`timer.c:42`): with the wrap interrupt, low and high word of a sample can
  belong to different periods, and the delay ends at once; `timer.h:78` promises a
  minimum.
- `timer_clock` (`pll.c:52`): the factors are divided in integers first, so the LSP1 PLL is
  reported with 594 MHz instead of 614.25 MHz, and delays are 3.3 % short.
- `wdt_long_timeout` (`wdt.c:32`): the number of ticks is cut to 32 bits.

The same models show what holds nevertheless: a cut does not make a volume that nobody
confirmed start twice, unless it is volume a and the cut falls between erase and write of the
SBL environment that names b as the safe one (`TrialTakenForSafe`); delays of SBL-S1 count every wrap, the watchdog's clock is never faster than the
driver assumes, and every time-out up to the longest that the service reports is kept.

Kept in the models as they are, without a run of their own: on parts with 256 KiB sectors
the three environments share one, and each export erases the others (`SpiNor` has such a
chip, and `StoredSurvives` leaves it out); the three points under Env above; a wrap that
is pending while a stage takes the timer over is not counted (`TimeBehind` allows one for
each stage); a failed read of the OTP leaves the service subsystem on the slow clock; the
answer of a service without a result is not initialized; `crypto_free` leaves
`encrypted_key`, so that a payload in front of the first key object of a volume is deciphered
with the key of the recovery image; an erase past the end of a small chip clears the region
at the address the chip makes of it; a regulator that is silent while the counter wraps holds
RISC0 for ever.

## 7. Not modelled

- The characters of the environment's text, the words of the OTP, pads and other single
  register writes (`ls-periph0`, `hs-periph`, `secure_setup`): no property tells them apart.
- Relocation of objects in SBL-XIP, console, UART input and output, formatting, device
  tree helpers, exception dump: sequential code without state that outlives a call.
- Debouncing of the factory reset pin: `held` is a free choice in `SbExecutor`.
- `mbox_write`, `mbox_detach_irq_handler`, `irq_detach_handler`,
  `service_disable_arm_cpu`: no caller in the stages.
- Third-party libraries: cryptography is ideal, a list is a sequence.
- Weak memory: the code orders its shared writes with barriers, and the steps follow them.
- A regulator that reports ON for an order that PP_OFF has replaced: the status follows the
  policy in force.
- What ddrinit, TF-A, U-Boot and the operating system do, beyond what the code reads of it.

## 8. Plan

1. `Env`: runs that show the end mark behind the data and the iterator after the deletion
   of a name that is not there; ownership of the arrays in `env_move`.
2. `EnvFlash` as an abstraction of `SpiNor`: both promise what `SlotBoot` uses, but a
   region of the one is not yet mapped to bytes of the other.
3. An abstract request/response service that `Ipc` implements.
4. `Env`: its array operations without folds, as a step towards proofs of `LastSetCounts`
   and `FlagsInStep`.
