# A verification project for len-fpga

len-fpga is a system on a chip for the Nexys A7: a generated RISC-V core, a set
of small peripherals on an AXI4-Lite bus, a boot firmware in ROM, and a script
that sends a kernel over the serial line. This directory holds TLA+ modules
that model its own logic, TLC configurations that check them on small
instances, and proofs that TLAPS checks for every value of the constants.
Paths below are relative to the repository root.

1. [The system](#1-the-system)
2. [Modules and the code they model](#2-modules-and-the-code-they-model)
3. [Runs: questions, bounds, results](#3-runs-questions-bounds-results)
4. [Fairness](#4-fairness)
5. [What is proved](#5-what-is-proved)
6. [What the checks found](#6-what-the-checks-found)
7. [Not modelled](#7-not-modelled)
8. [Plan](#8-plan)
9. [Running it](#9-running-it)

## 1. The system

The processor has three bus ports. Two of them reach memory (the boot ROM and
the 128 MiB DDR2). The third, behind a load/store bridge that keeps **one
uncached access open at a time**, goes through an interconnect to the
peripherals: UART, CLINT, PLIC, PMC, display (`docs/images/soc.png`), and, in
the repository but not in that drawing, audio, SD card and PS/2.

| Component | Source | State | Operations | Talks to |
|---|---|---|---|---|
| register slave | `rtl/clint.v`, `rtl/pmc.v`, `rtl/audio_pwm.v` (the same two state machines in each) | write and read state machine, latched addresses, registers | write, read, with a beat per channel | the bridge, over five channels |
| CLINT | `rtl/clint.v` | `mtime`, `mtimecmp_l/h`, `msip` | count, read time, set deadline, set/clear software interrupt | timer and software line of the core |
| PLIC | `ip/plic/AxiLite4Plic.v`, `rtl/plic.v`, `rtl/irq_router.v` | per source: pending bit, gateway; per context: enables, threshold, registered best request; bus stages, a one-bit stall | sample, claim, complete, configure | external lines of the core |
| PMC | `rtl/pmc.v` | `pmc_state` on the bus clock; two 4-stage shift registers and `power_down` on the system clock | write, read, decode, shift | reset generator, clock generator |
| audio | `rtl/audio_pwm.v` | divider, control bits, sample counter, current sample, PWM counter | request a sample, take it, pulse | sample FIFO, audio pin |
| start code | `firmware/entry.S`, `firmware/firmware.ld` | two pointers | clear BSS, start the C code | loader firmware |
| loader firmware | `firmware/start.c`, `serial.c`, `uart.c`, `panic.c` | memory, which image comes next, position in its frame | copy the device tree, load two images, jump, panic and reboot | UART, PMC |
| device setup | `firmware/dev.c`, `mmio.h`, `wallpaper.h` | frame buffer, device registers | initialise, draw, wait, reboot, power off | PLIC, PMC, display, `time` |
| library | `firmware/string.c`, `print.c`, `crc32.c` | memory, the UART's buffer | string functions, `print`, checksum | loader firmware |
| loader host | `scripts/serial_boot.sh` | position in its script | send kernel, send ramfs | the serial line |
| SD command path | `ip/sd/sd_controller_wb.v`, `sd_cmd_master.v`, `sd_cmd_serial_host.v`, `sd_data_xfer_trig.v` and the crossings | command registers and status; master state, watchdog; shift state; trigger | issue, time out, answer, clear, trigger a transfer | software, card, data path |
| SD data path | `ip/sd/sd_data_master.v`, `sd_data_serial_host.v`, `sd_fifo_filler.v`, the FIFOs | master state, watchdog, status; block and bit counters; two dual-clock FIFOs; word address | read blocks, write blocks, refill, drain | card, memory |
| display | `rtl/vga_controller.v`, `vga_subset_converter.v` | counters, pixel pipeline | scan | not in the block design |
| PS/2, bus adapters | `ip/ps2`, `ip/adapters` | third-party protocol engines | | |

### What is hard about it

* **Channels of any age.** A write is an address beat and a data beat on two
  channels; each can be delayed in the interconnect for any time. The register
  block of the slave takes a data beat in any state and chooses between the
  address on the bus and an old one.
* **Clocks that do not wait.** `mtime` counts while software reads it in two
  halves and compares while software replaces the deadline in two halves.
* **Registered arbitration.** The PLIC's choice of the best interrupt is a
  cycle old when a claim reads it.
* **Clock domains, and resets that come late.** A reboot request must get
  through a synchroniser while the processor that gave it runs on, and must not
  come back after the reset. An SD command, its status and its clear cross
  between the bus clock and the card clock, whose ratio software chooses.
* **Timeouts that race with answers.** The SD watchdogs expire in any cycle,
  also that of the answer, and reset the host that is still shifting.
* **Queues at their limits.** The SD FIFOs fill when the bus is slow and run
  empty when it is busy; the UART's overflows while the firmware prints.
* **A one-way serial protocol.** No acknowledgement, no timeout, no image names:
  lost bytes, panics, reboots and a second run of the script meet in the loader.
* **Edges of numbers.** Counter wrap-round, signed samples, a pointer difference
  used as a byte count, a size check that ignores the load address,
  overlapping copies, the smallest int in decimal.

### What makes each component correct

* *Register slave*: seen from the program it is a register file; each access is
  answered, once, and a write is in its register before its answer.
* *CLINT*: the time read is a time of the call; the timer line is neither early
  while a deadline is being moved nor late or lost afterwards.
* *PLIC*: an interrupt that has become pending is claimed once, by one context,
  and does not return before it is completed; a claim obeys the settings.
* *PMC*: power goes off only on command, a command takes effect, and a reboot
  leaves no request behind.
* *Audio*: samples are asked for on time and for ever; the pulses carry the mean
  of the signed sample and are spread evenly.
* *Loader*: it jumps only to what was sent, whole, with the device tree in place,
  and it does jump if the line loses nothing.
* *Device setup*: when the kernel starts, and not before, UART, PLIC and display
  are set up and the picture is on the screen; a panic is heard before the
  reboot silences the UART.
* *Library*: each function returns and writes what ISO C says, `print` what its
  format says, and the checksum is that of zlib.
* *SD command path*: a status belongs to the last command, says either "answered" or
  "timed out", and every command with a timeout gets one; no pulse is lost on
  its way; each data command starts one transfer.
* *SD data path*: words arrive in order, none lost, repeated or torn; a transfer
  reported complete has left nothing out; every transfer with a timeout ends.

## 2. Modules and the code they model

`PROJECT.json` maps every definition to its lines. The names of states, signals
and functions are those of the source. In the hardware modules one step is one
rising clock edge, on which **all** `always` blocks of that clock move together:
unprimed variables are what the blocks read, primed ones what they assign.

| Module | Models | Correspondence |
|---|---|---|
| `RegFile` | (abstract) what a register block promises | one access at a time; `Apply` between request and response |
| `AxiLiteSlave` | `clint.v:92-271` and its copies, the core's bridge, the interconnect | `WriteFsm`, `ReadFsm`: one operator per branch of the `case`; `RegisterWrite`: the register block, which looks at `WVALID` only; `Master`: the bridge; `Carry`: the interconnect holds a beat for any number of cycles |
| `Clint` | `clint.v:262-287` on top of `AxiLiteSlave` | instantiates the slave with the three registers, adds `mtime` and the lines; the programs are the scripts that machine-mode software runs (external) |
| `InterruptService` | (abstract) what an interrupt controller promises | `Step`: some interrupts raised, at most one claimed, at most one completed |
| `Plic`, `MCPlic` | `AxiLite4Plic.v` for `N` sources and any contexts | `Pend`/`Close`: gateways with the source's later-assignment-wins order; `ArbitrateTargets`: the registered comparison tree, as "highest priority, lowest id"; `Stall`, `Pipeline`: the bus stages; `Handlers`: what software knows |
| `Pmc` | `pmc.v:261-291`, `dev.c:70-94` | `SysEdge` is the system clock, every other action is the bus clock's; the register is `RegFile`; `fallsThrough` is what the build made of the code behind `reboot` |
| `AudioPwm` | `audio_pwm.v:281-297` | pacing; an access is its effect on the registers |
| `PwmOutput` | `audio_pwm.v:299-335` | pulses; `Reversed` adds up the bits of the counter in reverse order |
| `Audio` | `audio_pwm.v` | both on one clock: a sample can arrive only in a cycle with `sample_request` |
| `SerialBoot`, `MCSerialBoot` | `start.c`, `serial.c`, `uart.c`, `panic.c`, `serial_boot.sh` | one action per byte sent, lost or read; the state of the loader is its position in the frame; `busy` while it prints and reads nothing; `Sleeping`: where the script sleeps |
| `StringLib` | `string.c` | one action per turn of a loop, the function in `call` |
| `Crc32` | `crc32.c` | one action per byte, words as sets of bits; `Zlib` is the reference |
| `Console` | `print.c`, the transmitting half of `uart.c` | one action per character looked at, digit divided off, or character stored; `TxShift` is the UART |
| `Wallpaper` | `wallpaper.h` | the bands of rows that the letters form, byte by byte |
| `BootScreen` | `init_fb` of `dev.c` | the fill, then one action per row |
| `Boot` | `start_firmware`, `uart_init`, `dev_init`, `panic`, `udelay`, `rdtime` | the order of the stages; every store to a device register, at its address, in its order |
| `MCFirmware` | the C code of the firmware as a whole | a behaviour is one call of the library, one call of `print`, one small bitmap, or the firmware from reset to its end |
| `SdCommand` | the SD command path | `WbEdge` and `SdEdge` are the two clocks; `masterNext`, `hostNext`, `trigNext`: one operator per state; software is a driver that issues, polls and clears (external: the repository has none) |
| `SdData` | the SD data path | the same; `dmNext`, `lineNext`; `WriteEdge` and `ReadEdge` are the two sides of a FIFO; the card clock is made from the bus clock |
| `MCSd` | both, side by side | between them lies only the start pulse, `start_rx`/`start_tx` of one and `request` of the other |
| `*_proof` | | theorems about the module of that name; `Audio_proof` also about `AudioPwm` and `PwmOutput`, `Firmware_proof` about `StringLib`, `BootScreen`, `Boot` and `MCFirmware`, `Sd_proof` about `SdCommand` and `MCSd` |

Definitions whose name ends in a suffix (`Merge_Slip`, `Gateways_Resample`,
`Counter_Early`, ...) or that are commented "wrong" are plausible errors in the
definition below them. No specification uses them. They serve to show that each
property notices an error: with the wrong form in place TLC reports the
property violated (`mutants` in `PROJECT.json`).

### Abstractions

* A register word is a function from byte lanes to values; two lanes of two
  values tell apart all that byte strobes can do.
* `Clint` has halves of `Half` values instead of 2^32; the arithmetic, with its
  carries and its modulus, is that of the code.
* The PLIC's tree of comparators is the relation `IsBest`: the tree prefers the
  left operand on a tie, so the lowest id wins. An enable write sets the enables
  of a context at once; the hardware has 32 sources in two words, where source
  ids 1 to 31 share the first and 32 is alone in the second.
* Address decoding inside the PLIC is abstracted to the kinds of access:
  claim/complete, priority, enable, threshold, and `peek` for all other reads.
* In `Pmc` a byte is the set of its one bits. The two clocks come from one board
  clock and the tools time the paths between them, so a system clock edge sees
  `pmc_state` before or after a change, never half changed. What
  `__builtin_unreachable` makes of the build is a choice in `Init`: either the
  processor stops after `reboot`'s store or it runs on into `poweroff`. The
  outputs go where the block design takes them: `sys_reboot` to the reset generator,
  `sys_poweroff` to the clock generator.
* In `SerialBoot` a header word has two bytes instead of four, images have two or
  three, and a byte is known by where it comes from. The checksum tells all
  payloads apart. A size word whose bytes come from different words may claim any
  number of bytes, from none to more than the memory. The script's sleeps of
  0.2 s outlast every message the loader prints; they do not outlast the second
  that a panic waits.
* In `Boot` the two images either arrive or do not: what happens then is
  `SerialBoot`'s. Time is a counter that moves at any speed against the
  processor, but `CharTicks` and `WaitTicks` tie the UART and the wait to it: a
  character at 460800 baud takes 22 microseconds, panic's wait a second.
* Which bitmap `init_fb` draws is a variable of `BootScreen` that never changes
  (`picture`): the code has one, the run adds a small one that tells apart what the
  picture of `wallpaper.h` does not.
* `Wallpaper` keeps one pixel for each byte of the picture, white where the byte
  has a white pixel in any row of its band: what `init_fb` could get wrong, the
  address of a row, a byte and a bit, is checked on the small bitmap bit by bit and
  on this one at its real size. The module is there for the size: most lines that
  `PROJECT.json` maps to it are the picture's data, which no control depends on, and a
  count of mapped lines should be read with that in mind.
* In the SD modules a byte is not put together bit by bit: a command and an
  answer are a tag and take `BITS_TO_SEND` and `BITS_TO_READ` cycles, a data word
  is its number and takes `WORD` cycles, and the checksums are good or bad.
  A bit on a line between frames is free, so the card may answer or start a
  block in any cycle, or never.
* A grey-coded pointer that crosses clocks is read as its old or its new value,
  which is what the grey code is for. The SD card clock is a register that
  toggles on the bus clock, so its edges come right after bus edges, every
  `2 * (divider + 1)` of them.

## 3. Runs: questions, bounds, results

| Run | Question | Instance | Distinct states |
|---|---|---|---|
| `axi_slave` | Is the slave a register file, and does every access end? | 2 registers, 1 undecoded address, 2 lanes of 1 bit | 84,537 |
| `clint` | Is the time read whole, the timer on time? | halves of 8, deadlines on both sides of a carry, 42 ticks | 190,509 |
| `plic` | Is no interrupt lost, repeated or shared, and does a claim obey the settings? | 2 sources, 2 contexts, one access open, enables and a threshold changing | 60,816 |
| `pmc` | Does power go off only on command, and does each command take effect? | 4 stages, builds that fall through and builds that do not | 991 |
| `audio` | Are samples on time, never too close, for ever, and do the pulses carry them, evenly? | 8 counter values, dividers 0, 1, 7, reset divider 5; samples of 3 bits | 117,348 |
| `serial` | Does the board boot what was sent, only whole images, and does it boot? | two runs, up to 2 bytes lost, a FIFO of 2 bytes, messages, panics and reboots | 3,015,627 |
| `firmware` | Does every function of the library do what its name promises, and does the firmware set up the board, draw its picture, hand over, or say why not? | 4 bytes of memory; 6-bit ints and 12-bit pointers; a bitmap of 2 by 6 pixels and the real one of 640 by 480 | 70,431 |
| `sd` | Does the SD controller keep commands and data apart and in order, and does each end? | 4 kinds of command, timeouts around the answer; blocks of 2 words, 3 card clocks, a bus that takes 2 to 40 cycles | 438,769 |
| `pmc_fallthrough` | Does power go off only on command in every build? | as `pmc` | **violated** |
| `serial_swap` | Does it boot what was sent after a second run? | two runs, 1 byte lost | **violated** |
| `serial_dtb` | Is the whole device tree there? | no loss | **violated** |
| `sd_slow_bus` | Is a read in memory when it is reported complete? | as `sd` | **violated** |

Why the bounds are enough:

* *AXI*: the slave compares addresses for equality only, so two registers and
  one other address show every confusion of two accesses. The proofs cover any
  number.
* *CLINT*: `MaxTime` of 42 spans five carries between halves of 8; an access
  takes 3 to any number of cycles, so a time read can straddle one or two
  carries, and both deadlines lie inside the run, one of them moved backwards
  and forwards across a change of the high half. The run stops at `MaxTime`,
  hence `CHECK_DEADLOCK FALSE`; wrap-round of a 64-bit count of 100 MHz ticks is
  5,800 years away. The proofs cover halves of any size and any deadlines.
* *PLIC*: races need one source to be raised or completed while another is
  claimed, and two contexts that see the same request; two of each do. Sources 1
  and 2 have priorities 2 and 1, context 1 can mask the lower one with its
  threshold, and context 0 switches its sources off again. There are no ties in
  the run; the proofs cover any priorities and any number of everything.
* *PMC*: the depth is the real one. Words are the two commands, zero, and two
  that differ from the commands in a bit or more and command nothing. The panic
  writes a byte, the kernel a word. The proofs cover any depth.
* *Audio*: a width in which dividers 0 and 1, the largest divider and the reset
  divider are all different. A turn of the PWM
  counter has 8 cycles, so a sample may last for a part of a turn or for
  several. The proofs cover every width and samples of any number of bits.
* *Serial*: any byte may be lost, also the first of a run, and a size word of mixed
  bytes claims any number from 0 to one more than the memory. One byte lost shifts
  the rest of the frame; two can shift by a whole (two-byte) word, the smallest loss that moves one field into the place of the
  next. Two runs are what it takes to reach a frame with the wrong bytes before
  it. A FIFO of two bytes overflows in every place where the firmware does not
  poll. The system stops when it runs the kernel or waits after the script has
  ended, hence `CHECK_DEADLOCK FALSE`.
* *Firmware*: four bytes hold two strings or two ranges that overlap in every
  way; the byte values are zero, one and one with its high bit set, and the ints
  are -1 (which becomes a byte), 0 and 257. Messages of up to two bytes go through
  the checksum, each a basis vector, zero or all ones: a CRC is linear. Ints of
  6 bits (`IntMod = 64`) are all tried, also the smallest; 12-bit pointers
  (`LongMod = 4096`) cover every number of hexadecimal digits up to three. `Calls`
  has each conversion, in formats that C allows (`LegalCall`). The proofs cover any
  memory, message, call and width. `WaitTicks`, `CharTicks` and
  `TimeMod` keep the order of a second, a character and the range of the counter,
  which wraps during the wait. Each task ends, hence `CHECK_DEADLOCK FALSE`.
* *SD command path*: the timeout of 9 falls before, on and after the cycles in
  which an answer of 2 bits to a command of 2 bits can arrive; lengths only
  shift those. `INIT_DELAY` is the real one. Two tags tell a command from the one
  before; older ones cannot be confused with it, since software waits.
* *SD data path*: `WORD` and `CRC_CYCLES` are the real ones for four lines. A FIFO of
  2 words instead of 16 and blocks of 2 words instead of 128 keep the proportions
  that matter: a block fills the FIFO, two blocks overfill it. A card cycle takes 2, 4 or 8
  bus cycles: with 2 and 4 the line is `Timely`, with 8 it is not, and only memory is
  promised its words. The bus acknowledges after 2 to 40 cycles, and a word takes 16,
  32 or 64 on the line: at the fastest card clock the bus falls behind and `BusKeepsUp`
  is false, at the other two it is true. Two cycles are the least there can be: the adapter
  to AXI has a register on the way there (`wb_to_axi4lite.v`, `awvalid` and `arvalid`) and
  one on the way back (`o_wb_ack`). Data timeouts are none, and one that expires in the
  middle of a transfer.

What the environment of a run leaves out, and the code does not:

* *AXI*: the interconnect never lets a data beat overtake its address (`WLeads`).
* *SD data*: an acknowledgement comes within `AckMax` cycles, so `RequestsEnd` says nothing of
  a bus that never answers; the driver clears the data status only between transfers.
* *SD command*: the driver's writes of command, timeout and argument are one step
  (`Issue`). Only the write of the argument starts a command, and it comes last.

## 4. Fairness

Safety is checked under the plain `Spec`. Where something must eventually
happen the module defines a specification with fairness:

* `AxiLiteSlave`: the clock runs while an access is open, the interconnect
  delivers each beat it holds (AXI obliges it to), and it takes a response it is
  offered. Nothing is assumed of when the core issues an access.
* `Pmc`: both clocks run (a bus action needs `BusClock`, which the power-down
  stops, so fairness does not run a stopped clock), the bus answers, the reset
  generator acts on its input. Commands, and the reset button, are never
  forced.
* `Audio`: the clock runs (`AudioSpec`).
* `SerialBoot`: the script writes what it has, the processor runs, a message
  that is being printed ends. The line is never forced to deliver:
  `BootsUnlessLost` speaks of runs that lose nothing.
* `MCFirmware`: the processor runs (`Program`), and the UART sends and time passes
  (`Outside`).
* `MCSd`: both clocks run, and a busy card becomes ready (`BUSY_CHECK` has no
  timeout: without that nothing would end it). Neither an answer nor a
  block from the card is ever forced: `RequestsEnd` rests on the watchdogs, and
  speaks of requests with a timeout. The bus's acknowledgement is part of the bus
  clock's step and comes within `AckMax` cycles.

## 5. What is proved

All theorems hold for every value of the constants that satisfies the module's
assumption. Each module with an assumption is evaluated by TLC in its runs.

| Theorem | States | Further assumption |
|---|---|---|
| `AxiLiteSlave_proof!TypeCorrect`, `Invariance` | types and the relation between state machines, beats and access | no data beat overtakes its address (`WLeads = FALSE`) |
| `AxiLiteSlave_proof!WrittenInvariance`, `Tracking` | `WrittenBeforeAnswer`, and with it `SlaveTracksAccess` | the same |
| `AxiLiteSlave_proof!Refinement` | the slave implements `RegFile` | the same |
| `Clint_proof!Invariance` | bus, programs, clock and lines stay in step | |
| `Clint_proof!TimeReadWhole`, `NeverEarly`, `OnTime` | `TimeReadIsCurrent`, `NoEarlyTimer`, `TimerKeepsDeadline` | |
| `Plic_proof!TypeCorrect`, `Invariance` | the five invariants of `Plic` | |
| `Plic_proof!Gatekeeping` | `GatewayClosedWhileServed` | |
| `Plic_proof!ExclusiveService` | `OneHandlerPerInterrupt` | |
| `Plic_proof!Fresh` | `BestRequestFresh` | |
| `Plic_proof!Refinement` | `Plic` implements `InterruptService` | |
| `Plic_proof!SettingsObeyed` | `ClaimRespectsSettings` | one access open at a time (`Overlap = FALSE`) |
| `Pmc_proof!TypeCorrect`, `Invariance`, `PowerSafe`, `NoTail` | types, `PowerOffOnCommand`, `NoRebootTail` | |
| `Audio_proof!Invariance`, `OnTime`, `Spaced` | `SampleOnTime`, `NeverTooSoon` | |
| `Audio_proof!DutyRight`, `SpreadRight` | `DutyFollowsSample`, `PulsesSpread` | |
| `SerialBoot_proof!TypeCorrect` | types | |
| `SerialBoot_proof!Invariance`, `WholeImages`, `TreeKept` | `OnlyWholeImages`, `DtbKept` | the images fit beside each other and below the device tree (`AllFit`) |
| `SerialBoot_proof!OneRun` | `OneRunBootsWhatWasSent` | the same |
| `Firmware_proof!StringInvariance`, `StringsRight` | how far each loop of `string.c` has come; `StringsAsInC` | |
| `Firmware_proof!ChecksumRight` | `ChecksumAsZlib` | |
| `Firmware_proof!PrintsRight` | `PrintsAsWritten` | legal calls (`CallsAssumption`); every `uint64_t` has at most `BUF` decimal digits, as with 2^64 and 32 |
| `Firmware_proof!PictureRight`, `PicturesShown` | `ShowsPicture` for any bitmap; `ScreenShowsPicture` | |
| `Firmware_proof!FirmwareInvariant`, `DevicesSetUp`, `PanicHeard` | from `uart_init` to the reset; `DevicesReady`, `PanicIsHeard` | |
| `Sd_proof!StageInvariant`, `PulsesNotWasted`, `AnswerIsCommands`, `TransfersAreCommands` | the stages of a command; `PulsesFindIdle`, `AnswerMatchesCommand`, `TransferPerCommand` | `INIT_DELAY <= 4`, as in the source |
| `Sd_proof!DataInvariant`, `WordsKeepOrder` | both FIFOs, the master, the serial host and the filler; `WordsInOrder` | `AckMin >= 2`, from the registers of the adapter |
| `Sd_proof!WritesAreWhole` | every word of a write that is reported complete has been on the line | the same |
| `Sd_proof!CompleteTransfersWhole` | `CompleteLeavesNothingOut` | the same |

The arguments:

* *Slave.* That a write lands in the right register depends on where the state
  machine stands when the data beat comes: `WriteTracksAccess` says it waits for
  data exactly if it holds this access's address, `BeatsBelongToAccess` that
  beats are under way only for the open access. These two, `ReadTracksAccess`
  and the types are inductive together; none is alone. The refinement maps
  `mem` to the registers and `call` to the open access: the edge that takes the
  data beat is `Apply`, the edge that passes the response on is
  `WriteResponse` or `ReadResponse`, all others are stuttering steps or
  `Request`. The lemmas about the bus hold whatever the registers show on a read
  (`ShowsWords`), so that the CLINT, whose time moves by itself, can cite them.
* *CLINT.* `ClintInv` says where the program stands in its call and what it knows
  there. Of a time read: the three words are halves of times `t`, `u`, `v` of the
  call, in this order (`GotOne`, `GotTwo`, `GotAll`), so if the high halves of `t`
  and `v` agree then that of `u` does, and the value is `u`. Of a deadline: after the
  first of its three writes the high word is the largest there is (`Parked`), so
  that every comparison on the way is with the old deadline, the new one, or one
  that is later than any time of the run (`MaxTime`). An access may take effect in any
  cycle it is open, hence the disjunctions in `ArmInv`. The proof cites the slave's
  lemmas through `Slave == INSTANCE AxiLiteSlave_proof`.
* *PLIC.* The heart is `BestRequestFresh`: whenever a read is in the read data
  stage, a best request names a source that is still pending. It is inductive
  because a source loses its pending bit only at a claim, which empties the
  stage. With it a claim never names a source that is already served, which
  gives `OneHandlerPerInterrupt` and both halves of
  `GatewayClosedWhileServed`; a completion names an id its handler holds
  (`BusTracksAccess`). `Overlap` may be true: this part of the controller does
  not depend on the bridge. The refinement maps `pending` to the set of sources
  with `ip`. `SettingsObeyed` does depend on it: with one access open, best
  requests follow the settings except in the one cycle after a write is taken
  (`SettingsInv`), and in that cycle no read can be in the data stage.
* *PMC.* `Course` says which stages of the reboot synchroniser can be low at each
  point of a command's life: none, the first ones, the last ones, or one run of
  stages. With it, whatever is left when the reset ends has been shifted out.
  `PowerKept`: without a power-off command nothing of one is in the other
  synchroniser, and the latch is open.
* *Audio.* `InStep` ties the counter to the history: while audio has been on
  since the last request, counter and elapsed cycles add up to the period. The
  case of a divider of 0, where the counter first runs through all values, is
  the one that makes the bound on `elapsed` necessary.
* *Pulses.* `PwmInv`: a block of cycles that saw one sample has counted those of its
  cycles so far in which the sample was not below the reversed counter (`Highs`), and
  `current_sample` is the sample counted from the lowest one (`SampleFlips`). What a
  whole block counts is shown for blocks of 1, 2, 4, ... cycles (`BlockHighs`): its
  second half differs from the first in one bit of the counter, which adds
  `2^(Bits - k)` to the reversal (`ReversedAdds`), and how many of `r`, `r + 2b`, ...
  and of `r + b`, `r + 3b`, ... lie up to the sample makes how many of `r`, `r + b`,
  ... do (`SharesAdd`). A turn starts at 0 in steps of 1, hence the duty; any other
  block starts below its step (`ReversedLow`), hence one cycle more or less.
* *Serial boot.* `OnlyWholeImages` is not inductive: that the checksum covers what is
  in memory needs `Stored` (the part of the payload read so far is where it
  belongs), that the kernel is still there when the ramfs is complete needs
  `KernelThere`, and a misread size may send the loader over the device tree,
  which matters only if such a frame could pass (`TreeThere`). `OneRun` adds the order
  of the line: the last byte of each frame occurs once in the script
  (`ScriptOrder`), so it is in the FIFO at most once and only after what came before
  it (`Ordered`); a frame that passes ends in the last byte of its image. If the
  ramfs passes in the kernel's place, then the line is silent for good
  (`Silent`), and if the kernel has passed, only the ramfs is left to pass
  (`KernelPast`).
* *Library.* `LibInv` is the loop invariant of each function of `string.c`
  that writes: the part before the pointer is as it shall be and the rest as it
  was at the call; for `memmove` the direction decides which part that is.
  `StringInv` adds those that read: memory is as it was, and the bytes passed so far
  did not end the loop (`Passed`). What is promised is stated without a loop, as
  the first place at which two strings differ or one ends, the least place of a NUL,
  the least or greatest of a character; that the loop's answer is that one follows
  from `EndsHere`: a loop that stops at byte `i`, and was told nothing by the bytes
  before it, has found the first.
* *Checksum.* Words are sets of bits, so shifting and exclusive or are about each
  bit by itself (`WordBits`, `ShiftedBits`). `FourBits`: four steps of zlib's register
  shift out four bits and add the remainders those leave one by one, and the sum of
  these is their entry (`EntryBits`, which is where the 16 words of the table are looked
  at). Two such steps make a byte (`UpdateIsSteps`), so the register is zlib's after
  every byte (`CrcInv`), for bytes and messages of any kind.
* *Print.* `PrintInv` adds up what a call has written: what is on the line, in the UART
  (`tx`), still to be put (`todo`), and what is pending in `putnumber`: before
  its first loop has ended the numeral of what is left of the number and then the
  digits found, last first; afterwards just those. Together they are what the
  characters read so far ask for (`Upto`, in `OutputInv`). The parser's step past `%` is
  right because the character that it looks at is never a conversion letter itself
  (`CallInv`), and it uses as many arguments as there are letters before
  (`ArgCount`). The digits found and the size of what is left keep each other below
  `BUF` digits (`PowerSteps`). The most negative int has no negation as an int, but it
  is widened first (`WidenedInt`). The messages of `panic` and the greeting are legal
  calls (`SpeaksLegal`), so the invariant holds through the start-up too.
* *Induction.* What `Zlib`, `Numeral`, `PowerOfTen`, `Converts` and `FlattenSeq`
  compute is proved from `Induction`, itself from `Least`: a set of numbers that is
  not empty has a least element. A recursive function is a `CHOOSE` for the prover;
  one that satisfies the equation is shown to exist for each bound, and any two to
  agree (`SomeNumerals` and `NumeralsAgree`, and so on). `Audio_proof` does the same for
  powers of two and the reversed counter.
* *Boot picture.* After `r` rows the white words are the ink of the first `r` rows;
  no two pixels share a word because a picture row is not longer than the stride.
* *Start-up and panic.* `DevicesReady` and `PanicIsHeard` speak of the end of a long
  way, so `BootInv` follows it. `StoresInv`: after `n` stores of a list, the registers
  hold the first `n` values; it needs that the addresses differ, and that the
  divisor latch is what the second and third store of `uart_init` reach because the
  first has set bit 7 of `LCR` (`UartStores`). `TextInv`: the message that the
  terminal should show in the end is, in this order, on the terminal (`line`), in
  the UART (`tx`) and still to be put there (`todo`); together they are what `print`
  has come to (`Spread(Given)`), and the place in a format says how much that is
  (`Spoken`). `TimeInv`: while a character is in the UART during the wait, its
  age is the time waited, whatever the counter started from and also when it wraps
  (`ElapsedTicks`); as a character takes less than the wait (`CharTicks <
  WaitTicks`) and time does not pass a character that is due, none is left when the
  wait is over. That `putchar` waits for the UART to be empty is why one is all
  there can be (`m <= n + 1` in `Spread`).
* *SD command path.* A command is in one of the stages of `SdInv`: issued, its start
  crossing to the card clock, executed, its status crossing back, seen, its clear
  crossing. Each names where every level of the two monostable crossings and the two
  stages of the bistable ones stand. A stage leaves no pulse for the next because
  software starts the next only on what it has seen of the last; the one thing that
  software does not see the end of is the serial host's `INIT` after a timeout. The
  next start reaches the host no sooner than four card cycles after its reset, hence
  `INIT_DELAY <= 4`: the source has 4, and TLC finds `PulsesFindIdle` violated
  with a longer one.
* *SD data path, order.* Pointers count modulo twice the depth and tell nothing of
  the past, so `RxCounts` and `TxCounts` put counts behind them that only grow: words
  given (`w`, or the filler's address), words that the reader knows of (`p`), words
  taken, and words that the writer knows to be taken (`q`). They are in this order
  and never more than `DEPTH` apart, so the pointers determine them, full and empty
  err on the safe side, and word `n` lies in cell `n` mod `DEPTH` from when it is
  given until it is taken. In memory the address is the count of words taken; on
  the line it is the length of `sent`, except in the window in which a word has been
  taken and its last bits are still to be sent (`TxWindow`). Then its cell is free,
  and only the time of an access protects it: that is where `Timely`, `p <= AckMin + 2`,
  comes from; without it only how many words are on the line is known. `AckMin >= 2` is
  needed for the first words: the filler counts them while the FIFO's write side is
  still held reset. `Off` says what a transfer may rely on when
  it begins, whatever the last one left behind.
* *SD data path, completeness.* `CC` is set only when the serial host came to `IDLE`
  with a good checksum, which is after its last block (`TxWhole`, `RxBlocks`: the
  words of the blocks before, and of this one by the counter). For a write that
  is all. A read may then still be in the FIFO. `Left` is the number of bus cycles
  that the filler needs at most until memory has it all: it falls by one with each
  bus cycle, and rises by the time of one access with each new word, of which there
  is one per `WORD` card cycles (`OnTime`, `Since`). So it never exceeds
  `Most(period, words)`. Three card cycles after the end of the last checksum the
  master switches the FIFO off; `BusKeepsUp` says that this is later, and `OffWhole` keeps
  what follows from it. Until then no word is lost on any bus: what memory has not got
  lies between the two pointers of the FIFO (`RestWaits`), which never overflows: the
  master stops the serial host before the next word when it is full. `BusKeepsUp` is
  not assumed but part of what is stated: it holds for any number of words if an
  access of the bus, with two cycles around it, takes no longer than a word on the
  line and a little more than `CRC_CYCLES` card cycles; the slower the bus is beyond
  that, the fewer words a read may have.

Only model-checked:

* liveness (`AccessCompletes`, `RebootHappens`, `PowerOffHappens`,
  `SamplesFlow`, `BootsUnlessLost`, `CallsReturn`, `RequestsEnd`): fairness and
  `ENABLED` are beyond the prover. Every safety invariant and
  every action property of the passing runs is a theorem.

No module uses a `RECURSIVE` operator.

## 6. What the checks found

| Run | Where | What |
|---|---|---|
| `serial_dtb` | `firmware/start.c:12` | The length of the device tree is counted in 8-byte words and used as bytes: an eighth is copied. |
| `serial_swap` | `firmware/start.c:39` | A byte of the kernel frame's header is lost, so the board refuses it and reboots. It takes the ramfs frame of this run of the script for the kernel and the kernel frame of the next run for the ramfs; every check passes. |
| `pmc_fallthrough` | `firmware/dev.c:86` | `reboot()` runs on into `poweroff()`; the board is switched off instead of rebooted. |
| `sd_slow_bus` | `ip/sd/sd_data_master.v:66`, where the source has a TODO of its own | A read is reported complete when the line is done, and the master then goes to `IDLE` and switches the FIFO off, which resets it. If the bus is too slow to have drained it by then the last words are lost, and the status does not tell. `CompleteLeavesNothingOut` and its theorem say which bus is fast enough (`BusKeepsUp`). |

Seen while modelling, and not shown by a run of its own:

* `ip/sd/sd_data_serial_host.v:271`: on writes the next word is asked for two card
  cycles before this one is over, and the FIFO's output is transparent. With a
  card clock that is slow for the bus the filler can overwrite the cell meanwhile, and
  the word goes out torn. The constants of the `sd` run include such a clock: with them
  `LineInOrder`, which is `WordsInOrder` without its condition `Timely`, does not hold
  (card cycles of 8 bus cycles; 5 would do).
* A bus that acknowledged after a single cycle would lose the first words of a write,
  which come before the FIFO has left its reset. The adapter to AXI takes two; the
  module's assumption says so.
* `firmware/entry.S:14`: with an empty BSS the start code branches to the label 2 behind
  `tail start_firmware`, a `wfi` loop, instead of past the clearing loop only.
* When the data watchdog reaches its limit in the cycle after completion, the
  data status shows both the completion and the timeout.
* The SD command path relies on a driver that sees the status cleared before it
  issues the next command. One that does not breaks `AnswerMatchesCommand`,
  `PulsesFindIdle` and `TransferPerCommand`.
* `firmware/serial.c:47` compares the size with the whole memory, whatever
  address the image goes to: a ramfs of more than 16 MB, loaded at `0x86000000`,
  overwrites the device tree that was put at `0x87000000` before it. `AllFit`
  excludes it.
* `rtl/plic.v:32` and `firmware/mmio.h:54` have context 0 of the PLIC as the
  machine's, `firmware/len-fpga.dts:52` lists the supervisor's interrupt first.

What holds is as telling. That a claim obeys the settings although the PLIC's
arbitration is registered is due to the bridge, with one access open at a time: with
overlapping accesses `ClaimRespectsSettings` does not hold, in spite of the
one-bit stall, and without them it holds without the stall too. The slave's
register block is right although it ignores the state machine, but only because
the interconnect never lets a data beat overtake its address. Whatever is lost
on the serial line, what is in memory when the board jumps is whole images: the
checksum and the order of the checks suffice for that, and one run never mixes
them up, however often the board starts again in the middle of it.

## 7. Not modelled

* The RISC-V core beyond its uncached bridge and its interrupt inputs: generated,
  28,000 lines. The 64-bit `ticks` counter of `riscv_cpu.v` is a second clock
  beside `mtime` with a reset of its own: whether they agree is decided by the
  reset generator, which is not in the repository.
* `fifo_refill_intr` of the audio block: an AND with a flag of an external FIFO.
* The start code: `entry.S` sets two pointers, clears the BSS and jumps.
* Register offsets of `mmio.h` that nothing uses; `csr.h`, constants that no source
  file uses.
* Of the SD controller: the bits of words and checksums, the software reset, the
  interrupt enables, the data registers of the slave, byte alignment of DMA
  addresses and byte counts (`sd_wb_sel_ctrl.v`), the pads. Reset values are the
  initial states.
* The UART, the DDR2 controller, the interconnect, the clock and reset
  generators and the display core of the block design: external, modelled by
  how the code uses them or not at all.
* `vga_controller.v`: its own header calls it deprecated, and neither it nor
  `vga_subset_converter.v` (wires) is in the block design.
* PS/2 (`ip/ps2`) and the AXI-to-Wishbone adapters (`ip/adapters`): third-party
  code without a user in the repository's own logic.
* Build scripts, constraints, documentation.

## 8. Plan

Done, most important behaviour first: the register slave every access goes
through, the two interrupt controllers, power, the boot path, audio; then the
SD command and data paths, the whole of the firmware's C code, and proofs for all of
these.

What is left:

1. **SD software reset and interrupt enables**, with a driver that uses them.
2. **PLIC**: that a claimed source is the best of those pending; ties among more than
   two sources.
3. **PS/2 and adapters**: frame protocol; AXI4-Lite to Wishbone.

## 9. Running it

    tlc -workers 2 -config Plic.cfg MCPlic
    tlapm Plic_proof.tla

Each run of section 3 is the module and configuration `PROJECT.json` names for
it. The longest takes about two minutes on two cores, the proofs of one module up
to a few minutes.
