# A TLA+ model of the boot firmware

The repository holds the boot code of a RISC-V system on chip (and that of its
ARM predecessor): the mask ROM `romboot`, the 2nd boot loader `bl1`, the older
`sdboot`, and host tools. This directory models the parts whose behaviour
depends on more than one actor: processor and SD host controller, processor and
card, hart and hart, loader and USB host, loader and I2C target, one boot and the
next. Each model is checked by TLC on a small instance, and the safety properties
of each are theorems that TLAPS proves for every value of the constants.

Paths below are relative to `src/`; `romboot` is `nexell_riscv/romboot`, `bl1`
is `nexell_riscv/bl1`.

## 1. Inventory

| component | source | state it keeps | operations | interacts with |
|---|---|---|---|---|
| romboot flow | `romboot/src/iROMBOOT.c`, end of `iSDBOOT.c`, `iSPIBOOT.c`, `nx_gpt.c`, `head.S` | SRAM: header and image; a few locals | read the mode pins, find the boot header (sector 1, or after the GPT), load, jump | SD driver, SPI flash, next stage |
| romboot SD driver | `romboot/src/iSDBOOT.c` | `SDBOOTSTATUS` (rca, capacity, port), controller registers | SetClock, SendCommand, Open, ReadSectors | host controller (FIFO, raw interrupt bits), card |
| romboot harts | `romboot/include/nx_smp.h` | one wfi per hart | park | anything that raises an interrupt |
| sdboot harts | `sdboot/include/smp.h`, `sdboot/head.S` | the msip words of the CLINT | smp_pause, smp_resume | hart with hart |
| sdboot card | `sdboot/sd.c` | none | start-up of a card in SPI mode | card |
| bl1 flow | `bl1/src/main.c` | third boot information | resume or load, launch | all of bl1 |
| bl1 CPUs | `bl1/src/sub_cpu.c` | `nx_subcpu_bringup_info` in SRAM | s5p6818_subcpu_bringup, s5p6818_subcpu_on | CPU 0 with the other CPUs, later the kernel |
| bl1 suspend | `bl1/src/plat_pm.c` | scratch registers that survive power-off | suspend_mark, resume_check, resume, suspend | kernel and firmware before and after |
| bl1 DRAM | `bl1/src/devices/memory/memory.c`, `ddr3/ddr3_sdram.c` | PHY and controller registers, mode registers of the ranks, calibration globals | memory_initialize, ddr3_initialize, five calibrations, enter/exit_self_refresh | PHY, DRAM, suspend |
| bl1 USB | `bl1/src/boot/iUSBBOOT.c` | endpoint state, receive counters | polled device controller | USB host |
| bl1 I2C | `bl1/src/devices/i2c_gpio.c` | two pins, `g_started` | i2c_gpio_read, i2c_gpio_write | PMIC on the bus |
| bl1 SD, FAT | `bl1/src/boot/iSDHCBOOT.c`, `diskio.c`, `fatfs.c` | as romboot | as romboot, plus a file system | card |
| bl1 devices | `bl1/src/devices` | hardware registers | clock, UART, PMIC, DRAM training | hardware |
| ARM boot ROM | `nexell_arm/romboot/src` | per boot device | table of devices with fall-back; UART (X/Y-modem), NAND with ECC, SD, SPI, USB; RSA and AES | host or medium |
| host tools | `nexell_arm/tools`, `nexell_riscv/tools` | files | build images | - |

What is hard in it:

- the SD driver polls a controller that works at the same time. Interrupt bits,
  FIFO level and data are read one after the other, and every wait has a count
  that nothing relates to the time the hardware needs: a command may be given up
  and finish later, in the middle of the next one;
- commands and answers are lost, and the driver takes a missing answer for
  information (a card that does not answer APP_CMD is an MMC) and a damaged OCR
  for a good one, because its CRC is not looked at;
- a failed boot leaves an image in SRAM, which meets the next attempt;
- a reset may come at any time, and finds SRAM and the card as they were;
- harts and CPUs start each other through a few shared words without any lock;
- a suspend leaves a record of five words in registers that outlive the power,
  written one by one, in two formats that share a register; what it describes
  is in a DRAM that has to sleep through a complete initialisation;
- the DRAM start is tried three times, each try may stop in the middle of a
  calibration, and leaves modes, start bits and result variables behind;
- the USB host resets the bus whenever it likes, in the middle of a pass of
  the handler or of a file, and what an answer left in the transmit FIFO comes
  before the next one;
- an I2C target refuses, stretches the clock, or is found sending by a reset, and
  a call that fails sends no STOP;
- loops with counters tested before or after they are decremented, sizes cut to
  limits that leave out the header.

What makes each component correct:

- flow: only a whole, signed image of the medium in the slot is started, and
  one that is there and readable is started;
- SD commands: a call returns; success means that the answer is that of this
  command; retries do not execute it twice;
- card set-up: an opened card is selected, at the address and with the
  capacity, kind and bus width the driver believes in;
- SD reads: success means all the words of the read in their order and nothing
  else; what one read leaves is not taken for the next; every call returns;
- harts: nobody is in the payload before all are released; nobody is forgotten;
- CPUs: none is counted that is not up, none jumps to a stale address, dead
  ones do not stop the boot;
- suspend and resume: a warm jump only into the memory that was marked, once per
  record, and never refused after a suspend that nothing disturbed;
- DRAM: success means every calibration in one attempt, no rank is left in a
  mode in which it does not answer, somebody refreshes the contents of a suspend;
- USB: the body that is launched is that of one file; descriptors arrive whole;
- I2C: TRUE means that the bytes were moved and the bus is free.

`PROJECT.json` lists every component with its status, and every hazard at its
line with the properties about it.

## 2. Modules

| module | models | composition |
|---|---|---|
| `SmpBarrier` | multi-hart start of sdboot | on its own |
| `SdCommand` | one SD command, or clock change, register by register | lowest layer of the driver; implements `CommandPromise` |
| `CommandPromise` | what a caller may rely on when it sends commands one after the other (abstract) | `SdOpen` and `SdRead` build on it |
| `SdOpen` | `NX_SDMMC_Open` and below, one step per command exchange | abstracts `SdCommand` to: answered, or error |
| `SdRead` | `NX_SDMMC_ReadSectors`, `NX_SDMMC_ReadSectorData` against the FIFO | likewise |
| `RomBoot` | the flow from reset to launch, reset included | abstracts `SdOpen` to: opened or not, `SdRead` to: all the sectors or some of them |
| `RomBootMC` | media for `RomBoot` | extends `RomBoot` |
| `BootPromise` | what a boot ROM promises (abstract) | `RomBoot` implements it |
| `SubCpu` | start of the secondary CPUs in bl1 | on its own |
| `Bl1Boot` | `main()` of bl1, resume and suspend over any number of resets | abstracts `Ddr3Init` to: contents kept or not, the loaders to: image or none |
| `Ddr3Init` | the DRAM start, and self refresh in the suspend | lower layer of `Bl1Boot` |
| `UsbBoot` | download of the third loader over USB, against the host | on its own |
| `I2cGpio` | the bit-banged I2C bus, pin access by pin access | on its own |
| `I2cGpioMC` | device address and bytes for `I2cGpio` | extends `I2cGpio` |
| `SdCommandProofs`, `SdOpenProofs`, `SdReadProofs`, `RomBootProofs`, `Bl1BootProofs`, `UsbBootProofs` | theorems about one module each | extend the module they are about |
| `HartStartProofs` | theorems about `SmpBarrier` and `SubCpu`, the two ways of starting a processor | extends both |
| `BoardInitProofs` | theorems about `Ddr3Init` and `I2cGpio`, what `bl1` sets up on the board | extends both |

A definition whose name continues another's after an underscore
(`CheckDto_Anyway`) is a mutant: the definition with a plausible bug, not used
by the specification. Each shows that some property is able to fail.

### RomBoot

A sector is a *block*: an identity and the answers it gives to the code that
looks into it (partition type 0xee, GPT signature and CRC, location of the
entries, `HEADER_ID`, `LoadSize`). `bi` is `pbm->bi`, the 512 bytes at the start
of SRAM into which MBR, GPT header and boot header are read one over the other;
`image` is `pbm->image`, the blocks behind it. Neither is cleared by a reset.
`source` is the mode pin, the medium, and whether that medium may fail; `Reset`,
possible at every moment, may exchange it. The steps of `SDMMCBOOT` are
`Open, ReadMbr, ReadSector1, CheckGpt, ReadHeader, CheckSignature, ReadImage`;
a sector beyond the end of the medium fails, and a faulty card fails anywhere,
leaving anything in the header and a prefix of the image. `iSPIBOOT` is
`SpiReadHeader, SpiReadImage` and keeps its return value of 1 on the error path,
as the code does. `Launch` jumps to what is in SRAM *now*; the
property compares it with what is on the medium. `CheckGpt` leaves `bi` alone,
while `is_gpt_valid` clears `header_crc32` in it (`nx_gpt.c:173`): no one reads
that word again, unless a sector is a GPT header with a wrong CRC and a boot
header as well, which no medium of the model is.

Refinement: `BootPromise` has a medium and the set of images started since the
last reset. The mapping takes `source` for the medium and `{Loaded}` for that
set once `romboot()` has returned success. Reads and decisions are stutters, a
failed boot is one too, the launch must be the launch of a `Bootable` image, and
a reset the reset of both.

### SdCommand

A step of the driver is one access to `CMD`, `RINTSTS`, `STATUS`, the response
register or the data register, with what follows from it: write the command
(acknowledging the interrupt bits first), poll the start bit, retry on HLE, poll
CD, drain the FIFO for a STOP or ABORT, look at the response errors, poll busy
for R1B. `NX_SDMMC_SetClock` uses the same steps for its updates of the clock,
with its own rule for the count: `SendCommandInternal` shares one count
over all HLE retries (`iSDBOOT.c:195-213`), `SetClock` starts anew with each
(`iSDBOOT.c:117-136`). The controller takes the command, executes it and
raises CD, errors or HTO whenever it likes or not at all. `quiet`, `sent` and
`failed` are history.

Refinement: `CommandPromise` has one call at a time, whether its command has been
executed (taken by the controller), and whether that of an earlier call is still
waiting. The mapping reads the first from `sent`, the second from a start bit
that is set with a command of another call in `CMD` (`late`), the result from
`status`, and `alone` from `quiet`. Polls, HLE retries and data are stutters. What
it says is not in any line of the code: CMDBUSY means that the command was *not*
executed and still may be, any other status that it was, exactly once; the
controller gets the commands in the order of the calls; a call that does not give
up (CMDBUSY, CMDTOUT) leaves the next one an idle controller.


### SdOpen

A step is one command exchange, as `CommandPromise` allows: after an error the
command has been executed or it has not, and if it is executed late, that is
before the next one, where the card cannot tell the difference. What is left out
is an answer that arrives after the driver gave up on it: the call
after that one may take it for its own (`alone` in the promise). The card has its state (idle, ready, ident,
stby, tran), relative address, bus width, block length, and whether APP_CMD or
SEND_IF_COND came before; it follows the SD or MMC diagram. If `lossy`, a
command may not arrive or its answer may be damaged. The driver sees the same
error in each of these cases and in that of a card that does not answer the
command in its state. Two answers are exceptions (`Damaged`): `SD_SEND_OP_COND` and
`SEND_OP_COND` are sent without `CHKRSPCRC` (`iSDBOOT.c:507`, `:552`), so that a
damaged OCR may be taken for a good one, with any power-up and capacity bit;
`hurt` is the history of it. `SendCommand` sends SEND_STATUS after an error, which ends
an application command sequence in the card. GO_IDLE_STATE has no answer, so
that its loss is not seen. A card may be fresh or left in `tran` by an
earlier boot. Results that the code drops (`SetCardDetectPullUp`,
`SetBusWidth`, the inner command of `SendAppCommand`) are dropped.

### SdRead

A step is one access to `RINTSTS` or `STATUS` and what follows from it; a word
of data is the pair of the read it belongs to and its place in it. The
controller moves words from the card through `pipe` to the FIFO and raises RXDR, DTO,
HTO, ACD and the error bits between any two steps of the driver. `count` and
`Timeout` are unsigned and wrap at `WORD`. `DrainFifo` takes the words that
were there when the level was read. After a failure the driver sends
STOP_TRANSMISSION and resets the FIFO, as the code does, and reads no more:
`SDMMCBOOT` reads again only after a success.

### SmpBarrier

One step per access to a msip word, in program order of each hart:
`RaiseMsip` (first loop 41), `TakeIpi` (loop 42), `ClearMsip`, `CheckMsip`
(second loop 41). `smp_pause` sends every hart but the boot hart into the middle
of `smp_resume`. The words past the last hart read as zero. The platform has
one CLINT, so the variant for two is not compiled.

### SubCpu

CPU 0: `Begin, ClearFlag, PowerOn, PollFlag`, then `NoAnswer` (once more, or
give the CPU up) or `Answered`. Another CPU: `Announce` (sets the shared flag at
some time after it was powered on, or never), `WakeUp` (reads `jump_addr`) and
`Compare` (reads `cpu_id`). The three words hold anything at reset. After the
bring-up `KernelWrites` writes address and CPU number in either order; the
kernel is external. The build is the one with `SUPPORT_KERNEL_3_4`
(`main.c:125-128`), for aarch64; a request to a CPU that is on has no effect.
`retry > 3` is five tries; the constant `RETRY` stands for the 3.

### Bl1Boot

The steps of `main()` are `ResumeCheck` (`s5p6818_resume_check`),
`MemoryInitialize`, `ReadRecord` and the four outcomes of `s5p6818_resume`
(`JumpToKernel, KernelLost, JumpToAtf, AtfLost`), then `Launch` or `Fallback`
(the USB boot of the ROM). `suspend_mark` is ten steps, one per register
(`MarkClears`, `MarkSets`), because a reset between two of them leaves what is
found at the next boot. `ReadRecord` is one step for the reads and the five writes
that clear the record (`plat_pm.c:111-115`): the signature is cleared first, so
that a reset after it finds no record, and one before it the whole. `scratch` and
`wakeup` outlive every reset, and DRAM does for certain only in self refresh: `mem` is its generation, and the CRC of a
memory is its generation too (0 for a size of 0, as in `calc_crc`). That takes
two generations to differ in a word that is looked at; `calc_crc` strides by
eight words (`crc.c:137-150`) and would not see a change in the others.
`MemoryInitialize` of a resume keeps what was in self refresh or does not; that
a clean suspend is resumed (`CleanSuspendResumes`) is said of a DRAM that
outlives the gap shown by `Ddr3InitResume.cfg` (section 3). The
operating system only works and calls the suspend code; the firmware that writes
the other format of the record is external, as far as `s5p6818_resume` reads
it. `fresh`, `marked` and `clean` are history.

### Ddr3Init

`TryAgain` to `Returned` are `memory_initialize` with its retries;
`ResetGen` is a round of `resetgen_sequence`, whose counter is tested after the
loop; each of the five calibrations has a step that starts it, the polls, and a
step that ends it, with what the error path undoes. A rank is in write leveling
mode (`wl`), in MPR mode (`mpr`), in self refresh (`sr`), and has a termination
(`rtt`). `trained` says from which attempt the value in each result variable is,
`gt_bad` that the one of gate leveling is the pattern that means failure. What a rank in self
refresh makes of the commands that `ddr3_initialize` sends in a resume too is not
for the code to know: it heeds mode register writes or not (`deaf`), and the NOP at
`ddr3_sdram.c:1662-1665`, which raises CKE, wakes it or not (`wakes`). Where it does,
`DfiComplete` ends self refresh of all the ranks while auto refresh is off, and
`Refreshed` says how far that gap reaches. The resets of controller and PHY are
taken not to reach the DRAM. The build enables gate leveling alone; all subsets of
the options are initial states. `EnterSelfRefresh, RankSleeps, Asleep`, then `PowerCycle` or
`WakeBeforePowerOff`, are the suspend; `MemoryDone` ends the initialisation
that follows a power cycle, with `exit_self_refresh`.

### UsbBoot

A pass of `nx_udc_int_hndlr` reads the interrupt status once (`ReadStatus`), then
looks at its sources one after the other, each a step, and ends with the write
that clears the status (`ClearStatus`), latches raised meanwhile included. The
host may act between any two. Data are units `<<session, place in the file>>`, so that a unit of an
earlier session cannot pass for one of this one. A packet of endpoint 2 holds the
whole header at high speed and a piece of it at full speed.

The transmit FIFO of endpoint 0 is the packet that is set up (`tx`) and what is in
the FIFO behind it (`left`). `Send` pushes the data of a packet and makes it a
packet of as many units, taken from the front of the FIFO, so that whatever an
earlier step left comes first. Two steps leave something. `GetConfiguration` pushes a
word for a packet of one byte whose size and control words the end of
`nx_usb_ep0_int_hndlr` overwrites (`iUSBBOOT.c:242-249`, `:316-325`): there is
a packet, or the word stays alone. A bus reset may break off a packet and keep
its data. The wait for room in the FIFO (`:684`) is a guard of
`nx_usb_transfer_ep0` and has no count. A SETUP that comes while `ep0_state` is not
`INIT` is not read (`:213-215`): its two words stay in the receive FIFO and are the
next two statuses, taken to be of no kind the loader acts on.

`asked` says that the host asked for the configuration in this session, `lag` that it has
outrun the loader in this session, in one of these ways: it reset the bus in
the middle of a pass, whose end erases the reset (`:888`), or with a packet not read or
not sent; the core enumerated in the middle of a pass; a SETUP
came behind an entry that was not read, so that a token is answered before the
request it is for.

### I2cGpio

The calls are any reads and writes in any order; those of the PMIC drivers
(`bl1/src/devices/pmic`) are among them. A call is a number of bytes, and a byte its START if it has one,
its bits, the acknowledge clock, and a STOP behind the last: `byte` and `bit` are the place of
the loops of `i2c_gpio_read` or `i2c_gpio_write` and of `i2c_write_byte` or
`i2c_read_byte` below them, and `Op` what is done there. Each `Op` is a few steps,
one per access to a pin; `phase` says which is next, and `Advance` goes on with
the loops. The first access that fails ends the call, and nothing is undone: the
next begins with a repeated START. A line is high when nobody drives it low. The
target follows the edges of the lines as an I2C target does (`Bus`, `Rising`,
`Falling`); it refuses, it stretches, and it may be sending a byte at the
beginning. What it received and sent (`got`, `gave`) is compared with the
arguments and `pdata`.

## 3. What the runs check

| run | question | answer |
|---|---|---|
| `rom_boot` | is ever anything but a whole signed image of this medium started, and is it started when it can be? | `LaunchedWhole`, `KeepsPromise` (refinement), `EndsRight` (liveness) hold |
| `sd_open` | can losses, repetitions or a card left over by a restart make Open succeed with a card it has misunderstood? | no (`OpenedReady`, `AddressingAgrees`), except that a damaged OCR that says "ready" may have a wrong capacity bit, which is taken; and it returns (`OpenReturns`); without losses the bus widths agree (`WidthAgreesClean`) and it fails only for an empty slot or a card that stays busy (`FailsForAReason`) |
| `sd_read` | can words be lost, doubled, misplaced or stale? can a read hang? | no (`InOrder`, which also says that a success is complete, `CleanBeforeRead`); an error seen while words are missing fails the read (`EarlyErrorFails`); every call returns (`ReadReturns`) |
| `sd_command` | can a call take the answer of an earlier one, or have its command executed twice? | not if the controller was idle when it began (`OwnAnswer`), never; every call returns (`CallReturns`); commands are executed at most once, in the order of the calls, and the status says whether they were (`KeepsCommandPromise`, refinement) |
| `smp_barrier` | is smp_resume a barrier in every interleaving? | yes (`Barrier`, `NoStaleIpi`, `WokenOnce`), and all harts pass (`AllStart`) |
| `sub_cpu` | what can late or dead CPUs do through the shared flag? | `CountsNoGhost`, `LaunchedByKernel`, `BringupReturns` hold |
| `bl1_boot` | what can resets between two register writes, lost memory and aborted suspends make of a resume? | a warm jump finds the memory that was marked, except through a record cut off after its second word (`WarmMemoryTrue`); a record is good for one jump (`RecordUsedOnce`) and for one failure (`NoResumeLoop`); an undisturbed suspend is resumed (`CleanSuspendResumes`); the loader hands over (`HandsOver`) |
| `ddr3_init` | what do failed attempts leave behind, and do the contents survive a suspend? | the PHY is programmed only when it shows its reset value (`PhyAlive`), no mode and no start bit is left (`NoStrayMode`), success is one whole attempt (`SuccessIsWhole`), every rank is refreshed from then on, except between a NOP of a resume that ends self refresh and the return of `memory_initialize` (`Refreshed`), and all of it ends (`Terminates`) |
| `usb_boot` | what do bus resets in the middle of a download make of the image? | nothing, if the loader keeps up with the host: header and body are of one signed file (`HeaderOfOneFile`, `BodyIsFile`), an undisturbed host is served (`Downloads`), and descriptors arrive whole (`DescriptorWhole`) if moreover the configuration was not asked for and no bus reset left data in the transmit FIFO |
| `i2c_gpio` | can refusals, stretching and broken off calls make a transfer lie? | no: TRUE means moved and released (`TransferFaithful`), no data bit looks like START or STOP (`NoStrayCondition`), FALSE has a reason (`FailsForAReason`), every call returns (`CallReturns`) |

The type invariants are in no run: each is proved instead (`Typing`,
`SmpTyping`, `I2cTyping`), for every value of the constants.

Two more runs show a disagreement between the code and what is written in it,
each as a counterexample of TLC:

| run | what is written | what the code does |
|---|---|---|
| `rom_boot_spi` | "not boot image" (`iSPIBOOT.c:184`) | `goto error` returns the initial 1, and an unsigned flash is launched |
| `ddr3_mr1` | "RTT_Nom - 001: RZQ/4, 010: RZQ/2, 011: RZQ/6" (`ddr3_sdram.c:453`) | at line 1400 `&` binds after `>>`: each bit of an odd RTT_Nom is 1, and the reserved value 7 is written |

Ten configurations beside them can be run by hand; TLC finds each of their
properties violated too:

| configuration | what is written or expected | what the code does |
|---|---|---|
| `RomBootStack.cfg` (with `RomBootMC`) | "32KB - 8KB = 24KB" (`iSDBOOT.c:1315`) | the image follows a header of 512 bytes, which are missing from the 8 KB |
| `SdOpenWidth.cfg` | "0 : 1-bit mode, 1 : 4-bit mode" (`iSDBOOT.c:711`) | a lost SET_BUS_WIDTH still sets the controller to 4 bits |
| `SdOpenOcr.cfg` | a card is addressed in the unit it counts in (`iSDBOOT.c:1118`) | a damaged OCR is taken, and the card addressed in the wrong unit (`AddressingAlways`) |
| `SdReadCrc.cfg` | "Check Errors" (`iSDBOOT.c:1006`) | the errors of the last block may rise after the loop has ended |
| `SdReadTimeout.cfg` | the FIFO is empty after the data (`iSDBOOT.c:1140`) | `Timeout--` is 0 exactly when the word came at the last poll, and the loop ends as if it were done |
| `SdCommandClock.cfg` | "wait until it has been finished" (`iSDBOOT.c:82`) | SetClock waits for nothing; after a failed command NX_SDMMC_Close stops the clock of a running transaction |
| `Ddr3InitResume.cfg` | "exit the (sdram) self-refresh" (`memory.c:48`), after the whole initialisation; the NOP is there "to assert and to hold CKE to a logic high level" (`ddr3_sdram.c:1294`) | a resume sends that NOP too (`ddr3_sdram.c:1662-1665`; its test of `is_resume` is commented out), with auto refresh off: ranks that it wakes are refreshed by nobody until the end (`AsleepUntilExit`) |
| `UsbBootConfiguration.cfg` | a request for a descriptor gets that descriptor | after GET_CONFIGURATION its word, or the empty packet for the token that it answered, comes first (`DescriptorAfterConfiguration`) |
| `UsbBootOutrun.cfg` | the same | a token is answered before the SETUP behind another entry is read (`DescriptorOutrun`) |
| `UsbBootFifo.cfg` | an undisturbed host is served | with a FIFO no larger than what `iUSBBOOT.c:684` waits for, a word that nobody takes holds the loader there for ever (`Downloads`) |

`UsbBootRequests.cfg` has the properties of `usb_boot` with two requests in one
session; they hold (73,955 states).

Two more were met that no run of their own shows. An image above 24 KB is cut and
its beginning launched: give `RomBootMC` such a medium and `LaunchedWhole`
fails. A read of no sectors (`LoadSize` 0) still sends READ_SINGLE_BLOCK and
leaves the block in the FIFO: with `Sectors = {0}`, `FifoEmptyAfterData` fails.

### Bounds

- `rom_boot`: blocks of 2 bytes, SRAM of 8 blocks, 2 of them for the stack, so
  that sizes need rounding and can reach the limit; seven cards (plain, GPT,
  damaged GPT, boot header in place of the GPT header, GPT without protective
  MBR, image longer than the card, one sector) and one signed flash, each card
  faulty or not; SRAM full of any block at power-on; one reset (`MAX_RESETS`), which leaves two
  attempts: what the first leaves behind can meet the second, and a third meets
  nothing new, because `bi` and `image` start as anything. 525,297 states.
- `sd_open`: all six kinds of card (none among them), fresh or left over, with
  and without losses, 3 tries of power-up. Tries differ only in the count.
  2,891 states.
- `sd_read`: blocks of 4 words, FIFO of 4, watermark 2, time-out of 2 polls, `WORD`
  16; reads of 0, 1 and 2 sectors, three in a row, each after a success, so that
  what a read leaves meets the next and what that leaves a third. A block then fills the FIFO twice
  over the watermark, and a read of 2 sectors does not fit it. `LAG` (DTO seen
  before the last word is in the FIFO) is off here: with it on, the last poll
  of an empty FIFO can be the one at which the word comes, which is
  `SdReadTimeout.cfg`. 42,450 states.
- `sd_command`: three calls of any kind, 2 polls, a FIFO of 1 word and 2 words of
  data: a first call given up, a second that meets its answer, a third after that.
  240,705 states.
- `smp_barrier`: four harts, five msip words (one without a hart). 2,072 states.
- `sub_cpu`: three secondary CPUs, 2 polls, 3 tries: a late answer can go to the
  next CPU and that one's answer to the one after. 5,638 states.
- `bl1_boot`: three generations of the memory (marked, worked on, loaded anew) and
  three resets, which reach a torn record that is met by a second torn
  one. 168,955 states.
- `ddr3_init`: two ranks, three attempts, two resets, two polls, all 16 builds, deaf
  or not, woken by the NOP or not, and two suspends, so that a resume follows a resume. An attempt that
  fails is followed by one that fails differently and by one that succeeds.
  233,809 states.
- `usb_boot`: a header of two units, bodies of one and two, a descriptor of four
  (one packet at high speed, two at full speed), hosts that ask for three or
  five units of it, or for status or configuration, one request before the
  file, two sessions: the second meets all that a first can leave. Packets of
  endpoint 0 have 5 and 2 units, so that the loader waits for 20 or 8 of the 40 that
  the transmit FIFO holds; in the part it waits for 64 or 8 of 512. What few requests and
  sessions leave in it does not fill it in either. 2,786,287 states.
- `i2c_gpio`: bytes of two bits and a device address of one, transfers of one and
  two bytes, a time-out of one poll, two calls: the second meets the bus as a
  failure of the first left it. 113,329 states.

Deadlock is checked in `sub_cpu`. In the others the system stops by design: a
launched or hung ROM, a function that has returned for the last time.

### Fairness

- `RomBoot`, `SdOpen`, `SdCommand`: the processor goes on (WF of its steps).
  Nothing is assumed of controller or card, because every wait is counted
  there.
- `SdRead`: the processor goes on; the controller moves words, raises RXDR and
  DTO and ends its own CMD12 (WF), since the loops at `iSDBOOT.c:969` and `:1145`
  have no count and the code relies on it; a card asked for its status for ever
  is ready at some time (SF of that outcome). Errors need not happen.
- `SmpBarrier`: each hart executes its instructions.
- `SubCpu`: CPU 0 goes on; the others may never start.
- `Bl1Boot`: the loader goes on; resets are bounded, so that they cannot come for
  ever.
- `Ddr3Init`: the processor goes on; ZQ, DFI and DLL lock come, because the
  loops that wait for them have no count (`ddr3_sdram.c:1491-1746`); the lock,
  asked for again and again, is still there at some time (SF of that outcome); a
  rank that is told to sleep does. Calibrations may never end, their polls are counted.
- `UsbBoot`: the loader polls; the host goes on with what it began. A file that
  is not signed, a speed the loader does not know, or a session in which the
  host outran the loader is not promised anything.
- `I2cGpio`: the loader goes on. The target may hold the clock for ever.

## 4. What is proved

The theorems hold for every value of the constants under the named assumption
beside their declaration (`HartsAssumption`, `SdCommandAssumption`, `SdOpenAssumption`, `SdReadAssumption`,
`RomBootAssumption`, `SubCpuAssumption`, `Ddr3Assumption`, `Bl1Assumption`,
`UsbAssumption`, `I2cAssumption`), which say no more than that counts are
natural numbers and sizes fit each other. TLC evaluates the assumptions in every
run.

**HartStartProofs**, for `SmpBarrier` - `SmpTyping`, `BarrierSafe` (`Barrier`), `NothingPending`
(`NoStaleIpi`), `SignalOnce` (`WokenOnce`), for any number of harts and words, if `NONSMP_HART`
is 0. The barrier is not inductive by itself; the invariant says in which phase
hart 0 is. Before it signals, all words are clear and the others parked. While
it signals, the words behind `reg1` are clear exactly if their hart is released,
and every released hart is held at word 0, because word 0 is raised first and
hart 0 cannot clear it before it has raised the rest. After that, exactly the
released harts' words are clear. With another boot hart the second claim is
false, which is why the hypothesis is there: hart 0, woken first, could then go
past words that are not raised yet.

**SdCommandProofs** - `Typing`, `AnswerIsOwn` (`OwnAnswer`), `ExecutedOnce`
(`SentOnce`), for any limits and any number of calls. `Once`: as long as the
call has yet to make the controller take its command, it has not been executed
and is not waiting in `CMD`. `Own`: of a call that began on an idle controller,
between write and CD there is only this command in the controller, CD is not
set before it is done and no error bit without CD (`Alone`); after CD the
registers hold its answer (`Answered`), and that is what the driver has taken
(`Took`). `Implements` (`KeepsCommandPromise`) is the refinement of `CommandPromise`, with
three more facts: the start bit is clear past its poll and after every
return but CMDBUSY (`Started`); an accepted command waits, not executed, or has
been executed once (`Accepted`); and a call that began on an idle controller shares it
with no other and leaves it idle unless it gives up (`Sole`).

**RomBootProofs** - `Typing`; `BootSafe` (`LaunchedWhole`) and `Implements`
(`KeepsPromise`), if every signed image fits the limit (`Fits`) and every flash
is signed (`Programmed`); section 3 says what happens without the first, and
`rom_boot_spi` without the second. The invariant follows the block in `bi`: `Path` and `Found` say which sector
it is at each step, and that the decision about the GPT still agrees with the
MBR that has been overwritten; `Ready` says that a successful load is the image
of the medium. `Implements` shows that each step is a step of `BootPromise` or a
stutter.

**HartStartProofs**, for `SubCpu` - `Typing`, `CountSound` (`CountsNoGhost`), `LaunchSafe`
(`LaunchedByKernel`), for any number of CPUs, polls and tries. The count alone
is not inductive: an answer that has been given and not yet counted (`Owed`:
the flag is up after it was cleared, or the loop ended with polls left) must
belong to one more CPU that is up than have been counted. Each announcement adds
a CPU, so a late one for the wrong CPU is still one.

**SdOpenProofs** - `Typing`, `Ready` (`OpenedReady`), `Addressing`
(`AddressingAgrees`), for any set of cards, any number of tries and any losses.
The lemma `Exchange` says what one exchange may do to the card and tell the
driver, lost or not; the invariant `Knows` says for each command what the driver may
conclude by then: that a card that answered ACMD41 is SD, that its capacity
bit is its own unless the OCR was damaged (the exception in `Addressing`), that
address and selection agree. `WidthClean`
(`WidthAgreesClean`) and `FailsRightly` (`FailsForAReason`) need more: where nothing is lost,
`Followed` gives the state of the card at each command, so that it
answers every one, and both sides keep to one data line up to the last.

**SdReadProofs** - `Typing` for any controller; `ReadsInOrder` (`InOrder`) and
`ReadsClean` (`CleanBeforeRead`) for one that raises DTO after the last word is in
the FIFO (`LAG = FALSE`; without it `SdReadTimeout.cfg` shows the opposite).
`Stream` says that buffer, FIFO and pipe are consecutive pieces of one read
and that `count` is what is missing; `Bell` says what a driver that sees RXDR, DTO
or an empty FIFO may conclude.

**BoardInitProofs**, for `Ddr3Init` - `Typing`, `ProgramsLivePhy` (`PhyAlive`), `ModesLeft`
(`NoStrayMode`), `SuccessWhole` (`SuccessIsWhole`), `ContentsKept` (`Refreshed`), for
any number of ranks, attempts, resets, polls and suspends. `Modes`: while a
calibration runs, only it holds rank 0 in a mode. `Whole`: those of the
build that come before `cal` are good in this attempt. `Kept`: who
refreshes the DRAM at which point, in a resume all the ranks themselves until
`exit_self_refresh`, or until the first NOP if that wakes them; from then on the
gap that `Refreshed` names is open, until memory_initialize returns.

**Bl1BootProofs** - `Typing`, `WarmMemory` (`WarmMemoryTrue`), `NoLoop`
(`NoResumeLoop`), `CleanResumes` (`CleanSuspendResumes`), `UsedOnce`
(`RecordUsedOnce`), for any number of resets and generations. `Recorded`: a
signature in register 0 stands before the first words, or all, of a record for
the marked memory that no jump has used. A record cut off before its size has a
size of 0, whose CRC is 0: it fails if its CRC word is there, and passes if that is
cut off as well, the exception in `WarmMemoryTrue`.

**UsbBootProofs** - `Typing`, `BodyWhole` (`BodyIsFile`), `HeaderWhole`
(`HeaderOfOneFile`), `DescriptorSent` (`DescriptorWhole`), for files, packets and
descriptors of any size, any requests and any number of sessions. The properties
speak of what the loader has, the invariant of everything in between. While the
host has not outrun the loader (`~lag`), header and `stored`, the packets in
the FIFO in their order and the rest of the file at the host are consecutive pieces of one
file of this session (`BulkOK`: there is a place `r` from which the packets
have not been read yet), and an interrupt bit that the pass has read and
not served yet is still due (`EventsOK`), because that is what a bus reset
between the read and the handler breaks. If moreover the configuration was not asked for and
nothing is left in the transmit FIFO (`Clean`), what the host has of a descriptor, the packet in the
FIFO of endpoint 0 and what `Current_ptr` and `Remain_size` still owe make one
descriptor, and a token is due only to a request (`ControlOK`). These are the
conditions of `DescriptorWhole`, and section 3 has a counterexample without each of the first
two. The header is checked at the step that starts the body, so `HeaderWhole`
is a theorem about steps.

**BoardInitProofs**, for `I2cGpio` - `I2cTyping`, `Faithful` (`TransferFaithful`),
`NoStray` (`NoStrayCondition`), `FailsWithReason` (`FailsForAReason`), for
bytes of any length, any registers and data, transfers of any length, any
number of calls and any time-out. A result is compared at the end of a call with
what happened over hundreds of edges before, so the invariant `BusInv` follows both sides
edge by edge: from its START on the target is in the same byte and the same bit as
the loader (`StartOK`, `WriteOK`, `AckOK`, `ReadOK`, `NackOK`, `StopOK`, one for each kind of place),
SDA is driven exactly in a 0, a START and a STOP (`LinesOK`), and `got`, `gave`, `pdata` and
`rbyte` are prefixes of what the call is to move (`GotOK`, `ReadBytesOK`).
It needs no assumption about where the call before broke off: until the START nothing is
claimed of the target but that it holds SDA only if it did when the call
began. `FallingMiddle` to `FallingNack` say what the target may do at a falling
edge in each place, `BusLow` to `BusFall` which edges a change of the pins makes.
The proof also shows that the poll for the end of the STOP never runs out.

Only model-checked: all liveness (`EndsRight`, `OpenReturns`, `EarlyErrorFails`,
`ReadReturns`, `CallReturns`, `AllStart`, `BringupReturns`, `HandsOver`, `Terminates`,
`Downloads`), which is beyond the prover. Every safety property of the passing runs,
invariant or action property, is a theorem.

## 5. Not modelled, and why

- words of a SETUP that was not read, taken for a packet status that the loader acts on
  (`iUSBBOOT.c:638-648`), which would need a request made for that;
- `nx_smp.h` of romboot: a secondary hart that wakes falls into the ROM beside
  the boot hart, on the same stack; past that point there is no state to check;
- the QEMU build of romboot (`iROMBOOT.c:78-90`), which knows the SD boot only;
- an image on SPI flash larger than SRAM: `iSPIBOOT` has no limit and would
  write past its end, which has no meaning in the state; the models keep to
  images that fit;
- `NX_SDMMC_Init`, `Terminate`, `Close`, pads and clocks: registers that no
  decision reads back;
- the CRC of the GPT is an attribute of a block (right or wrong), and the
  products of `get_first_empty_lba` do not wrap in the model;
- in bl1: PLL, bus, QoS and security registers, UART, the PMIC values sent over I2C;
  timing registers and delay values of the DRAM; memory types other than ddr3,
  whose source is not in the repository; `fatfs.c`, which is vendored, and
  `iSDHCBOOT.c`, a relative of the SD driver that is modelled; the STALL of unknown USB
  requests, the rearming of endpoint 0 for OUT (`iUSBBOOT.c:692-699`; the model lets
  every SETUP in) and the handling of the image after the download;
- the recovery of an I2C bus on which a target holds SDA: the code has none,
  and every call fails (`dirty` in `FailsForAReason`);
- the aarch32 variant of the CPU start, which powers a CPU down before it
  powers it on, and the build without MULTICORE_BRING_UP;
- `sdboot/sd.c`: commands one after the other whose errors are printed and
  ignored, and a payload whose copy is commented out of `main()`;
- the ARM boot ROM: `iROMBOOT.c` there fixes its boot option in test code, so that
  most of its table is not reached; the X/Y-modem receives through a `getch` that waits
  while a byte is ready, not until one is (`iUARTBOOT.c:215-226`), so that there is
  no reception to model; its drivers are earlier relatives of those modelled; NAND is
  an ECC engine that decides everything;
- cryptography (mbed TLS) and host tools: vendored or sequential programs;
- hardware tests and the earlier copies of the drivers.

External parts (controller, card, kernel, DRAM, USB host and core, I2C target) are
modelled by what the driver's loops are written to wait for, and are marked so
in the map.

## 6. Plan

Done: `SmpBarrier`, `SdRead`, `SdOpen`, `RomBoot` with `BootPromise`,
`SdCommand` with `CommandPromise`, `SubCpu`, `Bl1Boot`, `Ddr3Init`, `UsbBoot`, `I2cGpio`, and the proofs of
their safety properties.

Left:

1. `Refreshed` of `Ddr3Init` and the step `MemoryInitialize` of `Bl1Boot` as a
   refinement of one specification of the DRAM;
2. `Gpt` (`romboot/src/nx_gpt.c`): CRC and `get_first_empty_lba` with 32-bit
   arithmetic against a reference definition.
