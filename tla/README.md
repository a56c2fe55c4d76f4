# A TLA+ verification of modelsim_pjt

`src/` is a collection of FPGA designs and exercises (Verilog and some VHDL).
Most of it is one counter, one table or generated IP per directory. A few
designs carry real control: a video system around an SDRAM controller
(`P04_VideoCapSys`), clock-domain crossings (`S05_pulse_sync`, `S11_fifo`), a
FIFO controller (`S06_FIFO`), UARTs with a key filter (`P02_uart_tx_string`,
`S9_dpram`, `S9_Uart`, `S09_key_filter`), SPI slaves (`spi`), an arbiter
(`P01_pic_acc`), the safety gate of an inverter (`FPGA_apf_test_svpwm1`), and
one embedded system with software (`P03_IIC_IP`): a Nios processor, an I2C core,
a test program in C and the C library below it, with its UART driver, files
and alarms. This directory models the video system, the crossings, the FIFOs
and the software of `P03_IIC_IP`, checks them with TLC and proves what matters
most with TLAPS; the rest is planned below.

Contents: [1 Inventory](#1-inventory) -
[2 How hardware is modelled](#2-how-hardware-is-modelled) -
[3 SDRAM controller](#3-sdram-controller) -
[4 Video write path](#4-video-write-path) -
[5 LCD read path](#5-lcd-read-path) -
[6 Pulse synchronisers](#6-pulse-synchronisers) -
[7 FIFOs](#7-fifos) -
[8 UART driver](#8-uart-driver) -
[9 Files of the HAL](#9-files-of-the-hal) -
[10 Alarms and clock](#10-alarms-and-clock-of-the-hal) -
[11 I2C test program](#11-i2c-test-program) -
[12 What is proved](#12-what-is-proved) -
[13 Where code and comments differ](#13-where-code-and-comments-differ) -
[14 What is not modelled](#14-what-is-not-modelled) -
[15 Plan](#15-plan)

Run a model with `tlc -config video_write.cfg VideoWrite` (a run whose constants
need definitions has an MC module: `tlc -config alarms.cfg MCAlarms`), a proof with
`tlapm SyncFifo_proofs.tla`. `PROJECT.json` lists the runs, the mutants (a
faulty form of a definition, next to the right one and marked *Faulty form*,
which the property named must refuse), the source lines behind every
definition, the hazards and the theorems. In the paths below `BSP` is
`src/P03_IIC_IP/CoreCourse_GHRD/software/iic_test_bsp`.

## 1 Inventory

State, operations and neighbours of every component with control, what is
hard about it and what makes it correct.

| component | state | operations | talks to | hard | correct when |
|---|---|---|---|---|---|
| SDRAM controller `P04/sdram_*.v, sdr_para.v` | power-up and refresh counters, init and work state, delay counter, command/address/data-direction registers | initialise, refresh, write burst, read burst, reset | FIFO control by request/acknowledge/page; the chip's pins | one counter for all waits; acknowledge stitched from three states; refresh against bursts of 170 clocks; reset anywhere | chip's command order and spacings kept; refreshed in time; one FIFO pop or push per word; bus driven only when it must be |
| Video write path `P04/video_ctrl.v, sdfifo_ctrl.v` | video FIFO, burst counter, write FIFO, page, acknowledge history | camera word, burst, request, page step, clear by field pulse | camera, SDRAM controller | requests made before the burst is complete on stale counts; clear in mid burst; refresh and read contention | no FIFO dry or full, each page its own words, whole field stored |
| LCD read path `P04/lcd_driver.v, sdfifo_ctrl.v` | raster counters, window flags, read FIFO, page | pixel, request, page step, clear per frame | display, SDRAM controller | a display that cannot wait, behind writes and refreshes; clear in mid burst | a word for every pixel, and the right one |
| Reset tree `P04/sys_ctrl.v` | four reset flip-flops | reset in, PLL lock | all of P04 | release before lock | reset released once, after lock |
| I2C set-up `P04/iic_gene.v, iic_ctrl.v` | ROM index, two timers; bit and byte state, request flags | one register write each 30001 clocks | video decoder | write dropped or changed while one is under way; acknowledge ignored | every ROM entry sent once, whole |
| Handshake synchroniser `S05/code` | request, acknowledge, two chains of samples | pulse, resets of two sides | two clock domains | any clock ratio, simultaneous edges, separate resets | each accepted pulse delivered once |
| Toggle synchroniser `S05/code2` | level, chain of samples | pulse | two clock domains | pulses faster than the destination | spaced pulses delivered once |
| Synchronous FIFO `S06` | memory, two addresses, count | read, write, both | one user | both at a limit | a bounded FIFO |
| Asynchronous FIFO `S11/fifo1.v` | two pointers in two codes, samples, flags, memory | read, write | two clock domains | sampling a changing pointer; stale flags | a bounded FIFO |
| Asynchronous FIFO `S11/fifo2.v` | two pointers, direction latch, flags | read, write | two clock domains | latch set between clock edges, write not gated by full | a bounded FIFO for a writer that respects full |
| Key filter `S09`, copies in `P02`, `S9_*` | synchroniser, four states, 20 ms counter | press, release, bounce | UART senders | counter left running in one copy | one event per settled change |
| UART sender of a string `P02` | character index, frame state, baud counters | key, byte done | key filter, line | key during a frame, in the clock of done | whole strings |
| UART receiver, RAM, sender `S9_dpram` | bit counters, majority sums, addresses | byte received, key, byte sent | line, RAM, key filter | sender faster than receiver; key in mid frame | each byte stored once, in order |
| SPI slaves, master `spi` | byte state, bit counter | clock edge, select | master, small memory | select withdrawn in any state | no half-received byte stored |
| Picture accelerator `P01` | arbiter state, CPU program counter | request, grant | CPU, accelerator, memory | both requesting | one master, none starved |
| Inverter gate `FPGA_apf` | gate state, fault and dead-time counters | start, stop, fault | power bridge | fault around the start | never open with a fault, dead time kept |
| UART driver `BSP/drivers/src/altera_avalon_uart_*.c` | two circular buffers, control register and its copy | read, write, close, interrupt | device registers, files | interrupt between any two steps, also inside one assignment to `rx_start`; waking the transmitter; flow control | characters in order, each once; none waits without an interrupt to come |
| Files of the HAL `BSP/HAL/src/alt_open.c` ... | lists of devices and file systems, pool of descriptors, `alt_max_fd` | start-up, open, close, read, write, lseek, fstat, ioctl, fcntl | drivers | open that fails half way; lock against open; `alt_max_fd` | no descriptor lost or given twice; a lock keeps others out |
| Alarms and clock `BSP/HAL/src/alt_tick.c` ... | tick count, ring of alarms, time offset | tick, start, stop, callback, time of day | timer interrupt, program | count wraps; ring changed while it is gone round | each alarm in its tick; ring whole; time goes on |
| I2C test program, driver and core `oc_i2c.c`, `main.c`, `i2c_master_*.vhd` | command and data registers, byte state, arrays | write block, read block, compare | EEPROM on the bus | wait on TIP alone, acknowledge ignored, STOP after TIP | report is true and comes again and again |

The remaining directories (traffic light, pipelines, VGA, tones, PWM, counters,
generated Nios hardware, picture data, archives, megafunction wrappers) are
listed in `PROJECT.json` with the reason they are left out.

## 2 How hardware is modelled

**A step is a clock edge.** All `always` blocks of one clock are conjuncts of
one action: each reads the registers before the edge (unprimed) and writes its
own (primed). Wires are operators. Where a clock domain is shared by several
modules (clk_100m in the video system) their tick operators are conjoined, and
so one TLC step is one clock of the whole design.

**Two clocks.** Unrelated clocks are actions of their own (`Src`, `Dst`;
`Write`, `Read`) in any order, and `Both` for edges that fall together; a
flip-flop that samples a signal which changes at that edge may take the old or
the new value, each bit for itself (`Samples` in AsyncFifo1). A 25 MHz clock
derived from the same PLL ticks in every fourth step.

**Reset** is asynchronous: an action enabled in every state, that gives each
register the value of its `!rst_n` branch and leaves alone what has no reset
(sys_r_wn, FIFO contents). Registers without a reset start with any value.

**Inputs** are quantified: requests, pages, pulses and words are chosen anew
in every step, within the assumptions stated below for camera and display.

**Widths.** Counters that the source relies on to wrap, or not to, keep their
width (`% 512`, `% DcntSize`, `Inc`); a literal in a comparison makes it 32
bits wide, so `sdrd_byte-4` below zero is never met (SdrPara).

**Data** is counted, not carried, where only position matters: the n-th word
out of a FIFO is the n-th word in, so "page n holds words n*160 and following"
is a statement about counts. The FIFOs of S06 and S11 do carry words.

**History variables** (`acks`, `popped`, `fetched`, `taken`, `sent`, `got`,
`split`, `crowded`, `synced`, and SdramProtocol's `last`, `gap`, `nref`, `ready`) only record; no
register reads them. Their bounds are named: `WrWordCap`, `RdWordCap`,
`GapCap`, `Wrap`. `GapCap` and the word caps exceed every value a property
compares; `Wrap` is a circle larger than what can be on the way.

## 3 SDRAM controller

Modules: `SdrPara` (parameters and end-of-wait conditions of `sdr_para.v`) <-
`SdramCtrl` (`sdram_ctrl.v`) <- `SdramCmd` (`sdram_cmd.v`,
`sdram_wr_data.v`) <- `SdramTop` (`sdram_top.v`, with watchers).
`SdramProtocol` is the abstract specification: what a chip demands of the
command pins, from the source's own timing comments.

| source | model |
|---|---|
| `cnt_200us`, `done_200us` | `PowerUpTimer` |
| `init_state_r`, 22 states | `InitFsm`; odd states issue, even ones wait |
| `cnt_15us`, `sdram_ref_req` | `RefreshTimer` |
| `work_state_r`, `sys_r_wn` | `WorkFsm` = one of `GrantRefresh`, `GrantWrite`, `GrantRead`, `StayIdle`, `RunOperation` |
| `cnt_rst_n`, `cnt_clk_r` | `cnt_run`, `DelayCounter` |
| `sdram_wr_ack`, `sdram_rd_ack` | `wr_ack`, `rd_ack` |
| `sdram_cmd_r`, `sdram_ba_r`, `sdram_addr_r` | `CmdTick`; an address is a row, the column word, the mode word or idle |
| `sdr_din`, `sdr_dlink` | `DataTick` |

What must hold:

- `RefreshDeadline`: a pending refresh has waited no longer than its share of
  the longest operation. The request is one flag, so a later request would
  merge with it. `RefreshedInTime` says the same at the pins: at most
  `RefPeriod + MaxOp + 2` clocks between two refreshes.
- `OperationsEnd`: every operation ends and the arbiter is asked again, although
  one counter serves every wait of both state machines. A wait that began with
  a count left over would be short, or pass its end value and never end.
  (`CounterCleared`, the reason, is part of the inductive invariant.)
- `AcksMatchBurst`: the FIFO side is popped or pushed once per word.
- `ObeysChip`: the pins refine SdramProtocol (`PROPERTY`), across resets in any
  clock, with bursts that are stopped after exactly their words.
- `DriveWindow`: the FPGA drives the data bus in exactly the clocks in which
  the chip takes a word, and in that of the BURST STOP.

Runs:

- `sdram_small`: the whole controller with waits of 2 and 3 clocks and bursts of
  4 and 5 words, a refresh period a little longer than two operations, and
  pages in two banks. All orders of operations, and of an operation against the
  refresh timer, occur within one period; longer waits only repeat inner clocks
  of a wait state, and the proofs of section 12 are for every length, that of
  the source included.

Fairness: `FairSpec` has the clock run for ever and resets cease. Nothing is
assumed of the requests: operations end whatever the FIFO side asks for. A quartz clock and a released reset button justify both.

## 4 Video write path

Modules: `VideoCtrl` (`video_ctrl.v`), `SdFifoWrite` (write half of
`sdfifo_ctrl.v`), composed with `SdramCtrl` in `VideoWrite` (`video_input.v`,
`ex23.v`). One step is one clock of clk_100m. Read requests are arbitrary.

External parts, modelled from how the code uses them: the vendor's dual-clock
FIFO checks overflow and underflow, is cleared asynchronously, and reports a
usage that counts its own side's last transfer one clock late and the other
side's up to `PopLag` clocks late; the count has 9 bits (8 in `video_fifo`), so a
full FIFO reads as 0. The camera sends lines of `LineWords` words, `CamMin` to
`CamMax` clocks apart, with any pause between lines; a field pulse may come at
any time, lasts longer than the longest operation, and no word comes in it or
shortly after. Its level is sampled by two modules separately, which may see a
change one clock apart.

- `WrFifoNeverDry`: a request is raised at 159 words for a burst of 160, on a
  stale count. The burst still never outruns the FIFO.
- `WrFifoNeverFull`: refreshes and reads never hold the SDRAM so long that a
  camera word is dropped.
- `PagesInStep`: the page counter, stepped two clocks after the acknowledge
  ends, is right when the next row is opened and stays so until the column
  command; a field pulse in mid burst leaves the next field at page 0.
- `CameraWordsOnce`: a burst out of the video FIFO starts before its last words
  have come and never reads it dry, which would repeat a word.
- `FieldStored`: a complete field reaches the SDRAM at most `StoreTime` clocks
  after its last word, whatever reads compete; its last words are not left
  behind. Checked with fields of a whole number of bursts, as in the source
  (320 x 240 words, bursts of 160).

Nothing is promised before the first whole field pulse after a reset
(`InField`): a reset clears neither the video FIFO nor the camera's place in a
line. A reset of more than 256 words' length fills the video FIFO, whose 8-bit
usage then reads 0, and the path stands still until that pulse clears it.

Bounds (`video_write`): bursts of 6 out of the write FIFO, 3 for reads, a write
FIFO of 11 words, fields of two bursts. Camera words are 4 or 5 clocks apart, so
bursts, refreshes, reads and the next burst of the video FIFO overlap in every
way. The real write FIFO holds 3.2 bursts, this one less than 2: the margin
checked is tighter than the design's. `StoreTime` = 28 is less than two refresh
periods of 16. Stated as a bound and not as "in the
end", the property needs no fairness and says more.

## 5 LCD read path

Modules: `LcdDriver` (`lcd_driver.v`), `SdFifoRead` (read half of
`sdfifo_ctrl.v`), composed with `SdramCtrl` in `VideoRead`. The display ticks
in every fourth step. Write requests are the camera's: any time, at least
`WrGap` clocks after the last write was granted.

- `RdFifoNeverFull`: the request below 350 of 512 leaves room for its burst.
- `ReadPagesInStep`: a burst opens the page of the next words of the frame.
- `LcdNeverStarves`: a word is there for each pixel, long enough to be seen on
  the display's clock.
- `PixelInPlace`: it is the right one: column and line give the number of words
  taken so far. An off-by-one in the read strobe, a word lost or read twice, or
  a word of the frame before left by a clear in mid burst breaks it.

Bounds (`video_read`): windows of 4 x 2 pixels in a raster of 7 x 5, bursts of 4, a
FIFO of 15. A frame takes two bursts, so requests, the clear of line 0, writes
and refreshes meet in every phase; the ratio of burst, level and depth keeps the
order of the real ones (160 : 350 : 512). The fetch between clear and window is
the tight part, and the window starts after two lines here, after 16 there.

## 6 Pulse synchronisers

`PulseTransfer` is the promise: what is taken comes out once, in numbers round a
circle. `HandshakePulseSync` and `PulseSync` refine it (`DeliversOnce`) by
different means.

The run `handshake` covers both clocks at any rates, and resets of both sides
together or of one alone, in the middle of a handshake. `split` records that
one side has been reset without the other since they were last reset together;
the first three properties speak of the time before that.

- `OneEdge` is the reason the handshake works: along the loop of request and
  acknowledge at most one edge travels, which needs `src_sync_idle` to look at
  both ends. `DeliversOnce` and `PulseArrives`: each accepted pulse comes out,
  once.
- `PauseHeals`: a lone reset may lose a pulse or deliver it twice, and leave two
  edges in the loop; with a source that sends whenever it may and clocks in
  step, a stale edge can go round for ever (TLC shows this for
  `<>[]LoopInOrder`). What holds is that a source that pauses gets the loop back
  to rest, whatever the resets did: from some time on no request is raised, and
  the edges that are left go out of the loop.

Fairness: neither clock stops, and the resets end. Nothing is owed by the source:
it may send for ever, pause or stop. For this MCHandshakePulseSync adds the parity
of the edges of each clock, so that an edge at which no register changes is a step
too, and weak fairness of a clock asks for its edges and for no pulse. `Wrap` = 3 is more than the
one pulse that can be on the way, so a lost, a doubled and a delivered pulse
differ.

The run `pulse_sync` gives pulses in any clock. `crowded` records two pulses
with no destination edge between them, up to the next reset.

- `DeliversOnce`: uncrowded pulses come out once each; up to three are on the
  way, on a circle of `Wrap` = 16.
- `LostInPairs`: crowded ones are lost, and always two at a time.

## 7 FIFOs

`BoundedFifo` is the promise: a queue of at most `Depth` words; words go in and
out in order, possibly in the same step.

- `SyncFifo` (`SYNC_FIFO_CTRL.v`): refinement by the words from the read address
  on. `AddressesAgree` ties three registers that three processes keep; it is proved.
  `sync_fifo` checks depth 4 with two words; section 12 proves every depth. The
  reset loop of the source ends at index 0, so only one word is zeroed; IsFifo
  shows that it does not matter.
- `AsyncFifo1` (`fifo1.v`): `SamplesLag` is the inductive heart: every sampled
  pointer is one the other side really had, in order of age, which is what the
  Gray code is for (the mutant `Binary` breaks it). `Pow2` and `Shr` stand for
  `1 << k` and `n >> i`; they are recursive functions because the provers know
  nothing of `^`. `IsFifo` follows. `WordSeen`
  and `RoomSeen`: flags may be late and wrong on the safe side, but a word is
  offered in the end, unless a reset throws it away, and room is seen in the end.
  Fairness: neither clock stops, and the resets end; nobody has to write or to
  read (MCAsyncFifo1 makes the clocks visible, as in section 6). ASIZE = 2 is the smallest at which the two flipped top bits
  of the full test differ from the rest; pointers go all the way round. The FIFO
  never looks at its words, so MCAsyncFifo1 names each by the write pointer it
  is written with: no two that could be confused have the same name.

## 8 UART driver

Modules: `UartDevice` (registers and interrupt line, `mysystem_uart_0.v`) <-
`UartDriver` (`altera_avalon_uart_init.c`, `_read.c`, `_write.c`).

| source | model |
|---|---|
| `altera_avalon_uart_irq`, entered from `alt_irq_handler` | `Interrupt` reads STATUS, `ClearStatus` writes it |
| `altera_avalon_uart_rxirq`, `_txirq` | `RxIrq`, `TxIrq` (`Transmit`) |
| `altera_avalon_uart_read` | `Test`, `Copy`, `BumpStart`, `MaskStart`, `LeaveCopy`, `ReadWait`, `ReadDone` |
| `altera_avalon_uart_write` | `Put`, `LeavePut`, `WriteWait`, `Spin`, `WriteDone` |
| `altera_avalon_uart_close` | `Close` |
| `sp->ctrl` and CONTROL | `ctrl` |
| `ALT_AVALON_UART_FC`, CTS pin | `fc`, `cts`, `dcts` |

The program takes a step only while the handler is not running; the handler may
start between any two steps of the program. A step of the program is as long as
an interrupt inside makes no difference. In read it does: the test for data, the
copy and the stores of `rx_start` are steps of their own, since an overrun makes
the buffer look empty after the test; and the stores are two, since the build is
`-O0` (`BSP`'s Makefile, line 143), where `sp->rx_start = (++sp->rx_start) & MSK`
stores an unmasked value first. Between
`alt_irq_disable_all` and `alt_irq_enable_all` nothing comes in between. The
line does not wait for anybody: characters, framing errors, CTS changes and the
end of a transmission come between any two steps, those of the handler included.

A character that arrives before the last has been read replaces it in RXDATA:
that overrun is outside the driver, and `received` names the characters the
handler takes.

- `TxIsFifo`, `RxInOrder`: both buffers are BoundedFifos (`BoundedFifo.tla` of
  section 7) across handler and program, each step a Put, a Get or a stutter.
  `RxInOrder` allows one thing more, a store into the full buffer, and says what
  is left then: nothing, or the character stored. A character counts as read
  where it is copied (`char`). To a turn of read that has found data, equal
  indices mean a full buffer and not an empty one (`RxLen`): one store too many
  between its test and its copy fills the slot kept free and loses nothing, two
  leave the last character alone.
- `FullIsKept`: the comment says the driver stops receiving when the buffer is
  full. Run `uart_full_overrun` shows that it does not; see section 13.
- `TxArmed`: outside a call of write, waiting characters have a transmit
  interrupt enabled. The handler disables it when it finds the buffer empty,
  which may be while the program is filling it.
- `TxPaced`: a character in TXDATA is never overwritten without flow control,
  although the handler is also entered for received characters.

Bounds (`uart_driver`): RxSize 2 and TxSize 2, so that the buffers are full,
empty and wrap; requests of 0 to 2 characters, blocking or not, with flow
control and without: 2.1 million states. In the source the two sizes are one, 64;
that larger buffers behave alike is what section 12 proves.
TxArmed and TxPaced leave flow control out, in which a DCTS interrupt writes
TXDATA whatever TRDY says and an unlucky change of CTS is not noticed.

## 9 Files of the HAL

Module `FdTable`, one program and no operating system, so that a call is one
step. Start-up (`alt_main`: drivers register, standard streams are redirected)
goes first, in its order. Drivers may refuse an open or report an error, or the
callback may be missing, per device (`Callbacks`). The program uses descriptors
it holds (`held` records them), or a negative one.

- `HeldAsOpened`: the descriptors in use are those the program holds and the
  standard ones, with the device, access and lock the program was given: an open
  refused half way leaves nothing behind, redirecting neither.
- `LockKeepsOut`: nobody else opens a device while its lock is held.

Run `fd_table`: the UART of this system and a file system, five descriptors
(the three standard ones and two), so that the pool runs out, and the highest
descriptor is closed and reused. MCFdTable gives each the callbacks it has.

## 10 Alarms and clock of the HAL

Module `Alarms`. alt_tick is cut at each alarm (`Visit`) and at the callback
(`Callback`, `Return`), since callbacks call back into the ring; the program
runs between two ticks. This system has no timer (its tick rate is 0 and
alt_alarm_start fails); the model lets the clock's driver start at any time, as
in a system with one.

The program and callbacks stop any alarm that was ever started, and start any
that is not on the ring, for any interval the count can hold: a callback may stop
its own alarm, which alt_tick then removes again, or the one after it, where
alt_tick has already read that it goes next. One precondition the code has no check
for: an alarm on the ring is not started again.

- `CalledOnTime`: `wait` counts ticks beside the code's comparison of wrapping
  times; an alarm is called when it is 0, not before, not later. The one exception
  is an alarm due in as many ticks as the count has values (`Wrap`), which may come
  early; `NotCalledEarly` is the statement without it, and fails (section 13).
- `RingIsStarted`: the ring has exactly the started alarms, both ways round,
  whatever alt_tick itself has strayed to.
- `KeepsToRing`: alt_tick leaves the ring in one way only, when a callback stops
  the alarm read to come next (`Stray`). That it does so then, calls back the alarm
  stopped and may never end is `StoppedIsNotCalled` of section 13.
- `TickEnds`: on the ring, alt_tick returns, whatever callbacks take off and put on.
  Fairness: the handler goes on and callbacks return (`WF(TickStep)`).
- `ClockAdvances`: between two calls of settimeofday the time of day goes on by a
  tick a tick; at a rate that does not divide a second, whose ticks have a fraction
  of a microsecond that is cut off, give or take a second. It may go back, then:
  `TimeGoesOn` of section 13.

Bounds: `alarms` has three alarms (one called, one next, one other), a count that
wraps at 4, intervals of 0 to 3 ticks, the longest there are: every alarm meets the
wrap, in each place of the ring. The clock has 2 ticks a second of 3 microseconds, not
a divisor, with two times of day on either side of a carry: seconds and microseconds
turn over in different ticks before the count wraps, in both directions. Ring and time
of day share nothing but the count, so MCAlarms sets the time with one alarm only
(`Apart`): the states are the sum of the two and not their product. `clock.cfg`, beside
the runs, checks `ClockAdvances` at a rate that divides a second, over six seconds;
the theorem `ClockGoesOn` has every rate.

## 11 I2C test program

Modules: `Eeprom` (external: the AT24C64 the program is written for) <-
`OcI2cMaster` (`i2c_master_top.vhd`, `i2c_master_byte_ctrl.vhd`: one byte with
its acknowledge is one step) <- `I2cApp` (`oc_i2c.c`, `main.c`). A call of the
driver is a list of commands, each written as a byte and a command and awaited
by TIP. The EEPROM may be absent and may hold anything at first.

- `ReportsTruly`: "all equal" is reported exactly if an EEPROM is there, and then
  it holds the block. The driver ignores every acknowledge, so this rests on the
  order of commands, the sleep that covers the write cycle, and the read back.
- `StopOnFreeLine`: the last byte of a read is not acknowledged, so that the
  EEPROM lets go of the line before the STOP, which follows after TIP has gone.
- `KeepsReporting`: no wait on TIP lasts for ever. Fairness: the processor runs,
  the core is clocked, a write cycle ends.

Bounds (`i2c_app`): four bytes in two pages, a block of one page (as in main.c: 32
of 32), memory contents in every combination of the block's values and another
one. `Sleep` waits until STOP and write cycle are over, which 100 ms and 1 s
cover by far (5 ms). The register of TIP follows CR by a clock
(`i2c_master_top.vhd:311`); the model has it at once, as no access of the processor
falls in that clock.

## 12 What is proved

For every value of the constants allowed by the named assumptions. Each proof
has the usual three parts (initially, preserved by each action, implies the
property) with one step per action.

**Sdram_proofs**, the state machines (`TimingAssumption`: waits of 9 bits, TRCD not 1, bursts of
1 to 256 words). Theorem `CtrlTypeCorrect` needs no strengthening. The invariant
for the rest is `CtrlInv`: types, `CounterCleared`, the count in each wait not
past the value that ends it (`CounterInRange`; otherwise an equality test would
be missed), and the direction register agreeing with the states
(`DirectionMatches`). `RefreshMeetsDeadline` uses that `OpLeft` falls by one in
every clock of an operation (`OpLeftStep`) while the age of the request grows by
one. `AcksExact` adds how many acknowledges each state has seen, and has the
hypotheses TRCD = 2 and at least two words per burst: they are what the stitched
window relies on, and `sdram_one_word` shows the second is needed.

**HandshakePulseSync_proofs** (Wrap >= 2). The invariant speaks of states that no
lone reset has come before. `Levels` is LoopInOrder with types and
`dst_req_state = dst_sync_ack`; `Count` says sent and got differ by the pulse
owed, a raised request not yet acknowledged. `HandshakeOneEdge`, and
`HandshakeDelivers`: the refinement of PulseTransfer.

**PulseSync_proofs**. `SpacedDelivered`: the pulses on the way are the changes of
level between the four flip-flops, as long as pulses are not crowded.
`LossesPaired` (Wrap even): parity, whatever the pulses.

**SyncFifo_proofs** (Depth >= 2). `IInv` = TypeOK and AddressesAgree is
inductive; `SyncFifoIsFifo` shows each edge is a Put, Get, PutGet, Clear or
stutter of BoundedFifo, from lemmas on the wrapped addresses (`AheadStep`).

**NiosDrivers_proofs**, the UART (`SizeAssumption`: both buffers have two slots or more).
`UartTxArmed`: TxArmed says nothing while the handler runs, so the invariant
(`Armed`) drops that exception; the handler disables TRDY only when it leaves the
buffer empty, and write enables it before it waits or ends. `UartTxPaced`: without
CTS, the status that the handler has read says TXDATA is free, and nobody else
writes it (`Paced`). `UartTxIsFifo` and `UartRxInOrder`: the lemmas on rings of n
slots (`RingPut`, `RingGet`) say that storing in the free slot appends to the
queue and that moving the first index takes its head; `TxSteps` and `RxSteps` say
that each step does one of these or leaves the buffer alone. In the receive buffer
`RxFirst` is the first slot not yet copied: the copy is the Get, and the two stores
of `rx_start = (++rx_start) & MSK` are stutters. Between the test for data and the
copy the queue is one of up to n characters (`RxMeans`): `RingFill` says that the
one stored in the slot kept free is appended too, `RingGetAll` that the copy then
takes the oldest of n, `RingOver` that a second one is alone in the buffer. The
full test of the handler needs no assumption, since RxInOrder itself says what an
overrun leaves.

**NiosDrivers_proofs**, I2C (`BlockFits`: the block lies in one page and in the
memory, its values are bytes, and one of them is not 255, which is what the bus
reads as with nobody on it). Any sizes, addresses and lengths. The invariant has
three parts. `Control`: between two commands the core is idle, and while one runs
CR and TXR hold what the driver gave (`CmdsAre`, `ScriptIs`: the k-th command of
either call). `Fitted`: after k bytes of a call the EEPROM is in the phase, at the
address and with the latched bytes that `After` says; the two address bytes make
`Reg` (`AddressBytes`), and in a page the address counter moves on by one
(`NextInPage`). `Data`: what has been read so far is the block, or ones if nobody
answers (`Got`).

- `StopsOnFreeLine`: a STOP comes after the last byte of a call alone, and by
  then the phase of a read is over.
- `ReportsAreTrue`: the read back begins after the sleep, when the write cycle has
  put the block into the memory (`BlockStored`); cpr finds a difference exactly if
  there is one (`FirstDifference`).

**Sdram_proofs**, the pins, for any wait and burst lengths again.

- `BusDrivenInWindow` (DriveWindow): the chip has a write burst open exactly while
  the controller counts one (`WriteOpen`); `InitCount` keeps the initialisation's
  waits from ending at a count left over.
- `ChipRefreshedInTime` (RefreshedInTime): the request is at most one operation
  old and a period apart from the one before (`LaterRequest`), except for the first,
  which ran while the chip was being initialised (`FirstRequest`). `RefreshAssumption`
  is what the scheme needs: a period longer than the longest operation by two
  clocks (the source: 1500 against 171), and a mode register wait shorter than both.
- `ControllerObeysChip` (ObeysChip, the refinement of SdramProtocol, one step of
  proof per command): `InitGap` and `WorkGap` say, for each state of the two state
  machines, which command the chip saw last and how long ago; `Rested`, that it
  has no row open and will be at rest in time. `BurstAssumption`: a CAS latency of
  3, read bursts of at least 4 words (`sdram_short_read` shows why), TDAL at most 8,
  and a `GapCap` that does not cut off any spacing.

**Sdram_proofs**, the read path, for any raster and any sizes of FIFO and bursts.

- `ReadBurstFits` (RdFifoNeverFull): the words in the FIFO and the pops not yet
  counted are at most RdLevel - 1 and what the running burst has pushed (`RoomInv`;
  outside a burst, a whole one). A request is honoured from IDLE alone, with no
  push uncounted, so that the usage read there is not below the words
  (`RequestBelowLevel`), and what a write or a refresh delays can only be
  popped meanwhile. `RoomAssumption`: level + burst <= depth, which also keeps the
  9-bit count from wrapping (the source: 350 + 160 <= 512), and AckAssumption.
- `ReadPagesMatch` (ReadPagesInStep): words since the clear = pages * burst + words
  of the burst the counter has not counted (`InStep`, `Part`), where the two
  registers behind the acknowledge follow from the delay counter (`AckPipe`).
  A burst that the clear meets is over before the first line is: its clocks left
  and the clocks of the line so far never exceed the longest operation by more
  than one (`PageInv`), because no request is made while the clear is up.
  `PageAssumption`: the first line is longer than the longest operation (6528
  clocks against 171), and a frame fits the page counter and the histories.
- `DisplayIsFed` (LcdNeverStarves): what the FIFO holds, with the clocks until the
  next pop (`Stock` is 16 clocks for each word and those of `Ahead`), is never
  less than what the next words from the SDRAM may take (`ReadNeed`) and the words
  the display's clock may not see yet (`Enough`). In a burst a second bound says the
  same of the words still to come, for when it ends (`FeedInv`). A read waits for
  one refresh and one write at most, as the camera is not back with a second write
  by then (`MaxWait < WrGap`) and the next refresh is not due (`Calm`). While no
  read is asked for, the FIFO holds the level less the pops not yet counted
  (`NoRequestMeans`), which is more than a request then needs. From the clear of
  line 0 to the picture nothing is taken, and `Ahead` counts down the lines above
  it; after a reset it outlasts the initialisation too (`SettleLeft`).
  `FeedAssumption`, in clocks and with the source's numbers: the level less those
  pops is 16 * (350 - 7) = 5488 >= 495, a burst on the display 16 * 160 = 2560 >=
  366 + 169, the 15 lines between clear and picture 97920 >= 496, and the 16 lines
  after a reset 104448 >= 494 + 20150 + 9. TLC checked `FeedInv` on the constants of
  `video_read`, which satisfy the assumption, before it was proved.
- `PixelsInPlace` (PixelInPlace): the words taken are the pixels the raster has
  passed (`Exact`, `PassedStep`), as `Window` gives the window registers by
  position and `DisplayIsFed` says that each pop finds a word (`PixelsFollow`).

**Sdram_proofs**, the write path, for any sizes, cameras, reads and resets that
satisfy two sets of inequalities. `CameraSizes`: a burst of 5 words or more starts
at two words less; lines and fields are whole bursts; words come 2 or more and
fewer than a burst's clocks apart; a field pulse outlasts a burst. `StoreSizes`: a
write burst is a burst of the video FIFO, and the FIFO holds it and the pops not
yet counted; the refresh period outlasts the longest operation (`QuickRefresh`); a
field pulse outlasts the longest operation and, the first one after a reset, the
initialisation of the SDRAM; a camera takes as long over a burst as the SDRAM may
keep a write waiting, a burst into the FIFO and one out of it; a field fits the page
counter. The source satisfies all of it: bursts of 160, operations of at most 169
clocks, waits of at most 178, so that 502 clocks face 160 * CamMin and any camera
with 4 clocks from word to word will do (a word is two bytes of a camera's byte
clock, in a design of 100 MHz); 20150 clocks of initialisation face a field pulse of
several lines.

- `CameraWordsTakenOnce` (CameraWordsOnce): before a burst at most one word less
  than a burst waits and, if as many, the last has just come (`Waiting`); in a
  burst, the words spare are bounded by the clocks gone by (`Running`). A burst with
  none spare would be one whose last word the camera holds back at the end of a
  line, but the words taken make whole bursts (`WholeBursts`, `PauseWhole`).
- `WriteBurstsFed`, `WriteFifoTakesAll` (WrFifoNeverDry, WrFifoNeverFull): the write
  FIFO and what still comes into it are nothing, one burst, or the rest of the burst
  being written (`Shape`). For this a burst must be written before the next is
  started: `Need` counts the clocks until then, `Until` the clocks to the next burst
  at the least, and `InTime` says that the first is less. `Need` falls by one each
  clock (`NeedStep`), also while a refresh or a read is first, since a second
  refresh cannot come between (`Calm`, `WaitShorter`). `SettleInv` says that the
  first whole pulse finds the controller in step with its refreshes; `ClearInv`,
  that a write met by a pulse is over before it ends and leaves nothing.
- `WritePagesMatch` (PagesInStep): words out since the clear = pages * burst + words
  of the burst being written (`PagesMatch`), the two registers behind the
  acknowledge following the delay counter (`WriteAckPipe`).
- `FieldIsStored` (FieldStored), for `StoreTime` of `MaxNeed` clocks or more (501 in
  the source): the clocks since the last word and those needed stay within `MaxNeed`
  (`SinceInv`). Then no word is on its way, and what the video FIFO may hold is
  less than a burst and whole bursts (`Counted`, `WholeBursts`): nothing.

The run `video_write` is outside `StoreSizes`: with 4 clocks to a word its bursts
overlap, which the inequality excludes, and the properties hold there too. TLC
checked `StoreInv`, the invariant of these proofs, on bursts of 6 with 5 clocks
to a word, within `StoreSizes`, before it was proved.

**FdTable_proofs**. `DescriptorsAsOpened` and `LockedDeviceIsKept`, by one
invariant, `FdInv`: besides the agreement of the pool with what the program holds
(`HeldAsOpened`), a descriptor in no use keeps nothing of the file it had
(`FreeIsUnused`), and a lock is always on a device's descriptor no higher than
`alt_max_fd`, which is as far as alt_file_locked looks (`LocksInReach`). Any
devices, file systems and callbacks, any pool of more than the three standard
descriptors.

**AsyncFifo1_proofs** (`SizeAssumption`: ASIZE >= 2; any words).

- `GrayInjective`, `GrayOneBit`: the Gray code of `fifo1.v` names each pointer and
  changes one bit from a pointer to the next, the step from the last to 0
  included, for every width. Both rest on facts about the bits of numbers, by
  induction, which is done through the least counterexample (`Least`, from
  `WFMin`), for tlapm cannot use an induction theorem.
- `SamplesAreOldPointers` (SamplesLag) and `AsyncFifoIsFifo` (IsFifo): the
  invariant `FifoInv` places the samples on the way of the pointers (`Aged`):
  counted back from the write pointer, the two samples of the write pointer, the
  read pointer and its two samples follow one another, at most Depth apart. It
  says too what the flags know: not empty means that the sample is ahead of the
  read pointer, not full that the sample is less than Depth behind. A sampler that meets an edge gets
  the old or the new pointer, by `GrayOneBit`, so a sample only moves forward
  along the way.

**Alarms_proofs** (`AlarmAssumption`; any number of alarms, any width). The
ring's order is a sequence in the invariant: `Ordered` names places 0 to k + 1,
Head at both ends and the started alarms between, and says that both pointers
follow it; `Going` says where alt_tick stands and that what is before it has
been visited, with a `rollover` flag that tells whether the count has to wrap
(`Due`), and what is after it may have a flag that the count has just overtaken
(`ToVisit`).

- `AlarmsCalledOnTime` (CalledOnTime): a visited alarm is due later, and one in
  its callback is due now, unless it was started for `Wrap` ticks. Inserting and
  removing shift the places after the alarm (`InsertOrder`, `RemoveOrder`). When a
  callback stops the alarm read in advance, alt_tick goes on off the ring, with an
  alarm that points to itself (`OffRing`; place 0 in `Going`), and promises nothing
  of the alarms it has not come to until it is back.
- `TickKeepsToRing` (KeepsToRing): alt_tick goes to the next place on the ring, and
  only a callback that stops the alarm there takes it off.
- `RingOfStarted` (RingIsStarted): the n nodes first met are places 1 to n, and
  k is at most the number of alarms.
- `ClockGoesOn` (ClockAdvances), at every rate: seconds and microseconds of the
  count are together the count in microseconds, but for the seconds by which the
  first are ahead of the second (`Ahead`, `CountIs`), and gettimeofday's loops take
  quotient and remainder. Where the rate divides a second that is none
  (`NeverAhead`); where it does not, it changes by one at most in a tick
  (`AheadSteps`). `TimesAssumption`: times set are later than (2^32 - 1) ticks
  after 0, as any date now is at ten ticks a second or more; otherwise the time
  of day would be before 0 once the count has wrapped, and gettimeofday answers
  0 until it is not.

Every invariant, action property and refinement that a passing run checks is
proved. Only model-checked is what is live: `OperationsEnd`, `PulseArrives`,
`WordSeen`, `RoomSeen`, `TickEnds`, `KeepsReporting`, and `PauseHeals`, which is also
all that is said of the handshake after a lone reset. Liveness under fairness is
outside what the prover handles.

## 13 Where code and comments differ

The first is a run of the project. The others are configurations beside the runs,
each of one property that TLC finds violated:

| configuration | statement | what the code does |
|---|---|---|
| `uart_full_overrun.cfg` (`FullIsKept`) | "If the cicular buffer was full, disable interrupts" `altera_avalon_uart_init.c:189` | read enables RRDY again whether or not the buffer is full (`_read.c:234`); a transmit interrupt makes the handler take a character whatever CONTROL enables; and the full test misses an unmasked `rx_start`. The buffer then looks empty: all of it is lost |
| `alarm_stopped.cfg` on MCAlarms (`StoppedIsNotCalled`) | "alt_alarm_stop() is used to unregister a callback" `alt_alarm.h:73` | a callback that stops the alarm `alt_tick` has read to come next (`alt_tick.c:102`) does not keep it from being called (`alt_tick.c:140`); off the ring it points to itself, and alt_tick stays on it for ever |
| `alarm_longest.cfg` on MCAlarms (`NotCalledEarly`) | "nticks - The time to elapse until the alarm executes" `alt_alarm_start.c:45` | with 2^32 - 1 the time is the current count, and no roll-over is seen (`alt_alarm_start.c:89`): called at the next tick |
| `clock_back.cfg` on MCAlarms (`TimeGoesOn`) | "the current "wall clock" time ... calculated using the elapsed number of system clock ticks" `alt_gettod.c:57` | seconds and microseconds are cut off apart (`alt_gettod.c:91-93`): at 60 ticks a second tick 60 gives 1 s 999960 us and tick 61 1 s 16626 us |
| `fd_lock.cfg` on MCFdTable (`LockIsExclusive`) | a lock is granted "if there are no other open file descriptors which reference the same device" `alt_fd_lock.c:43` | the scan ends before `alt_max_fd` (`alt_fd_lock.c:61`) and misses the descriptor allocated last |
| `settod.cfg` on MCAlarms (`SetIsGot`) | "an immediate call to gettimeofday() would return the value specified" `alt_settod.c:61` | 32-bit product here, 64-bit in gettimeofday: they differ once `nticks * (ALT_US/tick_rate)` exceeds 2^32 |
| `sdram_short_read.cfg` on MCSdramTop (`ReadBurstStops`) | bursts of 1 to 256 words `sdram_cmd.v:38` | a read of fewer than 4 words is never stopped (`sdr_para.v:67`) |
| `sdram_one_word.cfg` on MCSdramTop (`AcksMatchBurst`) | bursts of 1 to 256 words `sdram_ctrl.v:37` | a write of one word pops the FIFO three times (`sdram_ctrl.v:188`) |

The video system uses bursts of 160 (`ex23.v:47`) and is not affected by the last
two. Met while reading, and part of the models without a configuration:
`I2CWrite` with num = 0 still writes a byte; close of a UART that reports
EWOULDBLOCK releases the descriptor all the same; after a framing error the
character is not read from RXDATA, so that RRDY stays and the next interrupt
takes it for a good one.

## 14 What is not modelled

- The SDRAM's data. Which clock edge a word is taken at on a read depends on the
  board's delays and the phase of `sdram_clk`; the model says when words are
  acknowledged and when the bus is driven, not when the chip's outputs settle.
- The effect of A10 with full-page bursts, which differs between chips.
- Colour formats, sync polarity, the content of ROMs: layout without control.
- Bank bits: the column command takes its bank from the page again. A field has
  fewer than 4096 pages, so both are bank 0.
- UART driver: the ioctl of the driver (termios and baud rate, compiled out
  unless asked for), the small driver (another build), multi-threading (flags and
  semaphores are empty macros without an operating system).
- I2C core: the bit controller (a byte is a step), arbitration loss (one master)
  and the interrupt (never enabled).
- HAL: busy loops, section loading, caches, profiling, logging (compiled out) and
  stubs.
- Most C lines of the repository: 10119 of the 24948 are three arrays of pixels
  (`S13_vga_p/S2_vga_diap_pic3/*.c`), and most of the others are register
  headers, logging and stubs without state. A map of 30 % of them would have to
  name lines that no definition translates; the Verilog and VHDL, which carry the
  repository's own logic, are what the rest of the map names.
- The components planned below, and the exercises named in section 1.

## 15 Plan

Done, in this order: SDRAM controller and proofs, video write path, LCD read
path, pulse synchronisers and proofs, FIFOs and the proof of SyncFifo; then the
UART driver with the proofs about its buffers, the files, the alarms and the I2C
test program; then the proofs of the SDRAM's pins, of the files, of the
asynchronous FIFO, of the alarms, of the I2C test program, of the write path and
of the read path, the feed of the display last.

| next | module(s) | promises | check | prove |
|---|---|---|---|---|
| 1 | `KeyFilter` | one event per settled change, both versions of l.100 | small counter limit, any bouncing | types, state against key_state |
| 2 | `UartTx`, `UartTxString` with KeyFilter | a string is sent whole; no key event falls inside it, since events are 20 ms apart and a string takes 6.3 ms; a key in the clock of Tx_Done (`uart_tx_top.v:49`) | short frames, ratio kept | frame invariant |
| 3 | `UartRx` against a sender of a drifting rate, `UartDpram` | each byte once, in order, up to a rate; the rate from which start edges are lost (`uart_byte_rx.v:194`); a key in mid frame (`CTRL.v:65`) | 16 samples per bit, two bit values | address invariants |
| 4 | `IicGene`, `IicCtrl` | every ROM entry is one whole transfer on the bus; refines a bus protocol (`iic_ctrl.v:262`) | few ROM entries, short bit time | request held during transfer |
| 5 | `SysCtrl` | reset released once, after lock | two clocks | types, ordering |
| 6 | `SpiSlave` | a transfer broken off stores nothing (`spi_slave_2.v:104`) | 2-bit bytes, select in any clock | state and bit count |
| 7 | `SvpwmGate`, `CalArbiter` | no open bridge with a fault (`pwm1.vhd:53`, `fault.vhd:48`); one grant, no starvation (`cal_arbiter.v:23`) | small counters | safety of both |
| 8 | `AsyncFifo2` | BoundedFifo for a writer that respects full (`fifo2.v:55`, `:70`) | latch between edges | - |
