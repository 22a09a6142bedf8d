# A TLA+ verification of the 3D diffusion SoC

The repository is a RISC-V system on chip: a CVA6 core with its caches, a
crossbar, a main memory in block RAM, a boot ROM, the usual peripherals and a
compute-in-memory (CIM) core, with the testbench that simulates it. Most of the
tree is vendored IP (CVA6, HPDcache, the debug module, PLIC, register interface,
Ethernet). This project models the parts that carry the logic of the SoC itself:
the path from the crossbar to a memory, the memories of the CIM core, the boot ROMs
of the two platforms (FPGA and OpenPiton) with their device drivers, and the
simulation: its two testbenches, the ELF loader, the remote-debug server, and the C
library of the debug module's test programs.

## Inventory

| Component | State | Operations | Interacts with |
|---|---|---|---|
| `axi2mem` + block RAM | `state_q`, `ax_req_q`, `req_addr_q`, `cnt_q`; RAM words and output register | accept a read or a write, one beat, stall, reply, reset | masters over five AXI channels; the RAM one cycle later |
| hart barrier, FPGA (`smp.h`) | a program counter and an index per hart; `msip` | pause, post, sleep, clear, scan | CLINT registers |
| CLINT | `msip_q`, `mtime_q`, `mtimecmp_q` | register read and write, RTC tick | harts, over AXI-lite |
| hart barrier, OpenPiton (`smp.h`) | a program counter and a loaded value per hart; one word of memory | take turn, swap, wait for all | shared memory |
| OpenPiton loader | the copy under way, its destination | read header, entries, image | a memory-mapped SD card; the barrier releases the other harts |
| FPGA loader (`gpt.c`, `sd.c`) | the command sequence, retry and block counters, result code | CMD0, CMD8, CMD55, ACMD41, CMD18, blocks, CMD12 | an SD card over SPI |
| SPI driver | none of its own; the core's FIFOs | exchange one byte, exchange up to 256 | SPI core |
| UART driver | none of its own; the UART's divisor and transmit register | initialise, print strings and numbers, keep a progress line | UART, and the terminal behind it |
| remote bit-bang server | connection, pins, last TDO | accept, execute one command | debugger (socket), simulated JTAG port |
| CIM core | banks with their output registers, ownership register, control registers | AXI bursts, register accesses, computation | crossbar; register bus |
| ELF loader (`elfloader.cc`) | sections, their contents, a cursor | read a file, hand out the sections one by one | testbenches |
| SoC testbenches (`ariane_tb.cpp`, `.sv`) | options, debug transport and JTAG objects, clock, reset, time | parse, build, reset, preload, cycle, judge, delete | ELF loader; harness; signals |
| debug module's testbench (`tb_top_verilator.cpp`, `syscalls.c`) | clock, reset, time; break and `errno` of the program | dump, clock, end; system calls | debugger; the simulated memory map |

What is hard in them: stalls, late write data and resets in the middle of a burst;
beat counters at their limit; harts that interleave freely in the barriers, over a
CLINT whose decode is not quite what the code expects; a card that may lose,
garble or damage anything at any time; FIFOs drained while they fill; a debugger
that outruns the simulated hardware or disappears; an owner of the CIM memories that
changes in the middle of a burst; several ways for a simulation to end, in the same
cycle or during its clean-up. `PROJECT.json` lists these
hazards one by one, each at its line with the properties that would catch it, or the
reason why none does.

## Modules

    BurstMemory  <==  AxiSram   EXTENDS Axi2Mem        AxiSramProofs
                      Cim       EXTENDS Axi2Mem        CimProofs
    Rendezvous   <==  IpiBarrier                       IpiBarrierProofs
    Rendezvous   <==  CountBarrier                     PitonBootProofs
                       +- PitonBoot (barrier + loader) PitonBootProofs
    BitbangWire  <==  RemoteBitbang                    SimulationProofs
                      Testbench EXTENDS ElfLoader      SimulationProofs
                      SdBoot                           SdBootProofs
                      SdCrc                            SdBootProofs
                      BootIo    EXTENDS SpiPort, UartPort  BootIoProofs
                      DbgTb                            DbgTbProofs

`A <== B`: B is shown to implement the abstract specification A. `MC*` modules
give the constants of a run their values. A definition whose comment starts with
"A fault" or "Fault" is a variant of the definition after it, with a plausible
bug; nothing in a specification uses it. `PROJECT.json` pairs each property with
such a variant that breaks it.

### Main memory: `Axi2Mem`, `AxiSram`, `BurstMemory`

`Axi2Mem` is the state machine of `axi2mem.sv`: one action per branch of its
`case`, with the register names of the source. `AxiSram` conjoins each action with
what the block RAM does in the same cycle (read, write, idle). A step is one clock
cycle of the machine or one action of a master. Addresses are word addresses and
the size field, which the code samples and never reads, is left out. A master
holds a request until it is accepted and presents write data before or after the
address has been accepted; the crossbar lets one write of a master through at a
time. `MoreBeats`/`LastBeat` against `HoldBeat` is `r_ready`.

`BurstMemory` is the promise: a memory that serves one burst at a time, each beat
at the address the AXI standard gives it. The refinement mapping `txn` reads the
burst and the beat off the registers.

### Barriers: `Rendezvous`, `IpiBarrier`, `CountBarrier`

`Rendezvous` says what a barrier promises: the worker works alone, and no hart
goes on before the awaited ones have arrived. `IpiBarrier` is the pair of macros
of the FPGA boot ROM over the CLINT's `msip` registers, with the decode of
`clint.sv`: an inclusive upper bound, an index cut out of the address, and data in
the low half of a 64-bit word only, so that the register of an odd hart reads as
zero. Hence the FPGA barrier awaits the even harts only, and only when hart 0 is
the worker; `Awaited` states exactly that. `CountBarrier` is OpenPiton's version
with one counter in memory. It awaits every hart, whoever is the worker.

`IpiBarrier` is about work that ends, as the comment in `smp.h` describes it; the FPGA's `main` jumps to DRAM
itself or spins, so in that ROM `smp_resume` is never reached and only a design
with one hart, as the FPGA's is, gets all its harts to the loaded program.

### OpenPiton boot: `PitonBoot`

Extends `CountBarrier`: the worker's single-threaded work is the loader, block by
block, and `Work` happens when `main` returns. A block is a record of the fields
that `gpt.c` reads. Block numbers are cut to 32 bits (`LbaMod`) at the call of
`sd_copy`, as in C.

### FPGA boot: `SdBoot`, `SdCrc`

`SdBoot` is the command sequence of `sd.c` and `gpt.c`. A response is one of the
four classes the code tells apart. The card is external: `Answer` lets it answer
correctly, or answer anything, or nothing, with or without having executed the
command; `Die` makes it silent for good. `faulty` and `lost` record misbehaviour
for the properties and are read by no action. `SdCrc` checks the assumption that
damage is caught: the two checksums, bit for bit, beside the polynomial division they
stand for. A word is the set of the positions of its one bits, so that xor is the
symmetric difference and a shift adds to every element. A damaged copy of the block
is fed along, wrong in one byte or in two adjacent ones.

### Device drivers: `SpiPort`, `UartPort`, `BootIo`

`SpiPort` is the driver over the FIFOs of an SPI core that moves bytes at any pace.
Bytes are numbered, so that a stale or doubled one shows. Bit 8 of the control
register, which the driver sets after filling the FIFO, is left open: whether the
core starts before or after makes no difference to what is checked. OpenPiton's
`spi.c` is the same file.

`UartPort` is `uart.c`: `init_uart` register by register, over a UART whose transmit
register shares its address with the low byte of the divisor, and the print
functions character by character. `todo` is the list of print calls still to be made,
each a record of its loop's variables. The terminal has a line and a cursor, because
OpenPiton's `sd_copy` overwrites its progress line with backspaces; every fixed text
is one letter.

`BootIo` is the program that uses both: the hart is in one call at a time, `spi_init`
prints the status it reads, and the devices go on meanwhile.

### CIM memories: `Cim`

`axi2mem` again, in front of the multiplexer that gives the memories to AXI or to the
control logic (`mux`, a register software writes at any time), the bank decoder and
the banks. The control logic is commented out at this commit, so as an owner it may
do anything at its port. The comments of the properties state what the hardware does
where one might expect otherwise: the returned word is selected by the current
address, so the last word of a bank read as the last beat comes from the next bank;
a strobed write replaces the whole word, because the strobes are combined by `&&`,
which leaves one bit, and the RAMs are generated without byte enables
(`xlnx_bram_512x32/tcl/run.tcl`), so a byte store overwrites its neighbours; beats
under the other owner are dropped, read as zero or are what that owner left at the output, and are
acknowledged all the same; addresses no rule covers read as zero. The eDRAM path is
the same code with more banks.

### SoC simulation: `ElfLoader`, `Testbench`

`ElfLoader` is `read_elf`, `get_section` and `read_section` with their asserts, and
the two ways sections get to memory: `PreloadBase` (C++: the section at the DRAM's
address only) and `PreloadRows` (SystemVerilog: row by row, skipping the row written
last). The latter writes `init_val`, from which the memory's model (`tc_sram.sv`)
starts, and which a clock edge in reset copies to the memory (`ResetSram`). Its
addresses keep 24 bits (`Span`), 16 MB, of which the memory (`Size`) has 512 KB: a row
past its end is lost, and segments 16 MB apart share rows. A file is a record of what the loader looks at; `sections` and
`section_index` are indexed by the place of a segment in the program headers, which is
the order of the vector in the code.

`Testbench` is `ariane_tb.cpp` from `argv` to the exit status, one action per option
class and per phase of `main`, and the processes of `ariane_tb.sv`; `sim` chooses.
`RisingEdge` is what the harness calls at a rising clock edge in either: `debug_tick`,
`jtag_tick`, and the tracer that watches `tohost` and the time limit. (A harness
compiled without RVFI has no tracer and reports the debug transport's end on `exit_o`;
that configuration is not modelled.) `ariane_tb.sv` loads a program only if
`+elf_file` names one. An option with its value is one
argument. Undefined behaviour is a choice: `perf` is uninitialised, the search in
`verilog_plusargs` has no null to stop at, and `SIGTERM` after the deletion calls a
deleted object. `max_cycles` is parsed and used by nothing.

### Debug module's simulation: `DbgTb`

The loop of `tb_top_verilator.cpp` (dump, clock, reset, end) and a program that makes
the system calls of `syscalls.c` in any order. The calls that do nothing are tables
of results and `errno` values. `_sbrk` adds the increment twice, a negative one too,
and never reports a full heap; `moves` is the history of the break. `syscalls.c` says
of 0x10000000 that it outputs strings, but `mm_ram.sv` has its printer at 0x1A10F000
and maps nothing at `STDOUT_REG` and `EXIT_REG`: in the model, as in the code, the
console stays empty and an exit ends nothing (`Store`). The assertion of `mm_ram.sv`
on such stores is left out when Verilator compiles it.

### Remote bit-bang: `RemoteBitbang`, `BitbangWire`

`SimJTAG.sv` calls `jtag_tick` once in `TICK_DELAY + 1` cycles; the call executes
one command or waits for a connection. `place` says where the simulation is. The
two copies of the server differ when the client has closed: the C version returns
(`EofReturns`), the C++ version spins. A failing `accept`, `read` or `write` aborts. The test access port is a parameter, any
machine for which `Edge` is idempotent; MC uses a one-bit shift register.
`BitbangWire` is the promise: the debugger drives the pins of the port directly.

## What the runs check

| Run | States | Shows |
|---|---|---|
| `axi_sram` | 134,912 | refinement of `BurstMemory`, its invariants, and that reads and writes end |
| `axi_wrap` | violation | wrapping bursts of four beats that `axi2mem` does not serve, against the comment in its header |
| `ipi_barrier` | 4,242 | rendezvous, no interrupt left pending, all harts leave |
| `piton_boot` | 334 | rendezvous with every hart awaited (four harts, worker 2); no hart starts before the image is loaded; all start |
| `sd_boot` | 2,278 | only an intact image is started; a good card boots; only two loops, named, can last forever |
| `sd_crc` | 49,091 | `crc16` is the remainder it claims to be; damage to one byte or two adjacent ones shows; a line stuck at one for a whole block shows |
| `sd_crc7` | violation | `crc7` is not |
| `bitbang` | 74,800 | refinement of `BitbangWire`; commands are executed; a quit ends |
| `boot_io` | 234,628 | each SPI call gets its own bytes, no FIFO overflows; the divisor is kept, numbers are printed as they are, the progress line stays one line; every call returns |
| `testbench` | 43,378 | what of the image is in memory when the core starts; FAILED exactly when the program failed where the simulation looks; which command lines of the usage text run; traces are in time order; the simulation ends |
| `dbg_tb` | 1,423,137 | blocks share no byte of the heap unless memory was given back between them; the reset released away from a rising edge |
| `cim` | 418,896 | which beats are the words asked for, that a write replaces words of its own bank only, and that bursts end, whoever owns the memories |

Some of these properties say what the code does where one would wish for more. They are
stated so because that is the code:

- `BootEnds` leaves out the wait for a data token on a card that sends none, and the
  loop of `sd_acmd41` on a card that answers busy forever; neither has a bound.
- `ImageLoaded`: `ariane_tb.cpp` loads the section at 0x80000000 and nothing else.
  `ariane_tb.sv` loads every segment that starts on a row and at an address of its own,
  but of a row that two segments share only one has its bytes.
- `Verdict`: under `+jtag_rbb_enable` a failure stored to `tohost` is not looked at, and
  `ariane_tb.sv` does not look at the debug transport's; both print SUCCESS.
- `RunsBinary`: the usage line of `ariane_tb.cpp` (line 77) has host options before the
  binary. With one of the form `--option` there, `main` takes it for the binary and
  never simulates; with one of the form `+option` the outcome is undefined.
- `HeapApart` says nothing of bytes past the heap's end, where blocks overlap once it is
  full, nor of blocks with a negative increment or a `_brk` downwards between them.
- `BeatsAreWords` excepts the last word of a bank, and `WritesConfined` says that a byte
  store is a word store.

### Bounds

`axi_sram`: a RAM of three words, one byte lane with strobes on and off, bursts of
1, 2 and 3 beats with a counter of two bits, so that the counter reaches its limit
and the address leaves the RAM and wraps in it. The theorems lift all of these.
`ipi_barrier`: four harts (two even, two odd) and six registers, so that the
register after the last hart's is written, which is the one that aliases.
`sd_boot`: cards of six blocks, among them partitions up to the last block, of one
block, empty, reversed, and with numbers that do not fit `LbaMod` = 8 (2^32 in the
code); `MaxTries` is 3 for 10000. `sd_crc`: three free bytes out of six values, with
a damaged copy, and after them, if all were 0xff, 509 more up to a whole block.
`boot_io`: FIFOs of three bytes for 256, calls of 1, 3 and 4 bytes, so that the limit
is met and exceeded, eight bytes in all; numbers with zeros at their end and inside;
copies of 1, 250 and 1020 blocks, so that the progress line is updated, grows by a
digit and stays within 32 bits (`Word` is 10^6 for 2^32).
`testbench`: a DRAM of twelve bytes in rows of two, addresses that tell 24 apart; five
programs (segments with and without zeros to fill, out of order, sharing a row, across
and past the memory's end, aliased, a file cut short) on fifteen command lines; 13
cycles, three of them out of reset. `dbg_tb`: a heap of 8 bytes,
increments -2, 0, 1, 3 and 6 so that it overflows and shrinks, four calls, time 55, which is past the
reset's release. `cim`: two banks of two words in ranges of three, a burst to the end
of a bank and one in the last word of all. `bitbang`: two commands and two answers in
flight.

### Fairness

`AxiSram`: the clock runs, and a master that started a write presents its data and
takes responses, which AXI requires of it. Writes are promised an end only if reads
do not arrive forever: `IDLE` serves AR first. The barriers: every hart keeps
executing; nothing forces one to be fast. `SdBoot`: the host keeps running, and
nothing is assumed of the card; `GoodCardBoots` has as a premise that it does not stay
busy forever.
`BootIo`: the hart runs, the SPI core moves the bytes it is given and the UART sends
its byte; no call is forced to be made. `RemoteBitbang`: only the simulation is fair,
the debugger may do nothing at all. `Testbench`: the process runs; the program, the
debugger and the signal need not come. `Cim`: as for
`AxiSram`, and nothing is assumed about the owner. Deadlock checking is off
where the program ends or spins; it is on for `axi_sram` and `cim`.

## What is proved

TLAPS checks every proof to the last leaf.

- `AxiSramProofs`. `TypeCorrect` needs no assumption beyond the constants' own.
  `BurstInvariant` and `Refinement` assume that the requests are among the
  `Supported` ones: incrementing bursts, and wrapping ones of two beats, shorter
  than the counter's range. The inductive invariant is `BurstInv`. It needs
  `ProgressInv` (counter and address register follow the beats), `ReadDataReady`
  (the RAM's output holds the beat being offered) and `WriteInStep` (the W channel
  and the state machine agree on the beat), since the end of a write is decided by
  the `last` flag and that of a read by the counter.
- `IpiBarrierProofs`, for any number of harts and registers, worker 0. The point
  is `WorkerHoldsGate`: hart 0 raises its own interrupt first and withdraws it
  last, so no scan passes register 0 before every interrupt has been raised; then
  a zero in the register of an even hart means that it has arrived.
- `PitonBootProofs`, for any number of harts and any worker. `CounterInv`: the
  harts that have arrived are those below the counter, and only the hart whose
  number it holds can be between the load and the swap; from it the refinement of
  `Rendezvous`. It is carried through the composition with the loader, whose
  `LoaderInv` says that what has been copied is what the card holds. `NoEarlyStart`
  follows: a hart past the barrier implies the worker arrived, hence the copy was
  complete.
- `SdBootProofs`, for any card of fewer than 2^32 blocks, any misbehaviour of it and
  any limit of retries. `LoadInv` has four parts. `SafeInv` holds whatever the card
  does: a block that passed its CRC is a block of the disk, and the counters are in
  range. `StageInv`: the three copies are made once each, in order. `CopyInv` holds
  as long as every read was closed (`~lost`): the blocks stored are those from `lba`
  on, and the card's next one is the one after them. `ImageInv` adds what a
  well-formed partition table asks for and that `i` counts the blocks still
  missing; a jump then finds the count at zero, hence the whole partition
  (`ImageExact`). `HostSafe` is part of `SafeInv`. `SdBoot` takes a damaged block
  to fail its CRC; the second half of the module is about that, for blocks of any bytes
  and any length. `CrcForm` and `DivideForm` bring the shifts of `crc16` and eight bit
  steps of the division to the same word (`CrcExact`). `CrcDiffers`: two different
  bytes make the low halves of equal checksums differ. `CrcKeepsLow`: whatever the next
  byte is in each copy, different low halves give different checksums. `CrcFollows`:
  equal bytes keep a difference. `CrcInv` puts the three together, and `DamageSeen`
  follows.
- `BootIoProofs`. `PortSafe`, for any FIFO depth and lengths of calls: `SpiInv` is
  `PortInv`, which lays the received, waiting and unsent bytes end to end, with
  `CallInv`, how far each loop of the driver has come; the bytes still to come bound
  what the FIFOs hold. `DivisorSafe` needs only where `init_uart` is and that DLAB is
  clear after it. `NumeralsExact` and `ScreenExact` rest on `ScreenInv`: at every
  character, the list of print calls still to be made and the part of the current one
  say what has been written (`At`), for the decimal and hexadecimal loops too
  (their invariants relate `pow` and `left` to the digits left). For the progress
  line, `Erasing` says that the backspaces lead back to its first character, and
  `Rewriting` that the new text covers the old, because a later numeral is
  never shorter (`ShownNext`). Assumptions, all of them constants: the divisor has 16
  bits, a number at most ten decimal digits, and 100 times the size of a copy fits
  the word; beyond that last one the code prints wrapped percentages.
- `SimulationProofs`, the bit-bang server for any port: `SettledInv`, that a call
  finds the wires settled because at least one cycle lies between two calls, and the
  refinement. The testbench, for any command line, program, result and number of
  reset cycles: `TraceInv` (the last record is older than the phase of the
  clock that comes next), `VerdictInv` (how the three ends are encoded, and that
  nothing ends after the verdict; `ExitCode` is the arithmetic of the encoding) and
  `ParseInv`: what is left of a line is a suffix of it (`Rest`), and nothing before it
  would have stopped the loop, so that on a line of the usage text's form the loop is
  left with the binary in front or with a host option before it. The
  latter assumes of a program that a section called `.strtab` is a string table.
- In the same module `ProgramLoaded`, for any program, memory size, address mask and row
  width; it assumes what the ELF format says, that a segment has no more bytes in the
  file than in memory, that rows divide the mask's range, and at least four half periods
  of reset. `TimeInv` follows the first clock edges of `ariane_tb.sv`: the program is
  copied to `init_val` at time 1, the edge at time 3 is in reset and copies it to the
  memory. `ImageInv` says where the core can wake up: not before that.
  `CopyInv` says of the copy that the bytes of each segment handed out that share no row
  are in place and that the row written last belongs to one of them; hence
  a row of one segment alone is never the one that is skipped. `RowsWritten` is
  the arithmetic behind it: a segment is copied only to rows it covers, even when
  it starts inside a row. `OwnBytes`: a segment that shares its address with none has
  its bytes in the map.
- `ArgumentsPassed`, for every command line. `sanitize_args` is a recursive function
  over the arguments; `SetInduction` (from the well-founded order of the naturals)
  shows that it exists and that after n arguments it has kept exactly the
  unbracketed ones, in order (`BuiltOf`).
- `CimProofs`, for any number and size of banks, any strobes and any bursts inside a
  bank: `CimInv` is the types, `Progress` (counter and address register follow the
  burst) and `OutputKept`. `BeatsCorrect` follows: between the edge that requests a
  word and the one that hands it over only AXI's own accesses can move the output,
  and `SameBank` shows that the next address selects the same bank except after a
  bank's last word. `WritesStayInBank` needs `Progress` too: the address of the beat
  stays in the bank of the burst's first one.
- `DbgTbProofs`, for any heap, increments of either sign and number of calls: `HeapInv`
  (what a block has of the heap lies below the break, unless memory was given back
  since), `ClockInv` (in reset the time is a
  fixed function of the edges seen and the clock's level, which makes the comparison
  of `t` with 40 fall on a falling edge).
- `TypeCorrect`, `ReadsReady`, `WritesInStep`, `NoneLeft`, `BootTypes`, `CimTypes` and
  `OutputStays` state parts of these invariants on their own.

A run checks an inductive invariant only where it says more than the promises it
serves; `BarrierInv`, `CounterInv`, `LoaderInv`, `CimInv`, `LoadInv`, `CrcInv`,
`ScreenInv` and the testbench's are left to their proofs.

Only model-checked: all liveness properties (TLAPS does not prove properties that
depend on fairness), and `OnesShow`, which is about one block of 512 given bytes: a
computation of 512 checksums rather than an argument.

## Not modelled

The CVA6 core, its caches, the debug module, the PLIC, the atomics adapter and the
peripheral IP are vendored and verified elsewhere; they appear as the environment.
The CLINT's timer and the bus front ends, the eDRAM and SRAM paths of the CIM core with
the demultiplexer above them, and the test programs are not modelled. The other CIM
registers are stored and read back and nothing reads them. The empty trap handlers of
the boot ROMs do nothing. Generated ROM images, reports and scripts have no behaviour.

`axi2mem` has three more disagreements with AXI than the runs show, and the model has
them too: FIXED bursts are served like INCR ones, the boundary of a wrapping
burst of eight beats is shifted by one bit, and the longest burst (256 beats, `CntMod`
in the model) never ends, because its last beat is one past the counter. Putting such requests into
`WrapRequests` of `MCAxiSram` (with `Depth` = 9 for eight beats) shows them.
A worker other than hart 0 hangs in `IpiBarrier` (set `NonSmpHart` to 1): the store
to the register after the last hart's raises hart 0's interrupt again, perhaps
after hart 0 has withdrawn it. Both pairs of macros work once: on the FPGA a slow hart
still scanning can see its own interrupt raised again and wait for a zero only it
could write, and OpenPiton's counter is never reset. A tick of the bit-bang server
does not return while there is no client, or no command from it.

What the testbench does beyond the properties' reach: a result that is a multiple of 256
becomes exit status 0; a segment that starts inside a row of `ariane_tb.sv`'s memory is
loaded to the beginning of that row. The debug module's simulation goes on after the
program's exit, whose store reaches nothing; only the debugger's quit ends it.

Hazards without a property, all in the models: the CMD12 whose loss `LoadedImage` has as
a premise, the block numbers cut to 32 bits (`StartedLoaded` is about cards where they
fit), the socket that aborts the simulation when it is full.

Three properties of the code lie outside the models, since they concern the build and
the memory layout: `MAX_HARTS` is a parameter of the ROM, and a design with another
number of harts never opens the barrier or opens it early; a partition of 64 MB or more overwrites the boot stack and OpenPiton's
barrier counter, because the size argument of `gpt_find_boot_partition` is unused;
and the barrier counter is never initialised, the model takes it to be zero.

## Plan

1. Done: main memory, CIM macro memories, both barriers, OpenPiton boot, FPGA boot
   (loader, checksums, SPI and UART drivers), remote bit-bang, ELF loader and the
   testbenches, with proofs for each of them. Every safety property of a passing run
   but `OnesShow` is a theorem.
2. `SdBoot` over `SpiPort`: the response classes derived from the bytes.
3. `Clint`: `mtime`, `mtimecmp` and the RTC synchroniser, with the AXI-lite front
   end; then `IpiBarrier` over it.
4. The demultiplexer above the CIM core's three memories, with the eDRAM path.
