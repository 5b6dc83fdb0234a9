# ANEMOS in TLA+

ANEMOS simulates and synthesises *near-memory cores* in the banks of a DRAM
channel (HBM in "all-bank" mode).  Ordinary RD and WR commands to a bank row
trigger the cores, one instruction per command; commands to the topmost rows
write the register files of the cores.  A kernel goes through a chain of tools:

    mapping kernels -> assembler -> raw sequence -> DRAM simulator -> trace -> driver -> cores
    (map_*.cpp)    (nmc_assembler)  (raw2ramulator) (Ramulator)   (ramulator2sc) (pch_driver)  (src/src)

Nothing in this chain feeds back: a core has no way to stall a command, and no
tool sees the program counter of a core.  Whether a kernel computes what was
meant rests on several parties that count the same thing separately.  That is
what the modules here are about.

## 1. Inventory

Paths: `core` is `src/src`, `tools` is `src/inputs/src`, `dram` is
`src/ramulator_files/src`.

| component | state | operations | talks to |
|---|---|---|---|
| control unit (`core/pc_unit`, `crf`, control half of `instr_decoder`) | CRF, PC, NOP counter, one loop register (active, jumps left) | one clock cycle: CRF write, trigger (NOP, JUMP, EXIT, data operation, or ignored), idle, reset | interface unit (decode_en, rf_access), data path |
| interface unit (`core/interface_unit`) | counters and beats of a GRF write and of an instruction in two halves | one clock cycle with a row, RD/WR and a beat on the pins | driver (pins), decoder |
| data path (data half of `instr_decoder`, `fpu`, `fp_adder`, `fp_multiplier`, `grf`, `srf`, `rf_threeport`, `imc_core`) | delay lines of all control signals, pipelines of multiplier and adder, GRF_A, GRF_B, SRF_M, SRF_A, bank buses | MOV, ADD, MUL, MAD, MAC, host write of a register | control unit, banks |
| driver and pseudo-channel (`core/tb/pch_driver`, `imc_pch`) | beats still to be sent, word of a bank read, last command | a cycle without a command, a bank RD or WR, a write to CRF, SRF, GRF | trace file, cores |
| assembler (`tools/nmc_assembler`) | copy of the CRF, CRF writing mode and index, walk of an EXEC (entry, loop, jumps left), error | a source line WRF CRF / WRF data / instruction / EXEC; one turn of the EXEC loop | address and data files, raw sequence |
| mapping kernels (`tools/map_*`) | loop counters, row and column per operand | write the program, its address and its data file | assembler |
| trace conversion (`tools/raw2ramulator`, `ramulator2sc`, `decode_results`) | lines of the simulator's trace and of the raw sequence read, RD and WR queue per channel | send a request, match a simulated command with its data | DRAM simulator, driver |
| DRAM simulator (`dram`, a modified Ramulator), all-bank | request queues, write mode, row states, row table, cycles left per command | enqueue, schedule, ACT/PRE/PREA/RD/WR/REF | trace |
| the same with a single-bank standard (HBM, HBM2) | as above, an open row per bank, hits and age of each row | the same, four schedulers, four row policies, auto-precharge, forwarding of queued writes | trace |
| testbenches (`core/tb/*_driver`, `*_monitor`) | next cycle of the stimuli | drive the pins of a unit | core |
| half-precision library, EDA scripts | - | - | - |

What makes it hard:

* **Counting apart.**  The assembler repeats the core's loop handling to know
  which command triggers which instruction.  The driver and the interface unit
  each count the beats of a write.  The delay lines of the decoder are as long
  as the arithmetic units by one `#if` per number of stages.  A mapping kernel
  writes three files by three sets of loops; the assembler reads them in turn.
* **No interlock.**  A data instruction controls the data path during 2 +
  MULT_STAGES + ADD_STAGES cycles, the next may come after 3 (nCCDL); signals
  of two instructions that meet are ORed.
* **Order only.**  A command carries no name.  Reads, writes and activated
  requests wait in different queues of a controller; refreshes close rows in
  between; a trace of several channels is put together with its data again by
  address and order.
* **Lost commands.**  A command during a NOP is dropped; a command to a bank
  row during a GRF write ends the write.
* **One register for every loop**, which EXIT does not reset.
* **Errors in the middle.**  The assembler stops on an error but keeps the
  lines it has written.

Properties by component: a kernel runs each instruction as often as its loops
say and leaves nothing behind (control unit); a command meets the instruction
it was written for (assembler and control unit); a register-file write is
atomic (driver and interface unit); overlapping instructions compute what one
after the other would (data path); a channel in all-bank mode serves its
requests in order, any channel serves them all, rows are recorded as they are
open and a read does not miss a queued write (controller); a channel's file is its part of the raw sequence
(trace conversion); the files of a kernel stay in step and leave every output
in its place (mapping kernels).  `PROJECT.json` lists the hazards behind them,
each at its line.

## 2. Modules

| module | models | checked by |
|---|---|---|
| `Isa` | an instruction word as the control path sees it; well-formed programs | - |
| `ControlUnit` | the control unit, one action per clock cycle | through the next two |
| `KernelRun` | a host that loads and triggers it, with a history of decoded entries | `MCKernelRun` |
| `Assembler` | `nmc_assembler`, one action per source line or turn of an EXEC | through the next |
| `Lockstep` | assembler, order of the raw sequence, and control unit | `MCLockstep`, `MCLockstepWide` |
| `InterfaceUnit` | the interface unit (variant VAR_DQ_CLK), one action per cycle | through the next |
| `RfWrite` | driver and interface unit | `MCRfWrite` |
| `RfWritePort` | abstract: an atomic write port | refined by `RfWrite` |
| `DataIsa` | abstract: a data instruction as one step on the registers | - |
| `DataPath` | decoder pipelines, arithmetic units, register files, one step per cycle | through the next |
| `DataRun` | a stream of instructions and host writes, next to `DataIsa` | `MCDataRun`, `MCDataMad` (constants of both in `MCDataRun`) |
| `ImcCore` | the core: interface unit, control unit and data path from the pins on | through the next two |
| `ImcDriver` | the stimuli of the core's testbench, cycle by cycle | through the next |
| `CoreBench` | the core on its testbench, next to `DataIsa` | `MCCoreBench.cfg` |
| `DramTiming` | timing tables of the all-bank standards | through the next |
| `AbController` | the controller of one channel, one action per cycle and per request | `MCAbController` |
| `InOrderMemory` | abstract: a memory that serves in order | implemented by `AbController` |
| `BankTiming` | speeds and timing rules of the single-bank standards HBM and HBM2 | through the next |
| `BankController` | the controller of a single-bank channel under every scheduler and row policy | `MCBankController` |
| `TraceConversion` | raw2ramulator, the channels, ramulator2sc | `MCTraceConversion` |
| `KernelFiles` | lines of the three files of a kernel, common parts of the mappings | through `MappedKernel` |
| `MapVA`, `MapDP`, `MapMM`, `MapConv` | the mappings as functions from a problem size to three files | through the next |
| `MappedKernel` | the assembler's walk of such files, with registers and bank columns | `MCMappedKernel`, `MCConvResult` |
| `KernelRunProof`, `RfWriteProof`, `LockstepProof`, `DataRunProof`, `AbControllerProof`, `BankControllerProof`, `TraceConversionProof`, `MappedKernelProof` | theorems about the modules they are named after | TLAPS |

**Control unit.**  `crf`, `pc`, `nop_cnt`, `jmp_act`, `jmp_cnt` are the
registers of the same name.  A cycle is the combinational methods followed by
the clock edge, so `DecodeJump` contains both the decoder's case OP_JUMP
(`StartLoop`, `RepeatLoop`, `LeaveLoop`) and what `pc_unit` does with its
outputs (`PcJumped`, `PcCounted`).  Counters keep their widths: NOP 0 stalls
for the counter's full range, a jump past entry 0 wraps in 8 bits.

**Assembler.**  An instruction is (operation, use of banks, two immediates).
The walk of an EXEC is one action per turn of its loop, `ExecInstr`, with the
wrap-around of the 8-bit index and 16-bit counts; `ExecNoData` is the end of
the data file in the middle; `RejectInstr` is a line that fails to parse (which
is written nevertheless).  Names, numbers and file formats are left out.  A
trigger in `rawSeq` also records the entry and word the assembler meant, which
`InStep` compares with the core.

**Interface unit and driver.**  A cycle is the row class on the pins, RD, WR
and a beat.  Row and column stay on the pins between commands, as the driver
leaves them.  `EarlyBank` says whether a command to a bank row may come while
the beats of a GRF are still sent: the driver's assertion forbids it but the
assertions are compiled out.

**Data path.**  A signal an instruction drives is a triple <<delay, signal,
value>>; the shift registers together are the set `ctl` of triples to come.
`Sig` is the wired OR of the codes that reach a signal in a cycle, bit by bit,
with the codes of `opcodes.h`, so that two instructions that meet give the
wrong value the hardware would give.  Multiplexers, ports, register files and
the two pipelines are what the units compute from those signals.  A register
holds one SIMD lane, of an integer type; all lanes go the same way.

**Core and testbench.**  `ImcCore` connects the actions of `ControlUnit` and
`InterfaceUnit` and the step of `DataPath` as `imc_core.h` connects the units:
what the pins are decides whether the control unit decodes (`Decodes`), a
register file is written (`Accesses`) and the decoder issues signals
(`Issued`).  `ImcDriver` gives the pins of each cycle of the six tests of
`imc_driver.cpp`, built from the pieces the test's code consists of (fill
registers, write a program, execute), with the driver's own waiting times as
functions of the stages.  The values of the data are small integers.
`imc_driver_mixed.cpp` and `pch_driver_mixed.cpp`, the drivers of the mixed
simulation, send the same pins and lines with the port types of VHDL: the map
names them for the definitions they share with the plain drivers.

**Controller.**  `Tick` is `Controller::tick` of the all-bank build in the
order of its code: read data served, refresh, write mode, a command for the
oldest activated, waiting or refresh request, the command with its effects on
row states, row table and timing.  Requests are numbered as they arrive, so
that a queue is a set and its oldest member its least; the timing is one
counter per command, the cycles that are still to pass, which is what
`update_timing` and `check` come to since every rule holds at the level of the
rank and all banks work together.

`BankController` is the same class built with a standard in which every bank
has an open row of its own.  The methods are others: `enqueue` answers a read
from the write queue if the address is there, `tick` looks at the activation
queue, then at refreshes, then at the queue of the mode, the mode follows the
watermarks, the scheduler (`get_head`) and the row policy (`Victims`) are those
chosen by a constant in `Scheduler.h`, and `cmd_issue_autoprecharge` turns an
access into RDA or WRA.  A behaviour begins with a choice of standard and
policies and keeps them.  Timers are one per command and bank, loaded by the
rules between banks of the same bank, the same group or the same rank; `acts`
has the time until each of the last four activations is nFAW cycles old, which
the fifth waits for.

**Trace conversion.**  A raw line is a command and an address (and a number
that stands for the data).  The mappings of addresses are modelled as the
arithmetic they are: `Slice` cuts the indices of the levels off the low end of
an address one after the other, as the simulator does on every request;
`build_addr` shifts each to the place `addr_map` gives it and adds them up, as
ramulator2sc does on every line.  Each channel opens the row of its oldest
request (`Activate`, a line the converter must skip) and serves it (`Serve`),
in any order relative to the other channels and in the order of arrival on its
own (what `AbController` shows).  The converter takes one step per line it
reads: of the simulator's output (`Skip`, `FromQueue`, `FromRaw`) or of the raw
sequence when it passes a line over (`PassOver`); `NotFound` is the end of the
raw sequence without a match.  The queues hold the numbers of the raw lines
that wait in them.

**Mapping kernels.**  The mappings read nothing while they write, so each is a
function from a job (kernel, problem size, sizes of CRF and register files) to
three sequences of lines.  A number is a *term*: a lane of a data line is a
sequence of terms that says which elements of the operands it is the sum of
products of.  `MappedKernel` runs the three files through the assembler's walk
and the instruction semantics, with registers and bank columns that hold lines
of terms, so that the final content of a column can be compared with the
mathematical definition of the output, term by term.

## 3. Runs

| run | question | bounds and why they are enough |
|---|---|---|
| `kernel_run` | Does every kernel over a CRF run its loops exactly, with any spacing and a reset at any time? | 4 entries, 9 words: every relation of two loops to each other and to the end of the CRF (adjacent, at the start, at the end, jump to itself), NOP 0 and NOP n, counts 1 and 2, 2-bit fields so that counters reach their limits. |
| `lockstep` | Does each command of an EXEC meet its instruction, through several WRF and EXEC sections, rewrites of part of the CRF and errors? | 3 entries, 6 source lines, 20 raw lines: a loop, what comes after it, and a second EXEC after a rewrite; a NOP as long as the spacing. |
| `rf_write` | Is a write of beats atomic, also when a bank command cuts it short, and with instructions that take two beats in between? | 4 beats, two payloads without a common beat, two registers per file, 16-bit bus: a beat at the wrong place or of another write is visible. |
| `data_run` | Do overlapping instructions compute what `DataIsa` says, on a core with two stages in each unit, where a pipeline has a middle and enables take several taps? | Sequences of 3 commands: an instruction drives no signal later than 1 + MULT_STAGES + ADD_STAGES = 5 cycles after its decoding and the next comes 5 later, so overlaps are of two neighbours; a third reads what they wrote. 2 registers per file (index 0 is what an undriven address shows); each operation after a load and on registers, with its operands on every port. The gaps are the least that keep the order. The core as it is built, one stage per unit, is the one of `core_bench`; the theorems about `DataRun` are for every number of stages. |
| `core_bench` | Does the composed core, from the pins on, do what the headings of its testbench's tests announce? | the widths and sizes of the build, the tests as they are: one behaviour of 689 states |
| `channel` | Does the controller serve in order, serve everything, never waste an activation, and keep commands apart? | 3 requests of two rows and two banks, one refresh at any time, queues of 2: a request due behind another of the other type, of another row, or of a full queue; HBM and RRAM timing, the default and the standard with the closest row commands. The refresh is cut from 79..260 cycles to 22, longer than any other wait. |
| `bank_controller` | Does a single-bank controller keep row table and banks together, let no read pass a queued write of its address, and serve everything, whatever the scheduler and the row policy? | 3 requests to two rows of one bank and one of another group, a refresh at any time; the four schedulers, each with one of the four row policies; queues of 2 with watermarks that both bind. HBM2_2Gbps/4Gb, the standard of `HBM2-config.cfg`, with all waits cut to a sixth (rounded up), and nRFC to 8, longer than any other wait. Two banks never fill the window of four activations (nFAW), which the module has; the theorems are for any number of banks. |
| `trace` | Does each channel's file hold its own lines with their own data? | 1 to 4 lines on three addresses that differ in channel, column and row, every order in which the two channels may serve, queue of 2: two lines of the same address and command, with writes, reads, activations and the other channel in between. |
| `kernels` | Do the three files of every mapping stay in step, describe one memory and give the result? | 455 jobs: every small problem size, with sizes of CRF and register files from C-limited with odd and even segments to R-limited; 2 lanes and 8 columns per row, so that vectors end within a word and operands within and beyond a row. |
| `lockstep_wide`, `mad_formula`, `conv_result` | violations, section 6 | - |

One stage per unit leaves room for the gaps of the all-bank timing (nCCDL = 3
core cycles at 300 MHz), with which `mad_formula` runs; the longer turn-round
times (RD to WR 7, WR to RD 9) are cut to what the pipelines can tell apart, 4
and 3.  Two stages ask for 5 and 6, the gaps of `data_run`: less would break
the order of the results, more would show fewer overlaps.
`core_bench` and `trace` do not check for deadlock: a testbench ends, and so do
the conversion programs.  `MappedKernel` stutters when its files are read.

Properties.

* `TripCount`, `InProgress`: how often each entry was decoded, when a kernel
  is over and in every state before.  `NoStaleLoop`: PC 0 and no loop left.
  `KernelEnds`: a started kernel ends although commands during a NOP are lost.
* `InStep`, `Drained`: PC and word of the core at each trigger are those the
  assembler meant; after a source without errors the core rests at entry 0 with
  the assembler's CRF.  `BankCommand`: stores are decoded on WR, loads on RD.
  `WalkEnds`: the walk of an EXEC terminates.
* `InPhase`: a unit that gathers has as many beats as the driver has sent, of
  the same write, with its register still on the pins.  `WriteLands`,
  `TransferEnds`, and `AtomicWrites`, the refinement of `RfWritePort`: a write
  reaches its register whole, or, if it was cut short, not at all.
* `Retired`, `Stored`: registers once nothing is under way, and words stored to
  banks, are those of `DataIsa`.  `OneDriver`: no two instructions drive one
  signal to different values in one cycle.  In `CoreBench` the first two for
  the whole core, and
  `AsAnnounced`: a test has decoded what its heading announces and left the
  core ready for the next.
* `ServedInOrder`: the controller implements `InOrderMemory`.  `Answered`: a
  request is served.  `NoUselessActivate`: no row is closed between its
  activation and the access it was opened for.  `Spacing`: column commands are
  3 cycles apart.  `BanksAgree`: row table and row states agree.
* `RowsAgree`: in a single-bank channel a row is recorded just when it is open.
  `Coherent`: no read waits for the DRAM beside an older write of its address
  in the write queue.  `Answered`: no scheduler or policy starves a request.
* `OwnData`: what is written for a channel so far is the beginning of its part
  of the raw sequence.  `Converted`: in the end it is all of it.
* `FilesAgree`: a bank instruction finds an address of its own bank, a load a
  line of data, a scalar register a single value; what an instruction reads,
  the destination of a MAC included, has been written; the files end together.
  `OneMemory`: a column that is read again shows what it held or what the
  kernel stored there.  `Result`: each output stands in its column and lane
  with all its terms.  The `TypeOK` of this run contains that a program fits
  the CRF.

## 4. Fairness

* `KernelRun`: the host keeps sending commands to a kernel it has started
  (`WF(phase = "run" /\ Run)`): the raw sequence of an EXEC contains them all,
  and the driver delivers every line of its file.
* `Lockstep`: the assembler, one sequential program, goes on with a walk.
* `RfWrite`: the clock does not stop during a transfer.
* `AbController`, `BankController`: the clock does not stop (`WF(Tick)`): the
  loop of `Main.cpp` ticks as long as anything is pending.  Nothing is assumed
  of the host or of the moments at which refreshes become due.  That a run has
  finitely many requests matters in `BankController`: a policy that prefers row
  hits can hold a request back as long as new hits keep coming.
* `TraceConversion`: the programs run on, and a channel that holds a request
  serves it, which is `Answered` of `AbController`.

Safety properties use no fairness.

## 5. What is proved

`KernelRunProof`, for every CRF size, every width of the fields and counters
and every set of words, from `IsaAssumption`, `ControlUnitAssumption` (the
counters are at least as wide as the fields they are loaded from) and
`WordsAssumption`:

* `TypeCorrect`: `Spec => []TypeOK`.  Beyond the types it says that an entry is
  decoded at most 2^11 times in a kernel.
* `TripCountsHold`: `Spec => []TripCount`; `CountsFollow`: `Spec => []InProgress`.
* `LoopRegisterFree`: `Spec => []NoStaleLoop`.
* `KernelInvariant`: the inductive invariant they follow from.

`TripCount` speaks of finished kernels only, so it is not inductive.  The
strengthening, `IInv`, adds `InProgress`: for any end `e` for which the program
is well-formed, the decode count of *every* entry follows from the PC and the
jumps left alone (`PassesIn`: finished passes of the entry's loop, plus one if
the PC is past the entry).  The proof has one lemma per kind of step: a step to
the next entry (`PlainProgress`), a jump back (`JumpProgress`), leaving a loop
(`LeaveProgress`), the last instruction (`LastFacts`), and steps that decode
nothing (`QuietIInv`).  What carries it is `LoopsDisjoint`: loops of a
well-formed program do not overlap, so one loop register is enough and the loop
it belongs to is determined by the PC.

`LockstepProof`, for every CRF size, every width, every set of source
instructions, every spacing and length of source and raw sequence:

* `TypeCorrect`, `TriggerMeets` (`Spec => []InStep`), `DrainsClean`
  (`Spec => []Drained`), `CommandFits` (`Spec => BankCommand`).
* `Invariance`: the inductive invariant.

The core starts when the assembler has finished, so no state shows both at the
same instruction.  The invariant says that a *replay* exists: a function `cs`
from the lines of the raw sequence to states of the core, `cs[0]` the reset
core, each line taken as the core takes it (`Taken`), each trigger on the entry
and word it was written for (`Meets`).  While the assembler writes, the last
state of the replay agrees with its walk (`Agrees`: same index, same loop, same
jumps left), so a turn of the walk extends the replay; while the core takes the
lines, it is in state `cs[pos]`, and a NOP is over when the next line can come
(`NopInTime`).  `OnWalk` adds that a walk stays in its well-formed program and
a loop in progress is the one it is in: a program is well-formed, so a loop
contains no other JUMP that could take the register.

`RfWriteProof`, for every number of beats of a GRF write, every set of
payloads and columns, one or two beats to an instruction and with or without
early bank commands, from `InterfaceAssumption` and `RfWriteAssumption`
(payloads have the length of a GRF write, which is at least that of an
instruction):

* `TypeCorrect`: `Spec => []TypeOK`.  `CountersInPhase`: `Spec => []InPhase`.
* `WritesLand`: `Spec => WriteLands`, an action property.
* `Refinement`: `Spec => AtomicWrites`, the write port of `RfWritePort`.
* `RfWriteInvariant`: the inductive invariant they follow from.

`InPhase` relates the unit to the driver and to the last write command, and is
inductive only with what `IInv` adds: the driver sends one thing at a time
(`OneAtATime`), a unit that gathers has the row of its kind on the pins and the
word of a write a host may issue (`Gathering`), and the types.  The proof has
one lemma per action (`QuietIInv`, `BankIInv`, `OneBeatIInv`, `WriteInstrIInv`,
`WriteGrfIInv`), on lemmas about the word that is gathered (`GatheredWord`,
`StreamedBeat`).  `QuietEnd` is what carries the other two theorems: the cycle
that ends a transfer without a command puts the whole word in its register.

`AbControllerProof`, for any number of requests, banks, rows and refreshes,
any queue capacity and every timing that meets `TimingOK` (`TimingAssumption`);
the run `channel` evaluates `TimingOK` on the tables of all eight standards:

* `InOrder`: `Spec => ServedInOrder`, the step refinement of `InOrderMemory`.
* `ActivationsUsed`: `Spec => NoUselessActivate`.  `RowsConsistent`:
  `Spec => []BanksAgree`.  `TypeCorrect`: `Spec => []TypeOK`.
* `CommandsSpaced`: `Spec => Spacing`, when accesses are 3 cycles apart.
* `Invariance`: the inductive invariant.

The order of service is not inductive by itself: reads, writes and activated
requests wait in three queues.  `IInv` says that what is waiting is exactly
what has not been served (`Waiting`); that an activated request is the one due
and that its access is ready before any command that could close its row
(`Activated`, the reason a refresh cannot come in between); that a row nobody
has accessed belongs to such a request (`Untouched`); how far the timers of the
accesses may run ahead of those of the row commands (`Timers`, where `TimingOK`
is used); and that the mode is that of the request due unless it has arrived in
this very cycle (`ModeRight`).

`BankControllerProof`, for any number of requests, banks and refreshes, any
capacity and watermarks, every table of waits and window of activations, and
every scheduler and row policy, from `BankControllerAssumption` (the constants
have their types, both marks lie within the queue, a request names one of the
banks):

* `RowsConsistent`: `Spec => []RowsAgree`.  `ReadsCoherent`: `Spec => []Coherent`.
* `TypeCorrect`: `Spec => []TypeOK`, with the queues within their capacity.
* `Invariance`: the inductive invariant.

`RowsAgree` needs that an access goes only to an open row and an activation only
to a closed bank (`IssueKeeps`), which holds because what is served is a read
or a write (`Sorted`) and because every scheduler returns a request of the
queue it is given (`HeadIn`).  The last is not obvious of FRFCFS_PriorHit, which
leaves out requests in the way of a row hit: if it leaves out one, the hit that
is the reason is not left out itself.  `Coherent` rests on `Sorted` too: a
request that moves to the activation queue from the writes is no read.

`DataRunProof`, for every number of stages of the multiplier and the adder,
number of registers, width of a lane, set of supported instructions and stream
of commands, from `DataIsaAssumption`, `DataPathAssumption` (at least one stage
per unit; 8 codes of a multiplexer fit a signal) and `DataRunAssumption` (the
gap between two loads exceeds both pipelines together, the bus takes as long to
turn round as an instruction to finish):

* `DataTyping`: `Spec => []TypeOK`.  `DataOneDriver`: `Spec => []OneDriver`.
* `DataRetired`: `Spec => []Retired`; `DataStored`: `Spec => []Stored`; both
  under `Routed`, that no instruction is the MAD of the finding `mad_formula`.
* `PipelineInvariant`, `DataValues`: the inductive invariants.

The shape of what an instruction drives follows from its phases, operation by
operation (`DecodeShape`): nothing before its operands are there, nothing after
its result is stored, a write only of its destination and only then.
`PipeInv` says that the signals under way are the rest of *one* instruction, as
many cycles old as the last command (`Flying`): the next may be decoded in the
cycle the last result is written, and drives nothing yet (`PipeDriver`).
`ValueInv` adds the values: with nothing under way the registers are those of
`DataIsa` (`Idle`); while an instruction is under way, `DataIsa` has executed it
already, and its operands, product and sum stand in the pipelines where its age
says, computed from the registers it found (`Under`).  So a word stored, which
is driven in the cycle of its decoding, is the one the program means.

`TraceConversionProof`, for every number of channels, width of the levels (also
none), raw sequence, capacity of a queue and order in which the channels are
served, from `AddressAssumption` (an address of the raw sequence is one its
indices build):

* `DataFollows`: `Spec => []OwnData`.  `TypeCorrect`: `Spec => []TypeOK`, which
  says that no line is lost or used twice.
* `NeverAborts`: the search always finds its line.  `NothingLost`: when the
  converter ends, the files hold all lines of their channels; this is the
  safety half of `Converted`.
* `AddressesRoundTrip`: cutting an address and building it again gives the same
  address.  `Invariance`: the inductive invariant.

The two mappings of addresses agree because an index is below the size of its
level: `Packed` writes an address as nested products (`BuildPacks`), of which
each division takes off one factor (`SliceUnpacks`, `Field`).  That 2^(a+b) is
2^a * 2^b, which the provers do not know, is shown by counting subsets
(`PowerOfSum`).  The search is by address and command only, and the same
address may occur often; what carries the proof is order.  A line has an
ordinal on its channel.  The column commands of a channel come out in the order
of their ordinals (`SentInOrder`, `WaitsInOrder`), so the command the converter
reads asks for the line after those in the file (`Due`).  What waits in a queue
are the lines read but not written, in their order (`Pending`).  So if the line
has been read it is the *first* of its queue; if not, nothing of its channel
waits, and the first raw line that matches is the next of its channel
(`DuePlace`).

`MappedKernelProof`, for every set of jobs, with no bound on problem sizes, CRF
or register files, from `KernelFilesAssumption` (at least two lanes),
`JobsAssumption` (no size is 0, and of a C-limited kernel at least one operand
fits the CRF: `map_kernel` divides by that number) and `AllHandled`, that the
jobs are among those the mappings handle:

* `KernelTyping`: `Spec => []TypeOK`.  The program fits the CRF, also where the
  peeled part overwrites its end, names registers that exist, and the walk
  never runs into an entry that was not written.
* `KernelFilesAgree`: `Spec => []FilesAgree`.
* `KernelInvariance`: the inductive invariant.

`AllHandled` leaves out what section 6 says is wrong in the code: C-limited
column-wise additions with an odd segment (data lines of the wrong length), and
convolutions with one weight in a set (a MAC without an address), with fewer
weights than a set (an address without a load), with a rest behind the very
first set (`conv_result`), or, with more entries in the GRF than in the SRF,
more weights left over than a set has; and, of R-limited matrix products and
convolutions, an odd number of scalars in SRF_M (a MAC and an address too few).
All dot products and row-wise additions are handled, and all matrix products
that are C-limited or have an even number of scalars in SRF_M.

`FilesAgree` is about the line that is next, so it is far from inductive.  The
invariant says that *all* lines left fit: the walk depends on the lines, the
program, the names of the registers written, the entry and the turns its loop
has left, and on no value (`State`), so the step behind a state is a function
(`StepOf`) and `Safe` says of a state that it lies in a set of states which
this step does not leave and of which each fits (`Good`).  That a step of the
model keeps it is then one lemma per action (`LoadStep`, `JumpBackStep`, ...).
The work is in `Init`: a job as `map_kernel` writes it is safe (`JobRuns`).
That is shown backwards from `TheEnd`, where all three files are empty: a lemma
says of each line and each instruction what is safe before it if what follows
is (`CrfLine`, `LoadEntry`, `JumpEntry`, ...), then of n instructions
(`LoadBlock`, `StoreBlock`), of the turns of a loop (`LoopBlock`: a JUMP of
n - 1 is n turns, and a loop walked once has no JUMP), of the parts a nested
loop of the mapping writes (`PassesParts`), and of each kernel (`VaRuns`,
`DpRuns`, `MmRunsInStep`, `ConvRuns`).  Two places carry it.  The rest of a
matrix product or a filter overwrites only the end of a program:
`OverwriteLeaves` with `MmBodyBegins` says that what is in front of it is the
beginning of the program the rest needs.  And the files are written by
different loops (all turns of all sets into one, set by set into another):
`FlattenOneMore` and `CopiesOfCopies` bring them into one order.  Induction is
over a set of natural numbers (`Induction`, from `WFMin`): the library's
induction theorems take an operator, which the provers cannot instantiate.

Only model-checked: liveness (`KernelEnds`, `WalkEnds`, `TransferEnds`,
`Answered`, `Converted`), which is out of the prover's reach; the composed core
on its testbench (`CoreBench`), whose 689 states are those of one sequence of
pins; and what the mapping kernels compute (`OneMemory`, `Result`).  The last
compares values, built up by folds along a walk, with sums over the operands:
to state for every size where the walk stands in such a sum takes an invariant
of each kernel's layout, and `OneMemory` holds only for the sizes of which
`LaidOut` says so.

## 6. Where code and documents disagree

* `lockstep_wide`: `nmcInst` keeps 16 bits of a JUMP count, the word 11.  The
  assembler accepts a larger count and walks it in full; the core loops less
  often, and from then on commands meet other instructions.  Mapping kernels
  emit counts without a bound.
* `mad_formula`: a MAD after a load with its second factor in GRF_B drives the
  read address of GRF_A instead, so it multiplies with GRF_B[0].  `Factor2File`
  models it; the passing data-path runs leave this operand combination out.
* `conv_result`: with exactly one full set of weights and a rest, the rest is
  run by the MAD of the first set, which adds the bias again in place of the
  sum so far.  The comments at `map_conv.cpp:36` and `293` say otherwise.

Met while modelling, with no run of their own:

* `Controller.h:323` calls the forwarding of queued writes "necessary for
  coherence".  It looks in the write queue only: a write whose row has been
  activated waits in the activation queue, and a read of its address that comes
  then joins the read queue.  After a read of the row the next read may follow
  sooner (nCCDL) than the write, so the younger read is served first, with FCFS
  too: activate for read 1 and write 2, send read 3, serve 1, then 3, then 2.
  `Coherent` is stated for the write queue, where it holds.  The simulator
  carries no data, so only the order in its trace shows it.
* `Scheduler.h:35` says of row policy Closed that it closes a row "as soon as
  there are no pending references".  The code closes any row that may be closed
  in a cycle without another command, pending references or not.  ClosedAP
  counts the hits in the queue of the mode and looks at the activation queue
  only if there is none, so with one other hit waiting it closes the row under
  that request (`cmd_issue_autoprecharge`).  With either, rows may be closed
  between their activation and the access, which `NoUselessActivate` excludes
  in all-bank mode.
* The single-bank tables have no rule from RDA or WRA to REF: a refresh may
  follow an access with auto-precharge at once.
* The row policy hands `RowTable::update` the address of a bank without a row
  (`Scheduler.h:299` reads one element past it); the value is not used for a
  precharge.
* The comment at `nmc_assembler.cpp:261` says that EXEC ends CRF writing mode;
  the code, and `Assembler`, keep it.  Every program a mapping writes begins
  with WRF CRF again.
* The layouts of the mappings do not hold for all sizes, which is why
  `OneMemory` asks for `LaidOut(job)`, the arithmetic condition each module
  states.  `LaidOut` fails where: the two passes of a C-limited dot product
  step differently over the columns (also in the default build); an R-limited
  dot product with an odd rest and several groups of vectors starts the next
  group in the column of the rest; the C-limited mappings of VA and DP divide
  by COLPERROW + 1 or truncate the number of columns; a matrix product with
  q = 1 or q > SIMD_WIDTH counts the columns of a row by q/2 (comment
  `map_mm.cpp:94`); the peeled part of a matrix product reads from the rows of
  the result; a convolution with an odd rest and several turns shares columns.
  The addresses then name columns whose content the data file describes
  differently.  `Result` is not touched by this, as the data come from the
  file.
* Column-wise and C-limited, an odd segment doubles the values of a data line
  and reads past the last vector (`VaDoubled`); no build of the source has one,
  and the run leaves it out.
* R-limited, the matrix product and the convolution write their MACs and
  addresses in pairs, SRF_M_ENTRIES/2 of them with nothing behind
  (`map_mm.cpp:26,96`, `map_conv.cpp:41,64,137,162`), while the JUMP, the loads
  of SRF_M and the data count all SRF_M_ENTRIES (`map_mm.cpp:32,36,155,171`,
  `map_conv.cpp:48,51,70,228,242`).  With an odd number the JUMP goes back past
  entry 0 and the data run ahead of the walk.  `MmMacs` and `ConvMacs` count
  the pairs as the code does; `Handled` asks that none be missing.  `defs.h:43`
  has 8 entries; the C-limited programs write the odd MAC too.
* The R-limited convolution with fewer entries in the GRF than in the SRF runs
  past the end of a filter: the later sets take weights of the next one, with
  the activations from the start again (`Weight`, `Channel`).
* The data of a convolution ignore a stride other than 1 (`Activation`); a
  filter with fewer weights than a set has one address too many per turn; a
  set of a single weight has a second MAC, without an address; the
  R-limited convolution counts its sets in entries of the GRF; a C-limited dot
  product whose segment is all of both GRFs would load over its own sums.
* The waiting times in the core's testbench fit equal depths of multiplier and
  adder.  With MULT_STAGES = ADD_STAGES = 2 or 3 the properties of `core_bench`
  hold as well; with 1/2 the result of a MUL collides with that of a MAD in its
  first test, with 2/1 and 4/2 the addend of a MAD is no longer, or not yet, on
  the bus in its fifth.

## 7. Assumptions and abstractions

* Programs run by the core are well-formed (`Isa`): a JUMP stays in the
  program, makes at least one jump and its loop contains no other JUMP, as the
  comment at `instr_decoder.cpp:531` asks.
* `Lockstep` runs an EXEC only on `Executable` programs: every entry to be
  walked has been set, immediates fit their fields and a NOP is over when the
  next command can come.  That the commands keep their order and a least
  distance is proved of the controller.
* In `Lockstep` the address file is long enough and the values in address and
  data files are left out; `MappedKernel` has them.  That a bank word appears
  on the bus of the bank the instruction names is assumed in `DataRun`.
* `Supported` lists the operand combinations the decoder has a case for, less
  those one port cannot serve: two SRF operands, two different banks, a bank as
  addend of MAD.
* An instruction on registers only is decoded when nothing is under way
  (`Ready`).  It reads its registers one cycle sooner than one that loads, so
  at 3 cycles' distance it would still see the register before a MAC; a kernel
  leaves room with a NOP.
* One lane, integer arithmetic with wrap-around; rounding of floating-point
  formats is not modelled.
* A command to a bank row while the second half of an instruction is on its way
  (16-bit bus) is left out: the driver's assertion forbids it, and the unit,
  which resets only the counter of a GRF write, would keep the first half.
* The interface unit without VAR_DQ_CLK and cycles outside PIM mode have no
  state of their own and are left out.
* The host hands the controller at most one request a cycle, as the loop that
  reads the trace does.  nFAW and the GDDR5 rule on the 32nd last activation
  are left out of `DramTiming`: nRC separates any two activations.
* One core per pseudo-channel in the mapping kernels (CORES_PER_PCH = 1).

## 8. Not modelled, and what is left

* `half.hpp`, twice in the tree, is third-party arithmetic: 10.9 thousand of
  the 39 thousand lines of the repository.  The map covers about 30 % of all
  lines, 42 % without it.
* The drivers of single units (`cu_driver`, `id_driver`, `fpu_driver`) feed all
  operand codes back to back, also those the decoder has no case for, and
  check nothing.  Monitors print.
* Of the simulator: per-bank refresh and SALP, which the standards here are not
  built with, statistics, the gem5 wrapper, caches, CPU traces and the mapping
  of virtual pages.  The all-bank standards repeat one program with different
  tables: `AbController` maps to `HBM_AB`, `DramTiming` has the tables of all.
* Several cores on one bus of a pseudo-channel (`imc_pch`) and the drain of the
  driver at the end of its file.
* `raw_seq_gen` (test sequences), `decode_results` (formatting), scripts and
  synthesis files.

Next, in this order: the pseudo-channel with two cores and the drain of
3 + MULT_STAGES + ADD_STAGES cycles; a proof that `ImcCore`, under pins that
keep the gaps, implements `DataRun`; the values of the mapping kernels
(`Result`) for every problem size; liveness of
`BankController` for an endless stream of requests, with the ages FRFCFS_Cap
would need; a run of `MappedKernel` files through `ImcCore`, which needs lanes
of terms in the data path.
