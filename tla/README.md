# A verification development for Sparcy

Sparcy is a five-stage SPARC V8 core in SystemVerilog (`src/proj/*.sv`) that runs
inside a C++ simulator (`src/proj/main.cpp`, `system.cpp`): the simulator owns the
memory image, speaks a split-transaction bus to the core, uses DRAMSim2 for the
timing of the DRAM and emulates Linux system calls on the host. This directory holds
TLA+ models of the memory side, of the pipeline and of the system calls, the TLC
configurations that check them, and TLAPS proofs about them.

## 1. The system

| Part | Source | State | Operations | Talks to |
|---|---|---|---|---|
| Instruction fetch, PC, nPC | `InstructionFetch.sv`, `PC.sv`, `nPC.sv` | FSM A/B/C/S, `p_pc`, `p_ic_req`, last instruction | request, take the answer, hold for decode, stall after a branch | I-cache, decode |
| Decode | `InstructionDecode.sv`, `IFIDReg.sv`, `IDEXReg.sv` | FSM A/B/S, held instruction | decode, look up dependences, turn the window | register file, all later stages |
| Register file | `RegFile.sv` | 512 window registers, 8 globals, CWP, icc, Y | write at the rising edge, read at the falling one | decode, write-back |
| Execute | `Execute.sv`, `ALU.sv`, `ALUops.sv`, `EXMemReg.sv` | FSM A/B, annul flag, a latch on `ex_ready` | compute, choose the branch target, annul, system call | PC, memory stage |
| Memory stage | `Mem.sv` | FSM A/B, request registers | present a load or store, wait for `dc_ack` | D-cache |
| Write-back | `WB.sv`, `MemWBReg.sv` | pipeline register | extend a load, write the register | register file |
| I-cache | `ICacheDirectMap.sv`, `SRAM.sv` | FSM A/B/D/E, 16 rows of tag and line | look up, refill | arbiter, bus |
| D-cache | `DCacheDirectMap.sv`, `dcache_SRAM.sv` | FSM A/B/C/D/E, 16 rows of tag, dirty bit and line | look up, store, write back, refill | arbiter, bus |
| Arbiter | `Arbiter.sv` | FSM I/A/B | grant the bus, route the acknowledgement | both caches, bus |
| Memory controller | `system.cpp` | `ram`, `rx_count`, `xfer_addr`, `addr_to_tag`, `tx_queue`, `interrupts` | `tick`, `dram_read_complete` | bus, DRAM |
| DRAM | `libdramsim.so` (binary) | transaction queue | accept, update, complete a read | memory controller |
| Clock | `main.cpp` | `top.clk` | `TICK` | everything |
| System calls | `sparc-linux/syscall.c` and its headers | heap limit, next mapping, host descriptors, `errno` | `syscall_cse502`, some 300 numbered calls | reads and writes `ram` directly, the host kernel |
| Loader | `system.cpp` (`load_elf`), `syscall.c` (`init_stack`) | segments in `ram`, first break, first stack | load, lay out arguments | system calls |
| Cache exercise | `src/hw2` | an older D-cache and a request generator | | |

The hard part is what happens between the parts:

* A cache and the memory controller run in lock step but share no word index: a
  write-back is the address and then as many words as each side *counts*. Replies to
  both caches travel in one queue, in the order in which the DRAM completes them. The
  acknowledgement is a level computed half a cycle after the request, routed by an FSM
  that lags a cycle behind, and cleared a cycle later. The SRAM read ports are
  registered, so a cache compares what its row was a cycle ago.
* The pipeline stalls in five places. Each stage decides from wires that are a cycle
  old whether its neighbour has taken what it offered; dependences are looked up in
  stages that may be waiting; the annul flag of a branch is made in one cycle and used
  in a later one; decode turns the register window for instructions that are younger
  than those still to be written back.
* System calls cross from a big-endian 32-bit guest to a little-endian 64-bit host.
  Failures are told as small negative numbers, which offsets, times and levels can be
  as well; `errno` outlives the call it belongs to; sizes, limits, ids, descriptor sets
  and structures differ; heap, mappings and the program share one memory.

What makes each part correct:

* bus and caches: nothing that was stored is lost, every load and fetch returns what
  a single memory would, every reply has one taker, every request is answered;
* controller: its assertions hold; the DRAM queue is never overrun;
* pipeline: an instruction commits once, with the operands of the program order, and
  an annulled one not at all; every instruction commits in the end;
* register file: a window's locals belong to one procedure, ins and outs overlap;
* system calls: a failure is told, with its own number, and changes nothing; a success
  fills what it promises; no memory is handed out twice; what one side writes is what
  the other reads.

## 2. The modules

| Module | Models | Notes |
|---|---|---|
| `Arbiter` | `Arbiter.sv` | the register `owner` (`p_state`) and the wires computed from it |
| `ICache` | `ICacheDirectMap.sv` with `SRAM.sv` | one action per FSM transition |
| `DCache` | `DCacheDirectMap.sv` with `dcache_SRAM.sv` | the same, with write-back |
| `SystemBus` | `System::tick`, `dram_read_complete`, the DRAM behind them | `TickHigh` is `tick(1)`, `TickLow` is `tick(0)` |
| `MemorySystem` | the four above, wired as in `Core.sv` and clocked as in `main.cpp` | the properties of the memory side |
| `SerialMemory` | what the memory system promises | abstract specification |
| `Instructions` | the classes of instructions that the control tells apart | `Op`, what each reads and writes |
| `RegFile` | `RegFile.sv` | globals, overlapping windows, icc, Y, CWP |
| `Sequential` | what a program means, one instruction at a time | abstract specification |
| `Pipeline` | the five stages and the registers between them | one step is one clock cycle |
| `Progress` | how far an instruction of `Pipeline` has still to go | `Front`, `Distance` and the property `Advances` |
| `AddressSpace` | `load_elf`, `do_brk`, `target_mmap`, `target_munmap` | 32-bit page arithmetic |
| `Calls` | the cases of `do_syscall` by shape | a table from call to shape |
| `Syscalls` | `do_syscall`, one action per shape; the host as an actor | the properties of the calls |
| `Areas` | what a program may rely on when it asks for memory | abstract specification |
| `ByteLanes` | narrow loads and stores of the D-cache, the accessors of `bswap.h`, `cpu-all.h` | pure operators |
| `Conversions` | limits, ids, descriptor sets, vectors, the first stack | pure operators |
| `GuestStructs` | the structures of `syscall_defs.h` and the order in which they are filled | pure operators |
| `Marshalling` | one action per conversion, over `ByteLanes`, `Conversions`, `GuestStructs` | both sides of a conversion are its state |
| `MCMemorySystem`, `MCPipeline`, `MCSyscalls` | small instances for TLC | |
| `MCFarData` | `MCMemorySystem` with the addresses that the program meant | what they were last given (`stored`) |
| `MemorySystemProofs`, `RepliesProofs`, `SerialMemoryProofs` | proofs about `MemorySystem`, each on top of the one before | section 4 |
| `PipelineProofs`, `ProgramOrderProofs` | proofs about `Pipeline`: of every program; of those it supports | section 4 |
| `SyscallsProofs`, `MarshallingProofs` | proofs about `Syscalls` and `Marshalling` | section 4 |
| `Induction` | induction over the natural numbers and what it says of recursive functions | lemmas for the other proofs |

Definitions introduced by a comment "Faulty variant" are not part of the model: each is
a definition with one mistake, and putting it in the place of the original makes TLC
report the property that `PROJECT.json` pairs with it.

### The memory side

A cache state is a record `regs` of its `p_*` registers, a function `rows` from rows
to tag, dirty bit and data, and the registered read port `out`. The `always_comb` of
the cache becomes one action per branch, whose guard is the branch and whose primed
registers are the `n_*` values latched by the `always_ff`. A data word is one 64-bit
beat, an element of `Values`; `NoValue` is what the reset leaves in the arrays.
Addresses are lines; `SetOf` is `proc_line_addr[3:0]`, the tag is the line itself.

A clock cycle is three steps of `MemorySystem`, told apart by `phase`:

1. `RisingEdge` (`top.clk = 1; top.eval()`): arbiter, caches and memory stage latch at
   once, from the wires before the edge;
2. `TickHigh` (`sys.tick(1)`): the keyboard, one `dramsim->update()`, the pop of an
   acknowledged reply and the next one on the bus, then the request;
3. `FallingEdge` (`top.clk = 0; top.eval(); sys.tick(0)`): the fetch unit clocks
   `p_ic_req`, and the controller acknowledges.

The two requesters are as free as their FSMs allow. `FetchUnit` raises a request for
any line at a falling edge when it has none and lowers it at the falling edge after
`ic_ack`; `MemStage` holds a load or store until the edge after `dc_ack`, at which the
next one may already follow. The DRAM schedules at most one transaction per update,
in order, and completes at most one read that has left its queue, in any order.

Abstractions, all on purpose: loads and stores are of whole 64-bit words (narrower ones
are in `ByteLanes`); the MMIO commands of `tick` are left out, since no part of the core
issues one; so is the guard against requests under reset (the model starts after the
reset); the idle read port of a cache is left alone, because it is latched again before
it is used.

### The pipeline

`Pipeline` has one variable per stage or pipeline register, and one action, `Tick`: all
of them are clocked together, each from the wires as they were. What varies from cycle
to cycle is whether the I-cache answers (`iAck`), whether the D-cache does (`dAck`), and
the bit of Y that decode is given in place of a write-enable (`yBit`, `Mem.sv:194`).
The stages are operators in the order of the wires, memory and write-back first:
`MemStep`, `Retire`, `ExStep` (with `ExReady`, the latch, and `AnnulOut`), `DecodeStep`,
`FetchStep`, `NpcStep`, `IfIdStep`. An instruction in flight is its address and the
operands that decode read.

Instructions are classes (`Instructions!Op`): what matters is which registers, icc and
Y they name and where they branch, so the arithmetic is left out. Instead of a number,
a register holds the address of the instruction that wrote it; an operand read one
write too early or too late is then always a different value, which numbers need not be.

`Sequential` executes the same programs one instruction at a time, with delayed branches
and annulment, and `ImplementsSequential` says that write-back, in each step, either
does nothing or commits the next instruction of the program order with the operands
that its predecessors left. The mapping takes the register file and `next` as they
are, and for the window the one in program order (`acwp`), since decode has already
turned `cwp` for younger instructions.

### The system calls

`Calls` sorts the numbered calls by the shape of their case in `do_syscall`: what is
converted before the host is called, how the result becomes a `ret`, and when guest
memory is written. `Syscalls` has an action for each shape; the host answers any call
with a value or an error (`Outcomes`). `call` records the last call, what the program
was told, whether the host or the emulation really failed, and whether guest memory was
written. `brk`, `mmap` and `munmap` act on `AddressSpace`, in which all sums wrap at
`WordSize` as an `abi_ulong` does.

The conversions keep no state, so `Marshalling` keeps what one of them was given and
what came of it: a limit that is set and then read, an id that is told and then given
back, a store by one side and a load by the other. Bytes of a structure are told apart
by the name of their field and their significance; a field arrives if its bytes are
where the compiler of the program looks for them. A value has up to eight bytes
(`KernelBytes`, the width of the host's own member), of which a field keeps the low ones.

## 3. What TLC checks

| Run | Instance | Result |
|---|---|---|
| `memory` | 2 fetch lines, 2 data lines, 8 beats, 2 values, DRAM queue of 4, key presses | holds, 2.7 million states |
| `memory_live` | 2 beats and one value, under fairness | holds, 39 thousand states |
| `same_line` | one line, fetched and accessed | violated: finding 1 |
| `reset_line` | a data line with the tag that the reset leaves | violated: finding 2 |
| `far_data` | a data line above 1 MB | violated: finding 3 |
| `pipeline` | every supported program of 4 instructions from five families | holds, 494 thousand states |
| `pipeline_live` | every supported program of 4 from one family, under fairness | holds, 17 thousand states |
| `annul_wait` | two programs with an annulling branch behind an access | violated: finding 4 |
| `window_turn` | two programs with SAVE behind an access | violated: finding 5 |
| `stale_call` | a call while the D-cache holds a dirty row | violated: finding 6 |
| `syscalls` | a call of each shape, memory of 64 bytes; all conversions | holds, 47 thousand states |
| `heap_image` | a program whose bss needs a page of its own | violated: finding 7 |

### Memory side

* `NoAssertFails`: none of the assertions of `tick` fails;
* `BurstAligned`: while `rx_count` is not zero, the D-cache drives the bus, the line is
  the victim, and the word on the bus is the one for the place `rx_count` stands for;
* `RepliesAccounted`: the beats queued for a cache are exactly those it still waits for;
* `CleanRowsMatchRam`: a row that is not dirty equals its line in `ram`, with the part
  of a refill already done;
* `DirtyRowsReachRam` (action property): a dirty row gives up its line only when all
  of it is in `ram`;
* `DramQueueBounded`: at most three transactions wait in the DRAM, far from 32;
* `ImplementsSerialMemory`: refinement of `SerialMemory`. A word's value is the
  D-cache's if its row is dirty and `ram`'s otherwise; every acknowledged fetch and
  access returns it, and a store changes it in one step. It compares each load with
  the last store, the comparison that `src/hw2/README:54-57` leaves to its reader. The
  serial memory is that of the lines which the port presents, `dc_line_addr`; those are
  the program's own addresses below 1 MB only (finding 3);
* `FetchServed`, `AccessServed` (liveness): every request is answered.

Bounds. All instances map every line to one row of each cache, so that every change of
line evicts; two rows are independent except for the one request register a cache has.
Two lines per port and one row give hit, clean miss, dirty miss and return to an evicted
line. Eight beats are those of the code; the run with fairness has two, the fewest in
which the first, the last and the "one too early" beat differ. Two values tell an old
word from a new one; one word per line is used by the ports (`PortWords`), the last,
which is the one at risk from a read port that lags. The keyboard is polled in `memory`
only: a key press queues a beat with the tag `IRQ` (`system.cpp:104`) that no cache
takes, which breaks none of the safety properties, but stays at the head of `tx_queue`
for ever, so that with it `FetchServed` and `AccessServed` do not hold. It is off unless
`SHOWCONSOLE` is set. A queue of 4 is larger than the
bound of 3 that `DramQueueBounded` finds, so the limit does not hide anything.

Fairness. `WF(Next)`: `main` runs `TICK` in a loop. `SF(DramSchedules)` and
`SF(DramCompletes(l))`: `tick` calls `dramsim->update()` in every cycle, and DRAMSim2
serves each transaction it accepted. Strong fairness is needed because those steps are
enabled only in one phase of three. Nothing is assumed of the ports: they may ask for
ever or never.

### Pipeline

* `ShownWhenTaken`: fetch shows an instruction in one cycle only, and decode is idle in
  that cycle although fetch asked a cycle earlier;
* `NothingBehindWaiting`: nothing is in IDEXReg while execute waits, so that the one
  place is never overwritten;
* `NeverFrozen`: `annul_in` never meets a low `ex_ready`, which only `ex_ready` itself
  could raise again;
* `WindowInOrder`: the window of write-back is the one of program order;
* `ImplementsSequential`: refinement of `Sequential`;
* `Advances` (action property): while the program has an instruction to retire and
  write-back has none, every cycle lowers `Distance`, a number that is computed from what
  the stages hold, or leaves it while a cache that may answer does not. No stall,
  handshake, bubble, nop or annulled slot makes the pipeline run in a circle;
* `NeverStuck` (liveness): every instruction of the program order leaves the pipeline.

`Distance` follows the next instruction backwards from write-back: the memory stage (a
load or store waits there for its answer), EXMemReg, execute, and then the front end.
There it is `Handing`, the cycles that fetch and decode still take for the instruction
they work on, plus a round of fetch for each instruction that is fetched only to be
dropped (`Dropping`): the nops before the next one that counts (`Lag`), and a delay slot
that is to be annulled.

Bounds. Two registers of each kind and four windows, so that pairs, overlaps and
wrap-around happen. Programs of four instructions: a dependence reaches over at most
three stages, and a branch with its delay slot, the skipped and the target instruction
are four. There are some eight thousand such programs. The families take a
representative of each dependence (registers, pairs, stored data, icc, Y, the arguments
of a trap), of each branch with and without the annul bit, forwards and backwards, of the
window instructions around loads and stores, and a mixture of all.
Loops are unbounded in time. Every program runs with every timing of the two caches.

`Supported` names the programs that the core cannot run correctly, and leaves them out
of the runs that hold: a transfer in a delay slot or to its own delay slot, a nop or a
window instruction in a slot that may be annulled (the window is turned in decode and
not turned back, `InstructionDecode.sv:176-181`), an annulling branch next after an
access (finding 4), a window instruction as the first or second after an access
(finding 5), RDY next after a writer of Y, a trap next after LDD of which it reads only
the second register (`trap_dep` compares the first, `InstructionDecode.sv:451-467`, where
the look-ups for other instructions know both, `:358-442`). For each there are
programs that break it and run wrong. Outside `Supported`, the theorems on `ShownWhenTaken` and
`NothingBehindWaiting` still hold. For all that are `Supported`, of any length, section 4
proves the other safety properties and `Advances` as well.

Fairness. `WF(Tick)`, since `main` runs the clock, and weak fairness of a cycle in which
the I-cache answers and of one in which the D-cache does: an answer stays possible until
it is given, and `FetchServed` and `AccessServed` show for the memory side that it is.

### System calls

* `FailureTold`: a result is an error exactly when the call failed, and is the errno of
  that failure, not of an earlier one. Excepted are calls whose results are as wide as a
  word (`lseek`, `time`, `times`) and `nice`, whose level -1 is an error number: there a
  success can look like a failure, and the property says nothing of them;
* `FilledIffDone`: a failed call writes no guest memory, a structure is filled when its
  call succeeded and there is one to fill;
* `ImplementsAreas`: heap and mappings grow only at their ends and never overlap;
* `HeapOffImage`: the heap holds none of the program's own data;
* `LimitKept`, `IdsKept`, `SelectAnswers`, `VectorIsPrefix`, `ArgumentsIntact`: what one
  side says in a limit, an id, a set of descriptors, a vector or a command line is what
  the other side understands. Of the ids that `stat` told, `IdsKept` speaks of those up
  to 65535: `stat` puts them into 16 bits without `high2lowuid` (`syscall.c:2019-2020`),
  so 65536 is told as 0 and a `chown` to it names root;
* `StoresAgree`, `LoadsAgree`: the program's stores and loads, through the shifts of the
  cache and the swap of the memory controller, and the emulation's, through its
  accessors, put the bytes of a datum in the same places;
* `FieldsArrive`: the program finds each field that the emulation fills in its place,
  with the low bytes of the value that its type has room for (`__put_user` casts,
  `target-sparc.h:15-21`), so whole exactly if the value needs no more; and each field
  that the emulation reads was laid out there.

Bounds. Calls of one shape are alike, so the program of the run makes one of each.
Pages of 4 bytes, 16 of them, in a word four times the size of memory, as 2^32 is of
2^30. Longs have 4 bits on a guest and 6 on a host; vectors and command lines have up
to three members with lengths from -1 to beyond the limit; doublewords take three
contents in which all bytes differ, without, with and with alternating signs. Each
conversion is tried from the first state, since none depends on the state of the calls.
No request is so near the end of the word that rounding it up to a page wraps: the code
does not look, and the program gets memory at its very end.

The run may stop, after `exit`; deadlock is not checked there. No liveness is claimed: a
call is answered in the step that makes it.

### Findings

1. `same_line`. `tick` ignores a read of a line that is already outstanding
   (`system.cpp:169-170`) and acknowledges it all the same. If the fetch unit and the
   memory stage miss on the same line, the second cache waits for ever for a reply
   with its tag, while the bus is described as one in which each response carries the
   tag of its own request (`src/hw2/README:74-79`).
2. `reset_line`. `dcache_SRAM.sv:27` resets the tag, dirty and data arrays to 15, so
   sixteen lines hit after the reset and read as garbage, and are written back so.
   In the other runs no data line has that tag.
3. `far_data`. `Mem.sv:88` and `:116` put 20 bits of an address on the port of the
   D-cache, where the comment behind the expression still has all of them. Data a
   megabyte apart are then one word to loads and stores, though not to fetch, which keeps
   30 bits, nor to system calls. `main.cpp:11` provides 1 GB: the mappings of `mmap`,
   from 256 MB up, fall on the first megabyte with the program in it, and `argc` and
   `argv`, laid out at 1020 MB, are not what the program loads there. A read does not
   return the last write to the same address, which `src/hw2/README:54-57` expects. In
   the other runs all data lie below 1 MB (`MCWhole`).
4. `annul_wait`. A branch that waits in STATEB of execute passes its raw annul bit
   (`Execute.sv:179`) in a cycle in which `ex_ready` is 0. While `annul_in` is up
   `ex_ready` is not assigned, so it stays 0, decode passes nothing on, and only an
   instruction from decode could take `annul_in` down. The pipeline stops, for ever
   (`PipelineProofs!FrozenForEver`), against the description of the two states at
   `Execute.sv:13-15`.
5. `window_turn`. SAVE leaves decode and turns the window while an older load is still
   in the memory stage; the load is written into the callee's window. The dependence
   check compares register numbers only.
6. `stale_call`. A system call reads `ram` on the host, while the D-cache holds the only
   current copy of a row; `write` then sends what was there before.
7. `heap_image`. `load_elf` places the break behind the bytes of the file, not of the
   segment (`system.cpp:267-268`). The first `brk` clears and hands out what the program
   uses as bss.

## 4. What is proved

All theorems hold for every value of the constants that satisfies the named assumptions
of the modules; TLC evaluates the assumptions in each run.

`MemorySystemProofs`: for every set of lines, rows and values, every `SetOf`, every
number of beats greater than zero and every depth of the DRAM queue,
`TypeCorrect` (`TypeOK`), `BurstSafe` (`BurstAligned`) and `DirtyRowsSafe`
(`DirtyRowsReachRam`). None of the three is inductive. The invariant (`Invariance`) is
`IInv /\ HaltInv`:

* `FetchInv`, `AccessInv`: a cache outside STATEA serves a request that is still up,
  its answer is in STATEA, and in STATEB and STATEC the read port of the D-cache shows
  the row it talks about (so the words sent are the row's);
* `EvictInv`: what is on the D-cache's request wires in each state: nothing, the
  victim's address, its words in order, the read;
* `BurstInv`: after an edge the cache is one word ahead of `rx_count`, and `tick(1)`
  catches up; while `rx_count` is not zero, the acknowledgement is up at every edge,
  which is why no word is sent twice;
* `VictimInv`: the words before the place of `rx_count` are in `ram`, and in STATED all
  of a dirty row is;
* `HaltInv`: a failed assertion ends the run before the next `tick(1)`.

`BurstInv` and `VictimInv` speak of runs in which no assertion has failed: with a very
small DRAM queue the last word of a burst can be refused, and the next `tick(1)` then
takes it for an address and stops. The lemmas follow the three steps of a cycle:
`DCacheMoves` and `ICacheMoves` restate the FSMs as relations between registers,
`DcacheGrant` says what the arbiter guarantees, and `EdgeInv`, `HighInv`, `FallInv` show
that each step keeps the invariant.

`RepliesProofs`: the split transactions, on top of `MemorySystemProofs`, for every line
size, every number of lines and rows and every order in which the DRAM serves and
completes: `NothingRefused` (`NoAssertFails`), `QueueBounded` (`DramQueueBounded`) and
`RepliesCounted` (`RepliesAccounted`). Two hypotheses: `Separate`, no line is both
fetched and accessed, without which finding 1 happens; and `Roomy`, the DRAM queue has
more than three places (`TRANS_QUEUE_DEPTH` is 32). The invariant `RInv` follows a read
from its request to its last beat:

* `RequestInv`, `GrantInv`, `StreamInv`: a request wire carries the line of its port,
  the bus acknowledges whoever drives it and nobody else, and no word of a write-back is
  refused. The last is what keeps `rx_count` and the cache in step without the proviso
  that `BurstInv` needs;
* `FetchRead`, `AccessRead`: what a cache is still owed is in exactly one place: in
  `addr_to_tag` as an outstanding read, or in `tx_queue` as one run of beats without a
  gap, which are the last words of its line. `BeforeTick` and `AfterTick` say this for
  the two halves of a cycle, since a beat is taken from the bus a phase before it is
  popped from the queue. The run is located by its offset (`RunAt`), so that no beat is
  counted; `RunJoin`, `RunArrive`, `RunPopOwn`, `RunPopOther` say what each change of
  the queue does to it;
* `DramInv`: the queue holds at most one transaction of each of three kinds, and a
  write-back waits in it only until the read behind it has been served. This is an order
  that no cache enforces: a cache starts its next write-back without asking whether the
  DRAM has done the last one.

`SerialMemoryProofs`: the contents, on top of `RInv`: `CleanRowsSafe`
(`CleanRowsMatchRam`), and `OneMemory`: the caches, the arbiter and the controller
implement `SerialMemory`. The invariant `SInv` says that the row that is being refilled
has its new tag and is clean and agrees with `ram` as far as the refill has come, in both
caches (`AccessCopy`, `FetchCopy`), and what the ports know of the acknowledgement
(`PortInv`). `Served` connects it with `RepliesProofs`: the beat that a cache takes is
the word of its line that is next, which is the reason for keeping the contents of a run
in `FetchRead` and `AccessRead`. For the refinement, every edge at which a port is
answered is a step of `SerialMemory` (`EdgeFetchPort`, `EdgeAccessPort`), and every other
step of the machine leaves its memory alone; a write-back and a refill change where a word
is kept and not which one it is. One hypothesis more is needed, `ResetOutside`: no row
carries the tag of a line in use when the reset ends, which finding 2 shows not to be
true of the sixteen lines with the tag 15. All three hypotheses are true of the instance
that `memory` checks.

`PipelineProofs`: for every program, supported or not, every register file and every
timing of the caches,

* `TypeCorrect` (`TypeOK`). It is inductive; it says of each slot that it holds an
  instruction of the program with the operands that class of instruction reads.
  `SettledPoint` unfolds the recursion by which `Sequential` passes nops;
* `NothingDropped` (`ShownWhenTaken`). Decode being idle when fetch looked does not keep
  it idle; what does is that nothing can have reached it since. `HandOverAlways` is the
  inductive form: IFIDReg is empty while decode is busy (`BusyInv`), what is in IFIDReg
  was shown a cycle ago by a fetch that has nothing more to show or has only begun the
  next request (`GivenInv`), and what fetch shows finds decode idle and IFIDReg empty
  (`ShowInv`). That a cache answers in the second cycle of a request at the earliest is
  needed here;
* `NothingReplaced` (`NothingBehindWaiting`), with `BehindInv` and, for the latch of
  `ex_ready`, `AnnulInv`;
* `FrozenForEver`: the state of finding 4 is never left.

`ProgramOrderProofs`: the pipeline implements the program order. `InOrder`
(`ImplementsSequential`), `WindowsInOrder` (`WindowInOrder`) and `AnnulmentEnds`
(`NeverFrozen`) hold for programs of every length with every target, every register file
of two windows or more and every timing of the caches. Their one hypothesis is that the
programs are `Supported`; section 3 says why it cannot be dropped. `RetireStep` does the
refinement: a cycle in which write-back has an instruction is a step of `Sequential`,
every other one a stutter. What it needs is the invariant `PInv` (`InProgramOrder`). To
say where a stage is in the program order, the definitions of `Sequential` are taken
with the program as a parameter (`SettledIn`, `FollowIn`), and a place is a `Point`, pc
and npc, that is `Sound`: its npc is the next address or the target of the transfer
before it. From the place of write-back, `next`, the places of the instructions that
execute and decode work on follow by `FollowIn` (`AtExecute`, `AtDecode`).

* `BackInv`: what can be in execute, memory and write-back together. Not more than one
  instruction (`Older`) is older than the one in execute, and an instruction waits in
  execute only behind a load or store. That `annul_in` is up only while the memory stage
  is ready and `ex_ready` was 1 is part of it, since an annulling branch never waits
  there (`NotBehindAccess`): here the proof uses the exclusion that finding 4 asks for;
* `OrderInv`: each of these is at its place, and what is being annulled neither
  transfers control nor turns the window;
* `LinkInv`: the place that the front end has reached (`Front`: fetch, nPC and decode),
  nops passed, is `AtDecode`; or, if a delay slot is to be annulled (`Pending`), the
  place behind it is. `ItemInv` says that what fetch, IFIDReg and decode hold belongs to
  the address there, and `AimInv` that nPC has not moved past a branch that execute is
  about to take. `FrontWaits` and `FrontPasses` are the two kinds of cycle: the front
  stays or passes a nop, or it hands an instruction to execute;
* `WindowInv`: decode has turned the window exactly for the instructions that have left
  it. `WindowInOrder` is more, since it speaks of write-back while younger ones may have
  left decode; it needs that a window instruction is never so near
  (`SpaceInv`: stages are filled without a gap only where an access has held them up);
* `FreshInv`: operands that were read in decode are still those of the program order,
  up to what older instructions in the pipeline are yet to write, and they write nothing
  that the instruction reads. `NotStalledFree` derives it from decode's look-up of
  dependences, stage by stage; decode in STATEB does not look again, so the invariant
  keeps what it found. `CellsApart` says that two registers of one window are never the
  same cell, which takes two windows: with one, the ins would be the outs.

The same invariant shows that the pipeline makes progress: `EveryCycleAdvances`
(`Advances`), and `NeverFar`, which bounds `Distance` by a number that depends only on
how many nops a program has in a row. `BackAdvances` is the case in which something is
behind decode. Otherwise decode is first in line (`FrontAdvances`), and it neither stalls
nor is refused: nothing is there to wait for (`NothingToAwait`), provided that the
`regWriteDouble` which stands in MemWBReg through bubbles has gone down with the access
it belongs to (`PairInv`). So decode hands on what it has, or has nothing; then fetch
goes through its states (`HandingStep`), and when it drops a nop, `LinkInv` says that
this nop is one that lies on the way (`LagPasses`). That the address for which fetch
waits is in the program, so that the I-cache is bound to answer, also comes from
`LinkInv`. What is left of `NeverStuck` is the step from here to fairness: an answer that
may be given in every cycle is given.

That a `Settled` place is past the nops (`SettledAtNoNop`) and that what follows an
instruction is in `Following` (`FollowReaches`) are inductions over walks through a
program; they use `Spare`, the bound on nops in a row.

`SyscallsProofs`: for every size of page, word and memory, every set of calls and of
requests that do not wrap (`RequestAssumption`), every program that fits below the limit
of the break (`ProgramAssumption`) and every answer of the host, `TypeCorrect` (`TypeOK`),
`FailureReported` (`FailureTold`), `FilledWhenDone` (`FilledIffDone`) and `AreasKept`
(`ImplementsAreas`). The first three are proved together, as the invariant `Told`: that
an error has the number of its failure needs that `errno` is a listed number, which is a
type. `AnswerTold` is the lemma that all shapes share: an answer of the host whose values
are no error numbers, passed through `get_errno`, is told truly. `AreasStep` takes
`TypeOK` and maps each call to a step of `Areas` or to a stutter; `BreakCall` and
`MapCall` rest on `PageAlignBounds`. `HeapBehindImage` (`HeapOffImage`) has one hypothesis, that the bss
of each program ends on the page on which its file contents end (`BssOnLastPage`), which
is what finding 7 asks for and is true of the instance of `syscalls`. Whatever the bss,
`FileUntouched` says that no byte of the heap is one that the file placed: what can be
lost is confined to the bss.

`MarshallingProofs`: `StoresRight` (`StoresAgree`) and `LoadsRight` (`LoadsAgree`) for
everything that a register and a doubleword of memory may hold. The lemmas say byte by
byte what a store does (`CoreStoreIs`, `CallStoreIs`) and what a load returns
(`CoreLoadIs`, `GetUserIs`, `SwapIs`), over the fifteen sizes and places of a datum.

The same module proves the other conversions, for longs of every width (`HostBits` greater
than `AbiBits`) and arguments of every size: `LimitsRight` (`LimitKept`), `IdsRight`
(`IdsKept`), `SelectRight` (`SelectAnswers`), `VectorRight` (`VectorIsPrefix`) and
`ArgumentsRight` (`ArgumentsIntact`). The first two are about two calls, so their
invariants (`LimitInv`, `IdInv`) say what the first call left. Powers of two, running
totals of a vector and the places of strings are recursive functions. `Induction` derives
induction from the well-founded order of the natural numbers, in a form whose parameter is a
set, and from it that a recursion defines a function (`Recursion`, `RecursionUpTo`).
`PowerOfTwo`, `SumUnfolds`, `VectorUnfolds`, `HostAtUnfolds` and `GuestPtrUnfolds` then
unfold the definitions of the model, and the arguments are inductions over them:

* a vector: what the host is given sums up to what the program asked for or to
  `MaxVector`, whichever is less (`TotalsAreSums`), and a total that has reached
  `MaxVector` stays there, so nothing follows a buffer that was cut
  (`NothingBehindACut`);
* a command line: slots are at least as long as their strings and ascend
  (`SlotsApart`), so the byte too many that is copied behind a string can only fall on
  the first byte of the next one, when the string fills its slot, and the host has the
  same byte there (`ByteCopied`).

The assumptions about sizes (`WidthAssumption`, `SizeAssumption`) say no more than that
widths, limits and lengths are numbers and that what one call may move fits in an
`abi_long`, as `0x7fffffff & TARGET_PAGE_MASK` is.

`IdsRight` covers the three tellers: `getuid`, whose ids go through `high2lowuid`, `stat`,
which keeps their low half, and `stat64`, which has room for all of them (`IdTold`). For
ids above 65535 that `stat` told it says nothing, since there the code is wrong.

`FieldsRight` (`FieldsArrive`) is the last of them: every field arrives in its place, and
what of a value its type has room for (`ReceivedWhole` says when that is all). The tables of `GuestStructs` are constants; what the proof uses of them is
`StructsAssumption`, which TLC evaluates: every name belongs to one field, and a call
that fills a structure assigns every field of it. That both compilers give each declared type
the same width, and hence every field the same place and the structure the same size, is
derived from `abi_types` (the mutant `abi_types_long` has the host's `long` there). The
assignments come in an order of their own, with fields in between that were assigned
before; that none of them touches another field follows from the places being apart, by
induction over the fields, and then over the assignments.

Model-checked only:

* liveness (`FetchServed`, `AccessServed`, `NeverStuck`): it rests on fairness, which is
  out of the prover's reach. Of `NeverStuck` everything but the fairness is proved
  (`EveryCycleAdvances`, `NeverFar`).

All invariants and action properties of the runs that hold are stated by theorems.

## 5. What is not modelled

* The arithmetic of the ALU and its condition codes, the opcodes (a class stands for all
  that the control treats alike), and ET, which nothing reads. Some instructions are in no
  class: LDSTUB, which the memory stage never sends to the cache, SWAP, which loads and
  stores at once, MULScc, which reads and writes both icc and Y, the divisions, and FLUSH
  and STBAR, which decode passes like a nop in one state (`InstructionDecode.sv:105`) and
  execute does not take for one (`Execute.sv:125`).
* Shifts by 64 and more in the alignment of loads: the models take the amount modulo 64,
  as the compiled simulator does. No source states it.
* Addresses of loads and stores above 1 MB, except in `far_data`.
* How often the simulator evaluates the block that makes a system call: a trap is one
  instruction here.
* The MMIO commands of `tick`, the console, reading the ELF file, the inside of DRAMSim2.
* Of the system calls: the records of `getdents`, open flags (passed to the host as they
  are), the host kernel behind a call, the structures and constants of calls that are
  not implemented, and the remains of QEMU that no implemented call uses (`cpu.h`,
  `socket.h`, `termbits.h`, `cpu-defs.h`). The host is taken to be x86-64 Linux. Of the
  EFAULT paths only that of `linkat` is there, which looks at the program's pointers
  itself (`syscall.c:974`); `lock_user` never fails.
* Limits of the conversions: an id that is no positive `int`; `select` with more than the
  1024 descriptors of the host's `fd_set`, which `do_select` does not refuse; a request
  near the end of the word. That the errno table is the identity is modelled as it is; that
  the numbers of `errno_defs.h` from 35 up are not those of sparc-linux, which
  `syscall.c:156-159` and `proj/README:93-96` let one expect, is not the subject of a
  property. Which fields `__put_user` can cut, where the host's are wider: the device,
  inode, links, times and sizes of `stat`, and its mode and ids, which have 16 bits there;
  in `stat64` all but the mode, the ids, the inode and the size; most fields of `statfs`,
  `sysinfo`, `rusage` and `times`, and both of every `timeval`. `FieldsArrive` says that these are cut, not that
  programs can do without what is lost.
* `src/hw2`, an earlier version of the D-cache; its README is the contract that
  `SerialMemory` states. `MultiCycleDiv.sv`, `PipelinedMult.sv` and `NextInstruction.sv`,
  which nothing instantiates. `sparc-prog`: programs that run on the core, most of it
  one vendored compression library.

## 6. Plan

1. `MemorySystem` and `Pipeline` composed, in place of the free answers of the caches
   and the free requests of the ports.
2. The icc of the ALU and the branch conditions against their SPARC definitions, and the
   constants that calls pass to the host unconverted.
