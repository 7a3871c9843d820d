# TLA+ models of the emc2 IRQMP interrupt controller and LEON3 memory port

This directory holds TLA+ models of the SystemC platform in `src/`. The models
are checked with TLC. The centre of the project is the multiprocessor interrupt
controller, `src/models/irqmp/irqmp.cpp`. It is the only part of the sources
with concurrency, arbitration, and state that several actors share.

## 1. Inventory

### Components

| Component | Source | State | Operations |
|---|---|---|---|
| IRQMP controller | `src/models/irqmp/irqmp.cpp` | These registers: level, pending, global force, clear, MP status, broadcast, and per CPU the mask, force and extended-id registers. The shadow `forcereg[cpu]`. The event `e_signal`. The request channel `irq_req` to each CPU (the last `(line, asserted)` pair written on it). The counters `m_irq_counter[32]` and `m_cpu_counter[ncpu]`. | `incomming_irq`, `clear_write`, `force_write`, `acknowledged_irq`, `pending_write` (also run on global-force and mask writes), `mpstat_write`, `mpstat_read`, `dorst`, the thread `launch_irq`. Level, broadcast and extended-id writes have no callback. |
| LEON3 processor (interrupt side) | not in `src/` | interrupt level being served | takes the asserted request, calls `acknowledged_irq(irq, cpu)` |
| LEON3 TLM memory port | `src/models/extern/LEON3/simulatorSources/funcLT/externalPorts.cpp` | `dmi_ptr_valid`, `dmi_data` (DMI region and pointer), quantum keeper time | `read_{dword,half,byte}`, `write_{dword,half,byte}`, their `_dbg` variants, `setDebugger` |
| AHB test memory | `src/models/ahbmem/ahbmem.cpp` | byte map `mem`, byte counters | `exec_func` (read/write/address error), `dorst`, `writeByteDBG` |
| Logging | `src/common/verbose.cpp` | `teebuf` with two stream buffers, `outfile` | `overflow`, `sync`, `set_tee`, `logFile`, `logApplication` |
| Profiler records | `src/profiler/profInfo.cpp` | static call counters | CSV formatting |
| Python embedding, exceptions | `src/pysc/pysc.h`, `src/utils/customExceptions.hpp` | none in `src/` | declarations only |

### How the IRQMP parts interact

* **Handlers and the arbiter.** A hardware line (`irq_in`), a processor
  acknowledgment (`irq_ack`) or a register write starts a handler.
  Handlers run to completion in the SystemC kernel, so two handlers
  never interleave within one step. A handler changes the registers, may
  write the request channels directly (only to deassert them), and calls
  `e_signal.notify(delay)`. The thread `launch_irq` waits on `e_signal`.
  When it wakes it evaluates every CPU, from the highest number down to
  0, and writes each CPU's channel.
* **Coalescing.** A notify that arrives while another is pending merges
  with it: the earlier of the two times wins. Any number of handlers can
  therefore run before the arbiter does.
* **The arbiter writes shared state.** When extended interrupts are on,
  `launch_irq` writes pending bit `g_eirq` separately for each CPU. A
  lower-numbered CPU then reads the value that was computed for a
  higher-numbered CPU.
* **The force state is stored twice.** Each CPU's force state lives in
  the register and in the shadow `forcereg`. `force_write` rebuilds the
  register from the shadow.

### What is hard here

* **Interleaving.** Any order of hardware lines, software writes and
  acknowledgments can fall between a notify and the arbiter run.
* **Writes that notify nobody.** Level writes and `dorst` change state
  but wake nothing, so the requests can stay stale for as long as no
  other event happens.
* **Ordering inside one arbiter run.** The per-CPU loop writes a register
  that the next iteration reads.
* **Broadcast deassertions.** Every deassertion is written to all CPU
  channels at once.
* **Numeric edges.** These are the scan bounds (bit 15 down to 1, with 0
  meaning "none") and the effect of `g_eirq = 0` on the extended paths.

### Properties that make each component correct

* **IRQMP**
  * Once the arbiter has caught up, each CPU requests its best eligible
    line. Level 1 beats level 0, and within a level the higher number
    wins. Pending and global-force bits count only if unmasked; the CPU's
    own force bits count always.
  * A request is withdrawn only when it is served or no longer the best.
  * A CPU gets the extended interrupt only if an extended line is pending
    and unmasked for it.
  * The force register and `forcereg` agree.
  * A step changes the force bits of at most one CPU, unless it is a
    broadcast line forcing every CPU or a reset clearing them all; this
    covers acknowledgment as well as setting.
  * An eligible line is eventually requested; the best line is
    eventually requested.
  * A request is eventually withdrawn or justified by an eligible line,
    also across a reset.
  * A force write releases only the writing CPU's extended interrupt.
  * A read of the MP status register returns `g_ncpu`, `g_eirq` and each
    CPU's current status, for every `g_ncpu` the specification allows.
* **TLM memory port:** the port behaves as a big-endian byte memory
  (`CpuMemory`), and a DMI access touches only bytes inside the DMI
  region.
* **AHB memory:** an access outside the slave's address window never
  changes memory.
* **Logging:** the open log file holds what the console got since it was
  opened, and a failure of either sink is reported.

## 2. Plan

1. **`Irqmp` (done).** Models the controller's registers,
   every handler, the `launch_irq` thread and the CPUs as acknowledging
   environment. There are four MC modules:
   * `MC_Irqmp` (2 CPUs, `g_eirq = 0`);
   * `MC_IrqmpOne` (1 CPU);
   * `MC_IrqmpExt` (2 CPUs, extended line 17 delivered as line 2);
   * `MC_IrqmpSixteen` (16 CPUs, no interrupt lines, only MP_STAT
     accessed).
2. **Reset and liveness of `Irqmp` (done).** A request that outlives
   `dorst`, the force write that releases every CPU's extended interrupt,
   and eventual delivery of every eligible line.
3. **MP status register and reset lines (done).** `mpstat_write`,
   `mpstat_read` as the pre-read hook of a bus read, `cpu_stat` as an
   input driven by the processor and `cpu_rst` as an output.
4. **`IrqmpAbstract` (not pursued).** An abstract controller whose
   request is a function of the eligible lines would need the same
   registers as `Irqmp` (level, masks, pending and force state decide
   eligibility and rank), so its refinement mapping would be the identity
   on state. What such a refinement would show, that each request is the
   best eligible line once the arbiter has run, is checked directly
   against the reference arbitration (`Presented`, `Best`) instead.
5. **`TlmMemory` (done).** Models `externalPorts.cpp`: the
   DMI grant and cache, the bounds check, the `b_transport` fallback and
   the debug accesses for each width, with the byte-order conversions.
6. **`AhbMem` (done, as the target of `TlmMemory`).**
   Address decoding with `haddr`/`hmask`, reads, writes, the address
   error, reset and the loader's byte write.
7. **`CpuMemory` and the refinement (done).** The abstract big-endian
   memory that `TlmMemory` implements.
8. **`TeeBuf` (done).** `overflow`, `set_tee`, `logFile` and
   `logApplication`.

## 3. Modules

### `Irqmp.tla`: the controller

A register is the set of its bit positions that are 1, so `&`, `|` and
`& ~` become `\cap`, `\cup` and `\`. The header `irqmp.h` is not among the
sources. The field masks (`IR_PENDING_IP` = bits 15..1, `IR_PENDING_EIP` =
bits 31..16, the force, level, broadcast, clear and mask write masks) are
therefore taken from the specification's register layout. `WriteReg` models
a register-file write under a write mask.

| Variable | Code |
|---|---|
| `level`, `pending`, `force`, `broadcast` | `r[IR_LEVEL]`, `r[IR_PENDING]`, `r[IR_FORCE]`, `r[BROADCAST]` |
| `mask[c]`, `procforce[c]`, `extid[c]` | `r[PROC_IR_MASK(c)]`, `r[PROC_IR_FORCE(c)]`, `r[PROC_EXTIR_ID(c)]` |
| `forcereg[c]` | `forcereg[c]` |
| `irq_req[c]` | last pair written on channel `c` of `irq_req` |
| `scheduled` | `e_signal` has a pending notification |
| `stale` | history variable: a level write or reset changed the state since the last arbiter run |
| `mpstat` | `r[MP_STAT]` |
| `cpu_stat[c]` | `cpu_stat.read(c)`, the input driven by CPU `c` (initially `false`, the value of an undriven signal) |
| `cpu_rst` | the CPUs whose channel of `cpu_rst` the last `dorst` or `mpstat_write` wrote `true` |
| `lastread` | history variable: the value the last bus read of MP_STAT returned and `cpu_stat` at that read |

The clear register is always 0 between handlers (`clear_write` zeroes it), so
it is not a variable.

| Action | Code |
|---|---|
| `LaunchIrq` (using `LaunchLoop`, `ArbitrateCpu`, `Scan`) | one wake-up of `launch_irq` |
| `IncommingIrq(irq)` (using `IrqLatched`) | `incomming_irq` with value `true` (the `false` case returns at once) |
| `ClearWrite(v)` | a write of `v` to the clear register, then `clear_write` |
| `ForceWrite(cpu, v)` (using `ForceUpdate`, `ForceCommit`) | a write to CPU `cpu`'s force register, then `force_write` (which loops over every CPU) |
| `AcknowledgedIrq(irq, cpu)` (using `AckUpdate`), through `CpuAck(cpu)` | `acknowledged_irq` |
| `PendingWrite`, `GlobalForceWrite`, `MaskWrite` | writes followed by `pending_write` |
| `LevelWrite`, `BroadcastWrite`, `ExtIdWrite` | writes with no callback |
| `Reset` | `dorst`, including MP_STAT = `0xFFFE | (g_ncpu << 28) | (g_eirq << 16)` and `cpu_rst.write(1, true)` |
| `MpStatWrite(v)` | a write of `v` to MP_STAT, then `mpstat_write` |
| `MpStatRead` | a bus read of MP_STAT: the pre-read hook `mpstat_read`, then the read |
| `CpuStatChange(c)` | the processor of CPU `c` changes its `cpu_stat` output (environment) |

`ClearWrite`, `ForceWrite` and `AcknowledgedIrq` write the deassertion to
every channel, as the code's `irq_req.write(~0, ...)` does. Within one handler
the last value written is the one that remains: the lowest cleared line,
because the loops count down.

**Fairness.** `WF_vars(LaunchIrq /\ UNCHANGED mpvars)`, the arbiter step as
`Next` takes it. SystemC delivers every timed
notification, and the arbiter's loop never blocks, so a pending notification
always leads to an arbiter run. Nothing is assumed of the hardware lines,
the software or the CPUs, which may stop at any time.

**Reference arbitration.** `Sources`, `Eligible`, `Outranks` and `Best` are
written from the priority rule of spec section 4.4, not from the two scan
loops. The properties compare the code's result with them.

**Constants.** `WriteValues` are the values written to the level, pending,
clear and broadcast registers. `GlobalForceValues` are those written to the
global force register. They are kept apart because spec section 3 calls that
register reserved when `g_ncpu > 0`, and the run that checks eventual
delivery leaves it alone (it writes only 0). `MpStatValues` are the values
written to MP_STAT, and `StatCpus` the CPUs whose status input changes.
Software reads MP_STAT only when `MpStatValues` is not empty, so an instance
with both empty leaves the register out. `Shifted(n, s)` is `n << s` in a
32-bit register: bits shifted past bit 31 are lost. `MP_STAT_WMASK` (bits
15..0, the status bits) is taken from the specification, which calls the
N and E fields read-only.

### `AhbMem.tla`: the AHB test memory

`mem` is the `std::map` of `ahbmem.cpp` as a total function: a missing key
reads 0, because `operator[]` inserts it. `Load` reads 0 also for an
address beyond the modelled ones, for the same reason. `SlaveSelected` is the decode test
`!((mhaddr ^ (addr >> 20)) & mhmask)`, with the 1 MB decode unit scaled down
to `PAGE` bytes. `ExecFunc` is `exec_func`: an address error, or the write
loop, or the read loop. A transaction that runs past the region is only
warned about, so the model executes it. `Dorst` is `mem.clear()`, and
`WriteByteDBG` is the loader's unchecked byte write.

### `TlmMemory.tla`: the LEON3 TLM memory port

A CPU value is a sequence of bytes, least significant byte first.
`HostValue` is `memcpy` between a host integer and memory bytes, and it
depends on the host byte order. `SwapEndianess` and `SwapDword` are the
`#ifdef LITTLE_ENDIAN_BO` blocks. `Convert` picks the conversion for each
width.

| Variable | Code |
|---|---|
| `mem` | the target's storage (`AhbMem`) |
| `dmi_ptr_valid`, `dmi_data` | the members of the same names (the region of `dmi_data`) |
| `halted` | `SC_REPORT_ERROR` was raised. It throws out of a `throw()` function, which terminates the simulator. |
| `last` | history: the access that the last step completed |

| Action | Code |
|---|---|
| `ReadDword`, `ReadHalf`, `ReadByte` (through `Read`) | `read_dword`, `read_half`, `read_byte`. The DMI path is the bounds test `DmiOutOfBounds` and then a copy at `DmiIndex`. The bus path is `ExecFunc`, the response check, and then `DmiGrant`. |
| `WriteDword`, `WriteHalf`, `WriteByte` (through `Write`) | `write_dword`, `write_half`, `write_byte` |
| `Read*Dbg`, `Write*Dbg` (through `DbgRead`, `DbgWrite`) | the eight `_dbg` accesses over `transport_dbg` |
| `MemReset`, `MemWriteByteDBG` | `AHBMem::dorst` and `AHBMem::writeByteDBG` |

**Refinement.** `AbsMem == INSTANCE CpuMemory WITH cells <- mem, ...` maps
the target's bytes to the abstract memory cells, `last` (without the path,
but telling debug accesses apart) to the completed access, and `halted` to
`stopped`. The addresses the target decodes are `{a : SlaveSelected(a)}`.
`ImplementsCpuMemory == AbsMem!Spec` is checked as a property. It says that
every step of the port and its target is a step of a big-endian memory on
the target's own bytes. So it catches a wrong conversion even when reads
and writes are wrong in the same way, because the bytes in the target are
compared too.

**Assumptions.**
* `AHBMem` never grants DMI. `DmiRegions` stands for a DMI-capable target
  in front of the same storage, so a DMI pointer reaches `mem[a]` for
  address `a`.
* `transport_dbg` lives in the AHB slave base class, which is not in
  `src/`. It is assumed to decode like `exec_func` and to transfer nothing
  for an address it does not decode.
* The ISS issues only naturally aligned accesses.
* The quantum keeper and the debugger notification are left out: they
  annotate time and inform a tool, and change nothing a read returns.

### `CpuMemory.tla`: what the memory port promises

This is the abstract specification of the processor's memory. `cells` is one
byte per address. `done` is the last completed access. `stopped` means an
error report ended the simulation. `Read(a, w, debug)` returns the value
whose most significant byte is at `a`. `Write(a, v, debug)` stores a value
the same way round. A debug access to an address the target does not decode
reads zero or is dropped. An ordinary access to such an address can only
`Fail`. `Clear` and `Load` are the target's reset and the loader's byte
write. No code is mapped to this module: it states the contract that
`TlmMemory` is checked against.

### `TeeBuf.tla`: the log output

| Variable | Code |
|---|---|
| `console` | characters accepted by `std::cout`'s buffer (`sb1`) |
| `files` | the contents of every file `logFile` may open |
| `is_open`, `opened` | `outfile.is_open()` and the file it has open |
| `sb2` | `logbuf.sb2`: `NULL` or `outfile`'s buffer |
| `last` | history: the last `overflow` call, its result, and whether every buffer accepted the character |
| `openlen` | history: the length of the console output when `outfile` was last opened |

| Action | Code |
|---|---|
| `OverflowEof` | `overflow(eof)`: returns `not_eof` |
| `Overflow(c)` | `overflow(c)`: `sb1->sputc`, then `sb2->sputc` if a tee is set; the result tests `r1` twice |
| `LogFile(name)` (using `Open`, `SetTee`) | `logFile`: close, then for a non-null name `open` and `set_tee` (with its `sync`) |
| `LogApplication(name)` | `logApplication`: `logFile(name ".log")` |

The teebuf has no put area, so every character goes through `overflow`. File
buffering is modelled as writing through: a closed `filebuf` refuses a
character, and an open one stores it. `open` truncates, because the default
mode is `ios::out`. A name in `Unopenable` fails to open. The console may
refuse a character when `ConsoleMayFail` is set.

## 4. Runs

| Run | Model | Checks | Result |
|---|---|---|---|
| `irqmp_settled` | `MC_Irqmp.cfg`: 2 CPUs, `g_eirq = 0`, lines {1, 15}, written values `{}`, `{1}`, `{15}`, masks `{1}`, `{15}`, force writes "force 15" and "revoke 1" | `TypeOK`, `RequestsCurrentWhenSettled`, `ForceShadowInSync`, `ForceStateStaysPerCpu` | pass, 629,226 states |
| `irqmp_eligible_served` | `MC_IrqmpOne_eligible.cfg`: 1 CPU, global force register written only with 0, MP_STAT written with bit 0 and read, CPU 0's status changing | `EligibleEventuallyRequested` | pass, 44,864 states |
| `irqmp_level_write_liveness` | `MC_IrqmpOne_live.cfg`: 1 CPU, global force register written only with 0 | `BestEventuallyRequested` | violation |
| `irqmp_request_outlives_reset` | `MC_IrqmpOne_stale.cfg`: 1 CPU, global force register written only with 0 | `RequestEventuallyJustified` | violation |
| `irqmp_mpstat_sixteen_cpus` | `MC_IrqmpSixteen_mpstat.cfg`: 16 CPUs, no lines, MP_STAT written with 0 and read | `MpStatReadIsLive` | violation |
| `irqmp_spurious_withdrawal` | `MC_Irqmp_withdraw.cfg`: as `irqmp_settled`, plus a clear of bit 16 | `RequestWithdrawnOnlyWhenResolved` | violation |
| `irqmp_eirq_mask_leak` | `MC_IrqmpExt_mask.cfg`: 2 CPUs, `g_eirq = 2`, lines {1, 17}, mask write {1, 2} | `ExtRequestOnlyIfUnmasked` | violation |
| `irqmp_force_releases_other_ext` | `MC_IrqmpExt_force.cfg` | `ForceWriteKeepsOtherExt` | violation |
| `tlm_memory_coherent` | `MC_TlmMemory.cfg`: 8 bytes, decode units of 2 with units 0 and 1 selected, DMI regions [2, 3] and [0, 3], big-endian host | `TypeOK`, `ImplementsCpuMemory` | pass, 3,684 states |
| `tlm_dmi_bounds` | `MC_TlmMemory_dmi.cfg`: only region [2, 3] granted | `DmiAccessInBounds` | violation |
| `log_tee_consistent` | `MC_TeeBuf.cfg`: characters "a", "b", files `sim.log`, `/ro/sim.log` (cannot be opened), application `leon3`, up to 4 characters | `TypeOK`, `LogFileIsConsoleTail` | pass, 5,728 states |
| `log_file_failure_unreported` | `MC_TeeBuf_loss.cfg`: the console may refuse characters | `OverflowReportsLoss` | violation |

### `irqmp_settled` (pass)

`RequestsCurrentWhenSettled` says: when no notification is pending and no
un-notified write has happened since the last arbiter run, every CPU's
channel carries that CPU's `Best` line. The property holds only if
three things are all true:

* every handler that changes an input notifies;
* the deassertions that handlers write to all channels are always
  repaired by the next arbiter run;
* the two-pass scan computes the priority rule.

`ForceShadowInSync` checks that the four handlers that touch the force
state keep the register and the shadow equal.
`ForceStateStaysPerCpu` is an action property. Every step must do one of
three things:
  * change the force register of at most one CPU;
  * be a broadcast line that adds the bit on all CPUs;
  * be the reset that clears every CPU.
It covers setting: `force_write` loops over every CPU, so a write to one
CPU's register must not leak into the others. It covers clearing too: the
spec says an acknowledgment clears the force bit of the acknowledging CPU
only (`acknowledged_irq`). A force write broadcast to all CPUs violates it,
and so does an acknowledgment clearing the bit everywhere.

**Bounds.** Two lines are the fewest that let level order and number order
disagree. Lines 1 and 15 are the two ends of the scan from bit 15 down to
1, so an off-by-one at either end is seen. A one-off mutant whose scans
start at 14 violates `RequestsCurrentWhenSettled`, and so does the listed
mutant that stops at 1. Two CPUs are the fewest that let one CPU's acknowledgment or force
write reach another CPU. The written values cover: masking either line, both
levels, clearing either line, broadcasting either line, and forcing and
revoking a line.

### `irqmp_level_write_liveness` (violation)

The global force register is only written with 0 here, so a reset cannot
leave a forced line behind without notifying. What fails is the level
write alone. Every trace TLC reports has the same shape:

1. Line 1 arrives and is pending, and a force write on CPU 0 forces
   line 2. Both lines are unmasked.
2. The arbiter runs and requests the better of the two.
3. A level write changes which line is better. For example, it raises
   line 1 to level 1 while line 2 is requested at level 0, or it lowers
   line 1 back to level 0 while line 1 is requested.
4. Nothing else happens (stuttering). The level write notified nobody, so
   the CPU keeps requesting the line that is no longer the best, for ever.

### `irqmp_spurious_withdrawal` (violation)

Both CPUs request the pending line 1. A clear of line 15 writes
`(15, false)` to both channels. The clear values in this run also include
bit 16. With `g_eirq = 0`, that clear takes the extended branch and writes
`(0, false)` to every channel, which deasserts every request (hazard at
`irqmp.cpp:406`). A one-off run with clears of 1 and 16 only shows that
violation on its own. The run's own shortest trace uses line 15.

### `irqmp_eirq_mask_leak` (violation)

Extended line 17 is pending. CPU 0 masks line 17 but not line 2. The
arbiter evaluates CPU 1 first and sets pending bit 2. CPU 0 then reads that
bit and is given request 2.

### `tlm_memory_coherent` (pass)

`ImplementsCpuMemory` says that the port and its target implement the
big-endian memory `CpuMemory`. This covers every width and every path: DMI,
`b_transport` and `transport_dbg`. It also covers resets and loader writes.
The run uses a big-endian host, where the `#ifdef LITTLE_ENDIAN_BO`
conversions are compiled out. What it checks is:
* the DMI offset arithmetic (a mutant that drops the start offset fails);
* the grant, and the path from a response error to the halt;
* the data flow of `b_transport` and `transport_dbg`.
It cannot catch three things. A missing conversion cannot be caught,
because this host needs none. The DMI pointer indexes the same `mem` as the
bus by construction. `CpuMemory` decodes by the first address, as
`exec_func` does, so an access that overruns the slave's window looks the
same on both sides. `TypeOK` also requires that a valid
DMI pointer has a granted region.

**Bounds.** The written values have distinct bytes, so a byte-order
mistake shows. The memory has 8 bytes in decode units of 2. Bytes 0..3 are
selected. A dword at 0 runs on into the unselected bytes 4..7, and accesses
that start at 4..7 get an address error. The region [2, 3] is the case
where the region does not start at 0. `CHECK_DEADLOCK FALSE` is set because
an error report terminates the simulator. The refinement check evaluates
the abstract next-state relation on every step, which is why the memory
is kept at 8 bytes.

### `tlm_dmi_bounds` (violation)

The target only grants the region [2, 3], which does not start at 0. The
trace:

1. A `read_half` at 2 goes over `b_transport` and is granted [2, 3].
   Depending on the order TLC explores, a `b_transport` read at 0 may
   come first and get no grant.
2. A `read_dword` at 0 takes the DMI path. It passes the test
   `0 + 2 <= 3` and copies bytes 0..7: two below the region and four past
   its end.

### `irqmp_eligible_served` (pass)

`EligibleEventuallyRequested`: whenever some line is eligible for the CPU,
the CPU's request line eventually carries an eligible line, unless none is
eligible any more. The only fairness is `WF_vars(LaunchIrq)`. It holds
because every handler that can make a line eligible notifies `e_signal`.
The level write notifies nobody but makes no line eligible. The global
force register is written only with 0 here (it is reserved when
`g_ncpu > 0`). One CPU keeps the liveness check fast.

MP_STAT reads, writes and `cpu_stat` changes interleave with the interrupt
handlers in this run, so the MP status actions are exercised alongside the
liveness check.

### `irqmp_request_outlives_reset` (violation)

Line 2 becomes eligible for CPU 0 and the arbiter requests it. Depending
on the order TLC explores, line 2 either arrives as pending or is forced by
a write to CPU 0's force register. Then `dorst` clears the pending and
force registers, but it neither writes `irq_req` nor notifies `e_signal`.
With only level writes after that, the request for line 2 stays asserted
for ever
although nothing is pending.

### `irqmp_mpstat_sixteen_cpus` (violation)

`MpStatReadIsLive`: every bus read of MP_STAT returns `g_ncpu` in bits
31..28, `g_eirq` in bits 19..16 and, in bit `i`, CPU `i`'s `cpu_stat` at
the time of the read. The specification allows 1 to 16 CPUs and puts N in
bits 28..31. `mpstat_read` (and `dorst`) compute `g_ncpu << 28` in a 32-bit
register. With `g_ncpu = 16` the only set bit of 16 is shifted out, so the
first read after reset returns 0 CPUs. The instance has no interrupt lines
and writes no interrupt register, which keeps 16 CPUs within TLC's reach.
For any smaller `g_ncpu` the hook computes the fields exactly, so the
property is only checked where it can fail.

### `irqmp_force_releases_other_ext` (violation)

Line 17 arrives and is pending, and CPU 0's extended id is set to 17. A
force write on CPU 1 then removes 17 from the pending register, because
`force_write` loops over all CPUs. Spec 4.2 says it releases the extended
interrupt of the CPU written.

### `log_tee_consistent` (pass)

`LogFileIsConsoleTail`: while a log file is open, it equals the console
output written since it was opened. The history variable `openlen` records
the console length at that open. The runs include reopening the same file,
a file that fails to open, `logFile(NULL)` and `logApplication`. Two kinds
of bug break it:
* a file opened for appending holds old output (the listed mutant);
* a `logFile` that never calls `set_tee` leaves the file empty (a one-off
  mutant).
The property says nothing while no file is open. So a tee left on a closed
buffer, after a failed open or `logFile(NULL)`, is the business of
`OverflowReportsLoss`.

### `log_file_failure_unreported` (violation)

`logFile("/ro/sim.log")` fails to open, but `set_tee` still attaches the
closed buffer. The next character is refused by the file, and `overflow`
returns it as written, because it tests `r1` twice and never `r2`.

## 5. Not modelled, and why

* **Performance counters and power events.** `m_irq_counter` and
  `m_cpu_counter` are incremented and never read by the controller. Power
  events are telemetry.
* **`incomming_irq` with value `false`.** It returns before touching any
  state.
* **Line 0.** It is masked by default, and the scan never looks at bit 0.
* **Timing.** The one- and two-cycle notify delays are abstracted to
  "later". The only timing property the code relies on is that a
  notification is eventually delivered.
* **The little-endian build of the memory port.** `TlmMemory` models the
  `#ifdef LITTLE_ENDIAN_BO` conversions, but no run checks them. All four
  dword conversions swap each 32-bit word in place. Whether that word order
  is right is decided by the ISS's `LDD`/`STD`, which is not in `src/`, and
  nothing in `src/` states a host-independent dword layout. So there is no
  contract to check the little-endian build against.
* **DMI revocation.** No target in `src/` grants or revokes DMI, and the
  port registers no invalidation callback.
* **AHB byte counters and delays, the quantum keeper, the debugger
  notification, and the payload extensions (`asi`, `flush`, `lock`).**
  They are telemetry and timing, and `AHBMem` does not read them. The
  extensions and their `debug` word are leaked on every `b_transport`.
* **Log streams, colours and number formats.** They are declared in
  `verbose.h`, which is not in the repository, and only format output.
* **Profiler, Python embedding, exceptions.** `profInfo.cpp` formats
  counters as CSV. `pysc.h` only declares things. The exception classes
  print a backtrace when constructed. None of them has state transitions
  to check.
