------------------------------- MODULE Irqmp -------------------------------
(***************************************************************************)
(* The multiprocessor interrupt controller of src/models/irqmp/irqmp.cpp. *)
(*                                                                         *)
(* A 32-bit register is modelled as the set of its bit positions that are *)
(* 1, so AND, OR and AND-NOT are intersection, union and difference.  The *)
(* register callbacks (incomming_irq, clear_write, force_write,           *)
(* acknowledged_irq, pending_write, dorst) run to completion, each as one *)
(* action.  They never run the arbitration themselves: they notify the    *)
(* event e_signal, modelled by the flag `scheduled`, and the SC_THREAD    *)
(* launch_irq, which waits on e_signal, is the action LaunchIrq.  A       *)
(* notify while a notification is pending is absorbed by it (the earlier  *)
(* of two timed notifications wins), so `scheduled` is a flag, not a      *)
(* counter.  The time a notification waits (one or two clock cycles) is   *)
(* abstracted: any handler may run before the arbiter does.               *)
(*                                                                         *)
(* The request line irq_req towards each CPU holds the last pair          *)
(* (line, asserted) written on that CPU's channel.  The CPU side is the   *)
(* environment: a CPU whose line is asserted traps and acknowledges that  *)
(* line (acknowledged_irq).                                               *)
(***************************************************************************)
EXTENDS Integers, FiniteSets, FiniteSetsExt

CONSTANTS
  NCPU,         \* g_ncpu: number of CPUs (1..16)
  EIRQ,         \* g_eirq: line number of the extended interrupt, 0 = none
  Lines,        \* hardware interrupt lines that may be asserted
  WriteValues,  \* values software writes to the level, pending, clear
                \* and broadcast registers (sets of bit numbers)
  GlobalForceValues, \* values software writes to the global force register
  MaskValues,   \* values software writes to a per-CPU mask register
  ForceValues,  \* values software writes to a per-CPU force register
  MpStatValues, \* values software writes to MPStat; {} leaves MPStat out
  StatCpus      \* CPUs whose processor changes its cpu_stat input

ASSUME NCPU \in 1..16
ASSUME EIRQ \in 0..15
ASSUME Lines \subseteq 1..31
ASSUME WriteValues \subseteq SUBSET (0..31)
ASSUME ForceValues \subseteq SUBSET (0..31)
ASSUME GlobalForceValues \subseteq SUBSET (0..31)
ASSUME MaskValues \subseteq SUBSET (0..31)
ASSUME MpStatValues \subseteq SUBSET (0..31) /\ StatCpus \subseteq 0..(NCPU - 1)

CPUS == 0..(NCPU - 1)

(***************************************************************************)
(* Field masks of irqmp.h.  The header is not part of the sources; the    *)
(* values are the register layout the specification gives.               *)
(***************************************************************************)
IR_PENDING_IP  == 1..15          \* ordinary interrupts, bits 15..1
IR_PENDING_EIP == 16..31         \* extended interrupts, bits 31..16
IR_FORCE_IF    == 1..15          \* force bits
IR_LEVEL_IL    == 1..15          \* level bits
BROADCAST_BM   == 1..15          \* broadcast bits
IR_CLEAR_IC    == 1..31          \* clear bits
PROC_MASK      == 1..31          \* PROC_MASK_EIM | PROC_MASK_IM
PROC_FORCE_WM  == 1..15 \cup 17..31   \* PROC_IR_FORCE_IFC | PROC_IR_FORCE_IF
PROC_EXTIR_ID_EID == 0..31       \* 5-bit extended interrupt id
MASK_DEFAULT   == 1..31          \* 0xFFFFFFFE
MP_STAT_WMASK  == 0..15          \* the CPU status bits; N and E read-only

(* A software write through the register file: bits outside the write    *)
(* mask keep their value.                                                 *)
WriteReg(old, v, wmask) == (old \ wmask) \cup (v \cap wmask)

(* The force-clear (IFC) half of a per-CPU force register value: bit     *)
(* i + 16 revokes force bit i.                                            *)
IFC(v) == {i - 16 : i \in v \cap 17..31}

(* n << s in a 32-bit register: bits shifted past bit 31 are lost.      *)
Shifted(n, s) == {b + s : b \in {b \in 0..4 : (n \div 2^b) % 2 = 1}} \cap 0..31

(* The read-only fields of MP_STAT: (g_ncpu << 28) | (g_eirq << 16).     *)
MpStatConfig == Shifted(NCPU, 28) \cup Shifted(EIRQ, 16)

NoReq == [line |-> 0, on |-> FALSE]
Req   == [line : 0..15, on : BOOLEAN]

VARIABLES
  level,      \* IR_LEVEL
  pending,    \* IR_PENDING
  force,      \* IR_FORCE, the global force register
  broadcast,  \* BROADCAST
  mask,       \* PROC_IR_MASK(cpu)
  procforce,  \* PROC_IR_FORCE(cpu), the register
  forcereg,   \* forcereg[cpu], the shadow of the per-CPU force register
  extid,      \* PROC_EXTIR_ID(cpu)
  irq_req,    \* last value written on each CPU's request channel
  scheduled,  \* e_signal has a pending notification
  stale,      \* history: arbitration inputs changed by a write that
              \* notified nobody since launch_irq last ran
  mpstat,     \* MP_STAT
  cpu_stat,   \* the cpu_stat input: cpu_stat.read(i), driven by CPU i
  cpu_rst,    \* the CPUs the last dorst or mpstat_write reset (cpu_rst)
  lastread    \* history: the last bus read of MPStat and cpu_stat then

regs == <<level, pending, force, broadcast, mask, procforce, forcereg, extid>>
mpvars == <<mpstat, cpu_stat, cpu_rst, lastread>>
vars == <<regs, irq_req, scheduled, stale, mpvars>>

(***************************************************************************)
(* Arbitration (launch_irq).                                               *)
(***************************************************************************)

(* Mutation: the scan loop stops one bit early (high > 1) and reports    *)
(* line 1 when no bit is set.                                             *)
RECURSIVE ScanStopsAtOne(_, _)
ScanStopsAtOne(masked, high) ==
  IF high = 1 \/ high \in masked THEN high ELSE ScanStopsAtOne(masked, high - 1)

(* for(high = 15; high > 0; high--) if(masked & (1 << high)) break;       *)
RECURSIVE Scan(_, _)
Scan(masked, high) ==
  IF high = 0 \/ high \in masked THEN high ELSE Scan(masked, high - 1)

(* The evaluation of one CPU against the pending register p as the loop   *)
(* sees it: the new pending register (bit EIRQ is rewritten when extended *)
(* interrupts are enabled) and the CPU's new request value.               *)
ArbitrateCpu(cpu, p, rq) ==
  LET pend   == (p \cup force) \cap mask[cpu]
      forced == procforce[cpu] \cap IR_FORCE_IF
      eirqEn == EIRQ # 0 /\ (pend \cup forced) \cap IR_PENDING_EIP # {}
      p2     == IF EIRQ = 0 THEN p
                ELSE IF eirqEn THEN p \cup {EIRQ} ELSE p \ {EIRQ}
      all    == pend \cup forced \cup (IF eirqEn THEN {EIRQ} ELSE {})
      high1  == Scan((all \cap level) \cap IR_PENDING_IP, 15)
      high   == IF high1 # 0 THEN high1
                ELSE Scan((all \ level) \cap IR_PENDING_IP, 15)
      new    == IF high # 0 THEN [line |-> high, on |-> TRUE]
                ELSE IF rq[cpu].line # 0 THEN NoReq
                ELSE rq[cpu]
  IN  [pending |-> p2, irq_req |-> [rq EXCEPT ![cpu] = new]]

(* for(cpu = g_ncpu-1; cpu > -1; cpu--): the CPUs are evaluated from the  *)
(* highest number down, each seeing the pending register as the previous *)
(* one left it.                                                           *)
RECURSIVE LaunchLoop(_, _, _)
LaunchLoop(cpu, p, rq) ==
  IF cpu < 0 THEN [pending |-> p, irq_req |-> rq]
  ELSE LET r == ArbitrateCpu(cpu, p, rq)
       IN  LaunchLoop(cpu - 1, r.pending, r.irq_req)

(***************************************************************************)
(* Actions.                                                                *)
(***************************************************************************)

Init ==
  /\ level     = {}
  /\ pending   = {}
  /\ force     = {}
  /\ broadcast = {}
  /\ mask      = [c \in CPUS |-> MASK_DEFAULT]
  /\ procforce = [c \in CPUS |-> {}]
  /\ forcereg  = [c \in CPUS |-> {}]
  /\ extid     = [c \in CPUS |-> 0]
  /\ irq_req   = [c \in CPUS |-> NoReq]
  /\ scheduled = FALSE
  /\ stale     = FALSE
  /\ mpstat    = {}
  /\ cpu_stat  = [c \in CPUS |-> FALSE]
  /\ cpu_rst   = {}
  /\ lastread  = [done |-> FALSE, val |-> {}, stat |-> cpu_stat]

(* The arbiter thread wakes on e_signal and evaluates every CPU.           *)
LaunchIrq ==
  /\ scheduled
  /\ LET r == LaunchLoop(NCPU - 1, pending, irq_req)
     IN  /\ pending' = r.pending
         /\ irq_req' = r.irq_req
  /\ scheduled' = FALSE
  /\ stale' = FALSE
  /\ UNCHANGED <<level, force, broadcast, mask, procforce, forcereg, extid>>

(* incomming_irq with value true (a false value returns at once).  A line *)
(* not in the broadcast register goes to pending; a broadcast line below  *)
(* 16 is forced on every CPU; a broadcast extended line goes nowhere.     *)
IrqLatched(irq) ==
  /\ pending' = IF irq \notin broadcast THEN pending \cup {irq} ELSE pending
  /\ IF irq \in broadcast /\ irq < 16
       THEN /\ procforce' = [c \in CPUS |-> procforce[c] \cup {irq}]
            /\ forcereg'  = [c \in CPUS |-> forcereg[c] \cup {irq}]
       ELSE UNCHANGED <<procforce, forcereg>>
  /\ UNCHANGED <<level, force, broadcast, mask, extid, irq_req, stale>>

(* Mutation: the handler records the line but does not notify e_signal.  *)
IncommingIrqSilent(irq) == IrqLatched(irq) /\ UNCHANGED scheduled

(* ... and e_signal.notify(2 * clock_cycle).                              *)
IncommingIrq(irq) == IrqLatched(irq) /\ scheduled' = TRUE

(* Software writes v to the clear register; clear_write runs.  The       *)
(* deassertions are written with mask ~0, to every CPU's channel; the    *)
(* last one written, the lowest cleared line, is what remains.           *)
ClearWrite(v) ==
  LET c0      == v \cap IR_CLEAR_IC
      withExt == {c \in CPUS : EIRQ # 0 /\ extid[c] # 0}
      extirq  == withExt # {} \/ c0 \cap 16..31 # {}
      low     == c0 \cap 1..15
  IN
  /\ irq_req' = IF low # {}
                  THEN [c \in CPUS |-> [line |-> Min(low), on |-> FALSE]]
                ELSE IF extirq
                  THEN [c \in CPUS |-> [line |-> EIRQ, on |-> FALSE]]
                ELSE irq_req
  /\ pending' = (pending \ {extid[c] : c \in withExt}) \ c0
  /\ force'   = force \ c0
  /\ extid'   = [c \in CPUS |-> IF c \in withExt THEN 0 ELSE extid[c]]
  /\ scheduled' = TRUE
  /\ UNCHANGED <<level, broadcast, mask, procforce, forcereg, stale>>

(* Mutation: the shadow is not masked back to the force bits, so the IFC *)
(* bits written stay in it.                                               *)
ForceCommitUnmasked(shadow, reg) == (shadow \cup reg) \ IFC(reg)

(* forcereg |= reg; forcereg &= ~(forcereg >> 16) & PROC_IR_FORCE_IF      *)
ForceCommit(shadow, reg) == ((shadow \cup reg) \ IFC(reg)) \cap IR_FORCE_IF

(* force_write with the per-CPU force registers reg as the write left   *)
(* them.  It runs over every CPU: OR the register into the shadow, drop   *)
(* the bits whose IFC bit is set, commit the shadow to the register, and  *)
(* release the pending bit of every CPU's recorded extended interrupt.    *)
(* The IFC bits of the written CPU's register are deasserted first, on     *)
(* every channel.                                                           *)
ForceUpdate(cpu, reg) ==
  LET new(c)  == ForceCommit(forcereg[c], reg[c])
      ifcLow  == IFC(reg[cpu]) \cap 1..15
  IN
  /\ irq_req' = IF ifcLow # {}
                  THEN [c \in CPUS |-> [line |-> Min(ifcLow), on |-> FALSE]]
                  ELSE irq_req
  /\ forcereg'  = [c \in CPUS |-> new(c)]
  /\ procforce' = [c \in CPUS |-> new(c)]
  /\ pending' = pending \ {extid[c] : c \in {d \in CPUS : EIRQ # 0 /\ extid[d] # 0}}
  /\ scheduled' = TRUE
  /\ UNCHANGED <<level, force, broadcast, mask, extid, stale>>

(* Mutation: the written value is merged into every CPU's force          *)
(* register, not only into the register of the CPU written.               *)
ForceWriteAllCpus(cpu, v) ==
  ForceUpdate(cpu, [c \in CPUS |-> WriteReg(procforce[c], v, PROC_FORCE_WM)])

(* Software writes v to CPU cpu's force register; force_write runs.       *)
ForceWrite(cpu, v) ==
  ForceUpdate(cpu, [procforce EXCEPT ![cpu] = WriteReg(@, v, PROC_FORCE_WM)])

(* acknowledged_irq(irq, cpu) with the shadow forcereg[cpu] left as      *)
(* shadow when irq is a broadcast line.                                   *)
AckUpdate(irq, cpu, shadow) ==
  LET p1 == IF EIRQ # 0 /\ extid[cpu] # 0 THEN pending \ {extid[cpu]}
            ELSE pending
  IN
  /\ IF irq \in broadcast
       THEN /\ procforce' = [procforce EXCEPT ![cpu] = @ \ {irq}]
            /\ forcereg'  = [forcereg EXCEPT ![cpu] = shadow]
       ELSE UNCHANGED <<procforce, forcereg>>
  /\ irq_req' = [c \in CPUS |-> [line |-> irq, on |-> FALSE]]
  /\ pending' = p1 \ {irq}
  /\ force'   = force \ {irq}
  /\ extid'   = [extid EXCEPT ![cpu] = 0]
  /\ scheduled' = TRUE
  /\ UNCHANGED <<level, broadcast, mask, stale>>

(* Mutation: an acknowledged broadcast line is cleared from the force    *)
(* register but not from its shadow forcereg.                             *)
AcknowledgedIrqKeepsShadow(irq, cpu) == AckUpdate(irq, cpu, forcereg[cpu])

(* acknowledged_irq(irq, cpu): forcereg[cpu] &= ~(1 << irq) & 0xFFFE.    *)
AcknowledgedIrq(irq, cpu) ==
  AckUpdate(irq, cpu, (forcereg[cpu] \ {irq}) \cap 1..15)

(* The CPU traps on its asserted request line and acknowledges it.       *)
CpuAck(cpu) ==
  /\ irq_req[cpu].on
  /\ AcknowledgedIrq(irq_req[cpu].line, cpu)

(* Writes to the pending, global force and mask registers run            *)
(* pending_write, which only notifies the arbiter.                        *)
PendingWrite(v) ==
  /\ pending' = WriteReg(pending, v, IR_PENDING_EIP \cup IR_PENDING_IP)
  /\ scheduled' = TRUE
  /\ UNCHANGED <<level, force, broadcast, mask, procforce, forcereg, extid,
                 irq_req, stale>>

GlobalForceWrite(v) ==
  /\ force' = WriteReg(force, v, IR_FORCE_IF)
  /\ scheduled' = TRUE
  /\ UNCHANGED <<level, pending, broadcast, mask, procforce, forcereg, extid,
                 irq_req, stale>>

MaskWrite(cpu, v) ==
  /\ mask' = [mask EXCEPT ![cpu] = WriteReg(@, v, PROC_MASK)]
  /\ scheduled' = TRUE
  /\ UNCHANGED <<level, pending, force, broadcast, procforce, forcereg, extid,
                 irq_req, stale>>

(* Level, broadcast and extended-id writes have no callback.             *)
LevelWrite(v) ==
  /\ level' = WriteReg(level, v, IR_LEVEL_IL)
  /\ stale' = (stale \/ level' # level)
  /\ UNCHANGED <<pending, force, broadcast, mask, procforce, forcereg, extid,
                 irq_req, scheduled>>

BroadcastWrite(v) ==
  /\ broadcast' = WriteReg(broadcast, v, BROADCAST_BM)
  /\ UNCHANGED <<level, pending, force, mask, procforce, forcereg, extid,
                 irq_req, scheduled, stale>>

ExtIdWrite(cpu, id) ==
  /\ extid' = [extid EXCEPT ![cpu] = id]
  /\ UNCHANGED <<level, pending, force, broadcast, mask, procforce, forcereg,
                 irq_req, scheduled, stale>>

(* dorst: registers back to their defaults, MP_STAT to 0xFFFE with the   *)
(* configuration fields, and CPU 0's reset line asserted                  *)
(* (cpu_rst.write(1, true)).  The global force register is reset only    *)
(* when g_ncpu = 0; the request lines and a pending e_signal notification *)
(* are left alone.                                                         *)
Reset ==
  /\ level'     = {}
  /\ pending'   = {}
  /\ broadcast' = {}
  /\ mask'      = [c \in CPUS |-> MASK_DEFAULT]
  /\ procforce' = [c \in CPUS |-> {}]
  /\ forcereg'  = [c \in CPUS |-> {}]
  /\ extid'     = [c \in CPUS |-> 0]
  /\ UNCHANGED <<force, irq_req, scheduled, cpu_stat, lastread>>
  /\ stale'     = (stale \/ regs' # regs)
  /\ mpstat'    = (1..15) \cup MpStatConfig
  /\ cpu_rst'   = {0}

(* A bus read of MP_STAT: the pre-read hook mpstat_read rebuilds the      *)
(* register from g_ncpu, g_eirq and cpu_stat.read(i) << i for every CPU,  *)
(* and the read returns it.                                                *)
MpStatRead ==
  LET reg == MpStatConfig \cup {c \in CPUS : cpu_stat[c]}
  IN  /\ mpstat' = reg
      /\ lastread' = [done |-> TRUE, val |-> reg, stat |-> cpu_stat]
      /\ UNCHANGED <<cpu_stat, cpu_rst>>

(* Software writes v to MP_STAT; mpstat_write then resets every CPU whose *)
(* bit is set in the register's low half and whose cpu_stat reads true.   *)
MpStatWrite(v) ==
  LET reg == WriteReg(mpstat, v, MP_STAT_WMASK)
  IN  /\ mpstat' = reg
      /\ cpu_rst' = {c \in CPUS : c \in reg /\ cpu_stat[c]}
      /\ UNCHANGED <<cpu_stat, lastread>>

(* The processor of CPU c changes the value it drives on cpu_stat.        *)
CpuStatChange(c) ==
  /\ cpu_stat' = [cpu_stat EXCEPT ![c] = ~@]
  /\ UNCHANGED <<mpstat, cpu_rst, lastread>>

ExtIds == {0} \cup (Lines \cap IR_PENDING_EIP)

(* Software reads or writes MP_STAT only when MpStatValues is not empty.  *)
Next ==
  \/ /\ \/ LaunchIrq
        \/ \E irq \in Lines : IncommingIrq(irq)
        \/ \E v \in WriteValues : ClearWrite(v)
        \/ \E c \in CPUS, v \in ForceValues : ForceWrite(c, v)
        \/ \E c \in CPUS : CpuAck(c)
        \/ \E v \in WriteValues : PendingWrite(v)
        \/ \E v \in GlobalForceValues : GlobalForceWrite(v)
        \/ \E c \in CPUS, v \in MaskValues : MaskWrite(c, v)
        \/ \E v \in WriteValues : LevelWrite(v) \/ BroadcastWrite(v)
        \/ \E c \in CPUS, id \in ExtIds : ExtIdWrite(c, id)
     /\ UNCHANGED mpvars
  \/ Reset
  \/ /\ \/ \E v \in MpStatValues : MpStatWrite(v) \/ MpStatRead
        \/ \E c \in StatCpus : CpuStatChange(c)
     /\ UNCHANGED <<regs, irq_req, scheduled, stale>>

(* SystemC delivers every pending notification: the arbiter cannot be    *)
(* starved.  Nothing is assumed of the CPUs or of software.               *)
Fairness == WF_vars(LaunchIrq /\ UNCHANGED mpvars)

Spec == Init /\ [][Next]_vars /\ Fairness

(***************************************************************************)
(* Reference arbitration, written from the specification's priority rule  *)
(* rather than from the scan loops: the lines a CPU may be interrupted by *)
(* and the order between them.                                            *)
(***************************************************************************)

(* Pending and globally forced lines unmasked for the CPU, and the CPU's  *)
(* own forced lines; an extended line is delivered as line EIRQ.  Bit     *)
(* EIRQ of the pending register is the arbiter's own output and is not a  *)
(* source.                                                                 *)
Sources(c) ==
  LET p == IF EIRQ # 0 THEN pending \ {EIRQ} ELSE pending
  IN  ((p \cup force) \cap mask[c]) \cup (procforce[c] \cap IR_FORCE_IF)

Eligible(c) ==
  (Sources(c) \cap 1..15)
    \cup (IF EIRQ # 0 /\ Sources(c) \cap IR_PENDING_EIP # {} THEN {EIRQ} ELSE {})

(* Line i outranks line j: a level-1 line beats a level-0 line, and       *)
(* within a level the higher number wins.                                 *)
Outranks(i, j) ==
  \/ i \in level /\ j \notin level
  \/ (i \in level <=> j \in level) /\ i > j

Best(c) ==
  IF Eligible(c) = {} THEN 0
  ELSE CHOOSE i \in Eligible(c) : \A j \in Eligible(c) \ {i} : Outranks(i, j)

(* CPU c's request line shows what the reference arbitration selects.     *)
Presented(c) ==
  IF Best(c) = 0 THEN ~irq_req[c].on
  ELSE irq_req[c] = [line |-> Best(c), on |-> TRUE]

(***************************************************************************)
(* Properties.                                                             *)
(***************************************************************************)

TypeOK ==
  /\ level \subseteq 0..31 /\ pending \subseteq 0..31
  /\ force \subseteq 0..31 /\ broadcast \subseteq 0..31
  /\ mask \in [CPUS -> SUBSET (0..31)]
  /\ procforce \in [CPUS -> SUBSET IR_FORCE_IF]
  /\ forcereg \in [CPUS -> SUBSET IR_FORCE_IF]
  /\ extid \in [CPUS -> PROC_EXTIR_ID_EID]
  /\ irq_req \in [CPUS -> Req]
  /\ scheduled \in BOOLEAN /\ stale \in BOOLEAN
  /\ mpstat \subseteq 0..31 /\ cpu_stat \in [CPUS -> BOOLEAN]
  /\ cpu_rst \subseteq CPUS
  /\ lastread \in [done : BOOLEAN, val : SUBSET (0..31), stat : [CPUS -> BOOLEAN]]

(* Whenever launch_irq has no notification pending, and no write that     *)
(* notifies nobody (level register, reset) has happened since it last     *)
(* ran, every CPU's request line carries that CPU's highest-priority      *)
(* eligible interrupt, or is deasserted if there is none.  This holds     *)
(* only if every handler that changes the arbitration inputs or writes a  *)
(* request line notifies e_signal, and if the two-pass scan of launch_irq *)
(* implements the priority rule.                                          *)
RequestsCurrentWhenSettled ==
  (~scheduled /\ ~stale) => \A c \in CPUS : Presented(c)

(* The per-CPU force register and its shadow forcereg never disagree:     *)
(* incomming_irq, force_write, acknowledged_irq and dorst each update     *)
(* both, and force_write rebuilds the register from the shadow.           *)
ForceShadowInSync ==
  \A c \in CPUS : procforce[c] = forcereg[c]

(* A CPU's asserted request is withdrawn only when its line is no longer  *)
(* that CPU's best interrupt, or by a deassertion of that same line       *)
(* (spec 4.3: an acknowledgment deasserts the acknowledging CPU's line;   *)
(* spec 4.2: a clear deasserts the cleared line).                          *)
RequestWithdrawnOnlyWhenResolved ==
  [][\A c \in CPUS :
        (irq_req[c].on /\ ~irq_req'[c].on)
          => (Best(c)' # irq_req[c].line \/ irq_req'[c].line = irq_req[c].line)
    ]_vars

(* A step changes the force register of one CPU at most, unless it is     *)
(* the arrival of a broadcast line, which sets that bit for every CPU, or  *)
(* dorst, which clears every CPU's register.  Spec 3: force bits are added *)
(* by a write to the CPU's own register or by a broadcast, and removed by  *)
(* that register's IFC bits; spec 8: an acknowledgment by CPU c leaves     *)
(* the force state of every other CPU untouched.  force_write loops over  *)
(* every CPU and rebuilds each register from its shadow, and               *)
(* acknowledged_irq writes the force register of the acknowledging CPU,   *)
(* so this fails if any handler lets one CPU's write or acknowledgment     *)
(* reach another CPU's force state.                                        *)
ForceStateStaysPerCpu ==
  [][\/ \E c \in CPUS : \A d \in CPUS \ {c} : procforce'[d] = procforce[d]
     \/ \E i \in broadcast : \A d \in CPUS : procforce'[d] = procforce[d] \cup {i}
     \/ \A d \in CPUS : procforce'[d] = {}
    ]_vars

(* An extended interrupt reaches a settled CPU only if an extended line   *)
(* is pending and unmasked for that CPU, or forced on it.                 *)
ExtRequestOnlyIfUnmasked ==
  (~scheduled /\ ~stale) =>
    \A c \in CPUS : irq_req[c] = [line |-> EIRQ, on |-> TRUE] => EIRQ \in Eligible(c)

(* Whenever line i is CPU c's best eligible interrupt, the request line   *)
(* eventually carries it, unless it stops being the best first.           *)
BestEventuallyRequested ==
  \A c \in CPUS, i \in Lines \cap 1..15 :
    (Best(c) = i) ~> (irq_req[c] = [line |-> i, on |-> TRUE] \/ Best(c) # i)

(* Whenever some line is eligible for CPU c, c's request line eventually  *)
(* carries an eligible line (not necessarily the best one), unless none   *)
(* is eligible any more.  This needs every handler that can make a line    *)
(* eligible (incomming_irq, pending_write on the pending or mask          *)
(* registers, force_write) to notify e_signal, and launch_irq to assert   *)
(* whenever its scan finds a bit.                                          *)
EligibleEventuallyRequested ==
  \A c \in CPUS :
    (Eligible(c) # {})
      ~> ((irq_req[c].on /\ irq_req[c].line \in Eligible(c)) \/ Eligible(c) = {})

(* An asserted request is eventually withdrawn or justified: its line is  *)
(* eligible for the CPU.  dorst clears the registers behind a request     *)
(* without deasserting it or notifying e_signal.                          *)
RequestEventuallyJustified ==
  \A c \in CPUS :
    irq_req[c].on ~> (~irq_req[c].on \/ irq_req[c].line \in Eligible(c))

(* A force write on CPU cpu releases only that CPU's extended interrupt   *)
(* from the pending register (spec 4.2: "if an extended interrupt is      *)
(* active for this CPU, clear it"); another CPU's recorded extended line  *)
(* stays pending.                                                          *)
ForceWriteKeepsOtherExt ==
  [][\A cpu \in CPUS, v \in ForceValues :
        ForceWrite(cpu, v) =>
          \A d \in CPUS \ {cpu} :
            (extid[d] # 0 /\ extid[d] \in pending /\ extid[d] # extid[cpu])
              => extid[d] \in pending'
    ]_vars

(* The number held in bits lo..hi of register r.                          *)
Field(r, lo, hi) == SumSet({2^(b - lo) : b \in r \cap lo..hi})

(* Every bus read of MP_STAT returns g_ncpu in bits 31..28, g_eirq in    *)
(* bits 19..16 and, in bit i, whether CPU i's cpu_stat input read true    *)
(* when the read happened (spec 3 and 4.2, MPStat-read).  The register    *)
(* itself holds what dorst or the last write left in it (0xFFFE marks     *)
(* every CPU, a write stores any status bits); only the pre-read hook     *)
(* mpstat_read, with its shifts, makes the value a read returns live.     *)
MpStatReadIsLive ==
  lastread.done =>
    /\ Field(lastread.val, 28, 31) = NCPU
    /\ Field(lastread.val, 16, 19) = EIRQ
    /\ \A c \in CPUS : c \in lastread.val <=> lastread.stat[c]
=============================================================================
