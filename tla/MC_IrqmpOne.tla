---------------------------- MODULE MC_IrqmpOne ----------------------------
(***************************************************************************)
(* A single CPU, extended interrupts off, two lines: enough for a level    *)
(* write to change which of two pending lines is the best one.            *)
(***************************************************************************)
EXTENDS Irqmp

One_NCPU == 1
One_EIRQ == 0
One_Lines == {1, 2}
One_WriteValues == {{}, {1}}
One_ForceValues == {{2}, {17}}
One_MaskValues == {{1}}
\* No global force writes: the register is reserved when g_ncpu > 0.
One_NoGlobalForce == {{}}
\* MPStat: software writes the CPU's status bit as 0 or 1, reads the
\* register, and the processor changes its cpu_stat input.
One_MpStatValues == {{0}}
One_StatCpus == {0}
One_NoMpStat == {}
One_NoStatCpus == {}
=============================================================================
