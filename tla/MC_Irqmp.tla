------------------------------ MODULE MC_Irqmp ------------------------------
(***************************************************************************)
(* Model-checking instance of Irqmp: two CPUs, extended interrupts off    *)
(* (g_eirq = 0), two hardware lines.  Two lines are the least that lets   *)
(* level and number priority disagree; lines 1 and 15 are the two ends of *)
(* the scan from bit 15 down to 1.  Two CPUs are the least that lets one  *)
(* CPU's acknowledgment or force write touch another CPU's state.          *)
(***************************************************************************)
EXTENDS Irqmp

MC_NCPU == 2
MC_EIRQ == 0
MC_Lines == {1, 15}
\* Values written to level, pending, clear and broadcast registers.
MC_WriteValues == {{}, {1}, {15}}
\* The same, plus a clear of bit 16: with g_eirq = 0, clear_write then
\* takes its extended-interrupt branch and writes (0, false).
MC_ClearHighValues == MC_WriteValues \cup {{16}}
MC_GlobalForceValues == {{}, {1}, {15}}
\* Per-CPU force writes: force line 15, or revoke line 1 (IFC bit 17).
MC_ForceValues == {{15}, {17}}
\* Per-CPU mask writes: unmask only line 1, or only line 15.
MC_MaskValues == {{1}, {15}}
\* MPStat is left out: neither accessed nor any cpu_stat change.
MC_MpStatValues == {}
MC_StatCpus == {}
=============================================================================
