--------------------------- MODULE MC_IrqmpSixteen ---------------------------
(***************************************************************************)
(* The largest configuration the specification allows, g_ncpu = 16, with  *)
(* no interrupt lines and no register writes other than to MP_STAT: all    *)
(* that is left is reset, MP_STAT reads and writes, and the CPUs' status   *)
(* inputs, enough to read back the configuration fields.                  *)
(***************************************************************************)
EXTENDS Irqmp

Sixteen_NCPU == 16
Sixteen_EIRQ == 0
Sixteen_Lines == {}
Sixteen_NoValues == {}
\* Software writes MP_STAT with no status bit set, and reads it.
Sixteen_MpStatValues == {{}}
\* CPU 15, the one whose status bit is highest, may change its status.
Sixteen_StatCpus == {15}
=============================================================================
