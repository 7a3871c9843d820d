---------------------------- MODULE MC_IrqmpExt ----------------------------
(***************************************************************************)
(* Two CPUs with extended interrupts on: extended line 17 is delivered as *)
(* line g_eirq = 2; line 1 is an ordinary line.  A mask write of {1, 2}   *)
(* masks the extended line for one CPU while leaving line 2 unmasked.     *)
(***************************************************************************)
EXTENDS Irqmp

Ext_NCPU == 2
Ext_EIRQ == 2
Ext_Lines == {1, 17}
Ext_WriteValues == {{}, {1}}
Ext_GlobalForceValues == {{}, {1}}
Ext_MaskValues == {{1, 2}}
Ext_ForceValues == {{1}, {17}}
Ext_MpStatValues == {}
Ext_StatCpus == {}
=============================================================================
