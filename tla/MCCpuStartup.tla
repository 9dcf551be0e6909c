---------------------------- MODULE MCCpuStartup ----------------------------
(* The boot CPU and three more entries, the boot CPU's second in the table. *)
EXTENDS CpuStartup
CONSTANTS b, a1, a2, a3
MCCpuList == <<a1, b, a2, a3>>
=============================================================================
