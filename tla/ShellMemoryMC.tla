---------------------------- MODULE ShellMemoryMC ----------------------------
(* Instances of ShellMemory for TLC. *)
EXTENDS ShellMemory

SmallWidths == [u8 |-> 1, u32 |-> 2, i64 |-> 3]
=============================================================================
