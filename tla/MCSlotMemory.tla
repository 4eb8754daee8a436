---------------------------- MODULE MCSlotMemory ----------------------------
(* A small memory for SlotMemory: two chunks of shooting memory, one of    *)
(* which holds the full-size buffer, and one of SRM memory.                *)
EXTENDS SlotMemory

Shoot == << [start |-> 0, size |-> 5], [start |-> 10, size |-> 12] >>
Srm   == << [start |-> 30, size |-> 4] >>
=============================================================================
