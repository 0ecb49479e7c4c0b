------------------------------ MODULE MCMemory ------------------------------
(* A small instance of Memory for TLC. *)
EXTENDS Memory

\* The pages of one table, as those of the kernel heap are.
OneTable == (4 * Entries)..(4 * Entries + 2)
=============================================================================
