------------------------- MODULE MCMemoryIntegrity -------------------------
(* A region of two whole pages and a short one, in slices of two pages.     *)
EXTENDS MemoryIntegrity
=============================================================================
