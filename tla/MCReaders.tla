----------------------------- MODULE MCReaders -----------------------------
(* Readers on the instances of MCBatchSystem. *)
EXTENDS Readers, MCBatchSystem
============================================================================
