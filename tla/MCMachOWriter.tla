---------------------------- MODULE MCMachOWriter ----------------------------
(***************************************************************************)
(* Model-checking instance of MachOWriter: the 16K page and 4K hash chunk  *)
(* of the writer, the values of MCMachOData, one configuration per .cfg.   *)
(***************************************************************************)
EXTENDS MachOWriter, MCMachOData
=============================================================================
