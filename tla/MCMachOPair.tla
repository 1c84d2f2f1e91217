----------------------------- MODULE MCMachOPair -----------------------------
(***************************************************************************)
(* Model-checking instance of MachOPair with the sizes and portions of     *)
(* MCMachOData.                                                            *)
(***************************************************************************)
EXTENDS MachOPair, MCMachOData

MCLabels == 1..7
=============================================================================
