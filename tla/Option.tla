------------------------------- MODULE Option ------------------------------
(***************************************************************************)
(* For the modules of the parts that share no state: Rust's None, and the  *)
(* library of sequences under a name, for those that are proved about      *)
(* together.                                                               *)
(***************************************************************************)
CONSTANT Nil

Seqs == INSTANCE SequencesExt
=============================================================================
