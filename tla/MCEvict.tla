------------------------------ MODULE MCEvict -------------------------------
(***************************************************************************)
(* Small instances of Evict: two shards and two clients.                   *)
(***************************************************************************)
EXTENDS Evict
=============================================================================
