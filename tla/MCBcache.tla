------------------------------ MODULE MCBcache ------------------------------
(*************************************************************************)
(* Values at the edges of the fields: nothing, the lowest bit, and ones  *)
(* that overfill every field but the inode and the pointer's offset.     *)
(*************************************************************************)
EXTENDS Bcache

MCValues == {{}, {0}, 0..16}
=============================================================================
