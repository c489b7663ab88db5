-------------------------- MODULE MCShardedHandle --------------------------
(***************************************************************************)
(* Small instances of ShardedHandle.                                       *)
(***************************************************************************)
EXTENDS ShardedHandle, TLC

\* Nothing tells one shard from another.
ShardSymmetry == Permutations(Shards)
=============================================================================
