---------------------------- MODULE MCMetadataCache ----------------------------
(* Instances of MetadataCache. *)
EXTENDS MetadataCache, TLC

CacheSymmetry ==
  Permutations(Tasks) \cup Permutations(Buckets) \cup Permutations(Nodes)
===============================================================================
