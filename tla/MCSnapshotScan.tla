---------------------------- MODULE MCSnapshotScan ----------------------------
(* Instances of SnapshotScan: a table without buckets, whose leaders and   *)
(* routes a snapshot scan does not need.                                   *)
EXTENDS SnapshotScan

CONSTANTS c1, c2

MCCoordinators == <<c1, c2>>
MCSchemas == <<<<"a", "b">>, <<"b", "c">>, <<"c">>>>

(* No store, one whose secret key is missing, and one for a bucket; a      *)
(* local file, and an object of a bucket, which has a fetcher only if a    *)
(* store is configured and names the bucket.                               *)
MCStorages ==
  {NoStorage,
   [NoStorage EXCEPT !.endpoint = TRUE, !.accessKey = TRUE],
   [s \in DOMAIN NoStorage |-> TRUE]}

MCRemotePaths ==
  {[scheme |-> "", host |-> FALSE, path |-> TRUE],
   [scheme |-> "s3", host |-> FALSE, path |-> TRUE]}
===============================================================================
