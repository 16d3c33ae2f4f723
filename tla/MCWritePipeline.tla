---------------------------- MODULE MCWritePipeline ----------------------------
(* Instances of WritePipeline: batches accepted in the order of their      *)
(* numbers, two of them for the same bucket.                               *)
EXTENDS WritePipeline

CONSTANTS b1, b2

MCBatches == 1 .. 3
MCBucketOf == <<b1, b2, b1>>
===============================================================================
