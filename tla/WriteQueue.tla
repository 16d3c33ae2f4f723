------------------------------ MODULE WriteQueue ------------------------------
(***************************************************************************)
(* What a buffered writer of the client promises its callers: a queue of   *)
(* accepted batches that leaves in the order of acceptance, at most once,  *)
(* and that loses nothing before the writer is shut.                       *)
(***************************************************************************)
EXTENDS Integers, SequencesExt

CONSTANT Batch        \* the batches callers may write

VARIABLES
  delivered,          \* batches whose write succeeded, in that order
  queue,              \* batches accepted and not yet delivered
  open                \* FALSE once the writer was closed

queueVars == <<delivered, queue, open>>

QueueInit ==
  /\ delivered = <<>>
  /\ queue = <<>>
  /\ open = TRUE

(* An open writer takes the batches of one Write to the back of the queue. *)
Accept ==
  /\ open
  /\ queue' \in Seq(Batch)
  /\ IsPrefix(queue, queue')
  /\ UNCHANGED <<delivered, open>>

(* The n oldest batches are written. *)
Deliver ==
  /\ \E n \in 0 .. Len(queue) :
       /\ delivered' = delivered \o SubSeq(queue, 1, n)
       /\ queue' = SubSeq(queue, n + 1, Len(queue))
  /\ UNCHANGED open

(* A Write that does not buffer: nothing may be queued before its batches. *)
PassThrough ==
  /\ queue = <<>>
  /\ delivered' \in Seq(Batch)
  /\ IsPrefix(delivered, delivered')
  /\ UNCHANGED <<queue, open>>

(* Closing gives up a suffix of the queue: what is not on its way.  A      *)
(* writer that is closed already may give up more of it.                   *)
Shut ==
  /\ open' = FALSE
  /\ \E n \in 0 .. Len(queue) : queue' = SubSeq(queue, 1, n)
  /\ UNCHANGED delivered

QueueNext == Accept \/ Deliver \/ PassThrough \/ Shut

QueueSpec == QueueInit /\ [][QueueNext]_queueVars
===============================================================================
