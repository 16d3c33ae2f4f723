--------------------------- MODULE MCBufferedWriter ---------------------------
(* Instances of BufferedWriter. *)
EXTENDS BufferedWriter

Option(batches, bytes, linger, block, flushOnClose) ==
  [batches |-> batches, bytes |-> bytes, linger |-> linger, block |-> block,
   flushOnClose |-> flushOnClose]

(* One or two batches of different size in one Write. *)
MCRequests == {<<1>>, <<2, 1>>}

(* Unbuffered, limited by batches with and without blocking, limited by    *)
(* bytes as well, and lingering.                                           *)
SafetyOptions ==
  {Option(1, 0, FALSE, FALSE, TRUE),
   Option(2, 0, FALSE, TRUE, TRUE),
   Option(3, 3, TRUE, TRUE, FALSE),
   Option(2, 0, TRUE, FALSE, TRUE)}

(* A lingering and a blocking writer, for the run with fairness, and next  *)
(* to a Write that fits one that never does.                               *)
LingerRequests == {<<1>>, <<1, 1, 1>>}
LingerOptions ==
  {Option(1, 0, TRUE, TRUE, TRUE), Option(2, 0, FALSE, TRUE, TRUE)}

CallerSymmetry == Permutations(Callers)
===============================================================================
