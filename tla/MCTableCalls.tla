----------------------------- MODULE MCTableCalls -----------------------------
(* Instances of TableCalls. *)
EXTENDS TableCalls, TLC

CONSTANTS b1, p1, c1, c2

MCBuckets == {b1, p1}
MCPartitioned == {p1}
MCCoordinators == <<c1, c2>>
MCSchemas == <<<<"a", "b">>, <<"b", "c">>, <<"c">>>>
ServerSymmetry == Permutations(Servers)
===============================================================================
