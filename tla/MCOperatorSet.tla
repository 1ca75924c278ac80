--------------------------- MODULE MCOperatorSet ----------------------------
(* Instances of OperatorSet for TLC. *)
EXTENDS OperatorSet, TLC

CONSTANTS r1, r2, r3, v1

\* Two good keys, of which one is not in order, and two that are refused.
Keys ==
  {[participants |-> <<<<2, 1>>, <<1, 1>>>>, threshold |-> 2],
   [participants |-> <<<<1, 1>>, <<2, 2>>, <<3, 1>>>>, threshold |-> 3],
   [participants |-> <<<<1, 1>>, <<2, 1>>>>, threshold |-> 3],
   [participants |-> <<<<1, 2>>, <<1, 2>>>>, threshold |-> 2]}

Symmetry == Permutations(Transfer)

=============================================================================
