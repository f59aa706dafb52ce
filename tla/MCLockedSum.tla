----------------------------- MODULE MCLockedSum -----------------------------
(* The six threads of part1.c, with amounts that differ or are equal, one  *)
(* of them negative; the list of PLthreads.c and one of odd length.        *)
EXTENDS LockedSum

MCAmounts  == {-1, 2, 3}
MCPrograms == {Bank(3, d, w) : d \in MCAmounts, w \in MCAmounts}
                \cup {ListSum([i \in 1 .. 20 |-> i], 20), ListSum(<<4, 5, 6>>, 3)}
=============================================================================
