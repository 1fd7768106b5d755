------------------------- MODULE MCDuckdbBenchmark --------------------------
(***************************************************************************)
(* A pair with and without warm-ups, and single queries with two and three *)
(* samples.  A minimum of 4 is beyond the cap of three executions where    *)
(* one takes no time or 1, and takes two where one takes 3.                *)
(***************************************************************************)
EXTENDS DuckdbBenchmark

Called(pair, warmups, repetitions, minimum) ==
  [pair |-> pair, warmups |-> warmups, repetitions |-> repetitions, minimum |-> minimum]

MCSettings == {Called(TRUE, 1, 2, 0), Called(TRUE, 0, 1, 4), Called(FALSE, 1, 2, 4),
               Called(FALSE, 0, 3, 4)}
=============================================================================
