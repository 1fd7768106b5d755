------------------------------ MODULE Rewriting -----------------------------
(***************************************************************************)
(* What a rewriting session and a rewrite chain have in common: one query  *)
(* is asked for, another is shown in its place, under one set of trusted   *)
(* constraints, observed on one database.                                  *)
(***************************************************************************)
EXTENDS BuiltinVerifier

VARIABLES
  catalog,  \* the trusted constraints
  db,       \* a database that satisfies them
  asked,    \* the SQL of the task, or the one the chain starts from
  shown     \* current_sql

(* "A proven rewrite means: for the supported SQL subset, the rewritten    *)
(* query returns the same rows as the original under the declared          *)
(* assumptions" (README.md:16), however many rewrites lie in between: the  *)
(* database may return for one query exactly the bags it may return for    *)
(* the other.                                                              *)
SameRows == Rows(shown, db) = Rows(asked, db)
=============================================================================
