------------------------- MODULE CertifiedRewriting -------------------------
(***************************************************************************)
(* What a rewriting driver of QuerySeal promises (README.md:16): starting  *)
(* from a query and the constraints it was declared with, the driver shows *)
(* only queries that return the same rows on every database satisfying     *)
(* those constraints.  The environment (RewriteEnvironment) implements it. *)
(***************************************************************************)
CONSTANTS
  Query,     \* SQL texts
  Context,   \* what equivalence is relative to: a task, a constraint catalog
  Equiv,     \* [Context -> SUBSET (Query \X Query)]
  None       \* no session has started

VARIABLES
  context,   \* the context of the session
  root,      \* the query the session started from
  current    \* the query the driver shows now

vars == <<context, root, current>>

Init == context = None /\ root = None /\ current = None

Start ==
  /\ context' \in Context
  /\ root' \in Query
  /\ current' = root'

Rewrite ==
  /\ context # None
  /\ <<root, current>> \in Equiv[context]
  /\ current' \in {r \in Query : <<current, r>> \in Equiv[context]}
  /\ UNCHANGED <<context, root>>

Next == Start \/ Rewrite

Spec == Init /\ [][Next]_vars

(* The promise itself: what is shown means what was asked. *)
ShownMeansAsked == context # None => <<root, current>> \in Equiv[context]
=============================================================================
