-------------------------- MODULE EquivalenceCheck --------------------------
(***************************************************************************)
(* One "qseal check" or "qseal refute" of a candidate against an original: *)
(* the caller, not a rule, wrote the candidate, and picks the backend.     *)
(***************************************************************************)
EXTENDS SolverBackends

CONSTANTS
  CheckSettings  \* what goes together: [backends, catalogs, databases,
                 \* originals, candidates, sizes], sets of backends, constraint
                 \* catalogs, databases, queries and candidates for them, and
                 \* the numbers of rows a solver's tables may have

ASSUME VerdictAssumption == None \notin {"proven", "not_equivalent"}

VARIABLES setting, backend, constraints, original, candidate, verdict

checkVars == <<setting, backend, constraints, original, candidate, verdict>>

CheckInit ==
  /\ setting \in DOMAIN CheckSettings
  /\ backend \in CheckSettings[setting].backends
  /\ constraints \in CheckSettings[setting].catalogs
  /\ original \in CheckSettings[setting].originals
  /\ candidate \in CheckSettings[setting].candidates
  /\ verdict = None

Check ==
  /\ verdict = None
  /\ verdict' \in BackendVerdicts(backend, original, candidate, constraints,
                                 CheckSettings[setting].sizes)
  /\ UNCHANGED <<setting, backend, constraints, original, candidate>>

CheckNext == Check

CheckSpec == CheckInit /\ [][CheckNext]_checkVars

-----------------------------------------------------------------------------
(* The databases that satisfy the trusted constraints. *)
Legal == {d \in CheckSettings[setting].databases : Satisfies(d, constraints)}

(* A certified candidate returns the rows of the original on every         *)
(* database that satisfies the constraints (README.md:16), whichever       *)
(* backend certified it.                                                   *)
ProvenMeansSameRows ==
  verdict = "proven" => \A d \in Legal : Rows(original, d) = Rows(candidate, d)

(* What a solver is told holds of every database that satisfies the        *)
(* constraints: it is never told more than they say                        *)
(* (sqlsolver.py:248, qed.py:159).                                         *)
ToldIsTrue ==
  LET told == Told(backend, {original, candidate}, constraints) IN
  told # None => \A d \in Legal : Satisfies(d, [n \in DOMAIN told \cap DOMAIN d |-> told[n]])

(* A refuted candidate can change results: a database that satisfies the   *)
(* constraints tells the two apart (docs/scope.md:11).                     *)
RefutationIsSound ==
  verdict = "not_equivalent" => \E d \in Legal : Rows(original, d) # Rows(candidate, d)

(* That holds where the solver could be told all of the constraints.       *)
ToldEverything ==
  LET told == Told(backend, {original, candidate}, constraints) IN
  backend = "builtin" \/ \A d \in CheckSettings[setting].databases : Satisfies(d, told) => d \in Legal

RefutedMeansDifferentRows == verdict = "not_equivalent" /\ ToldEverything => RefutationIsSound
=============================================================================
